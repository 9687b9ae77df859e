------------------------------ MODULE DnsSink ------------------------------
(***************************************************************************)
(* The DNS sinkhole (internal/proxy/dns.go): every query of a workload is  *)
(* answered with one constant address, and each name looked up is audited, *)
(* repeats within a window collapsed by a table of bounded size.           *)
(*                                                                         *)
(*   seen     dnsDedupe.seen: names audited and cached, TRUE while the     *)
(*            entry is inside dnsAuditWindow                               *)
(*   replies  per name, the answers its queries got                        *)
(*   shown    history: names audited, TRUE while inside the window         *)
(***************************************************************************)
EXTENDS Naturals, FiniteSets

CONSTANTS Names,
          NoName,      \* the root, whose name is empty
          Sink,        \* DefaultDNSSink
          MaxEntries   \* dnsAuditMaxEntries

ASSUME MaxEntriesAssumption == MaxEntries \in Nat

VARIABLES seen, replies, shown
dnsVars == <<seen, replies, shown>>

DnsInit == seen = <<>> /\ shown = <<>> /\ replies = [n \in Names |-> {}]

\* The names of table, and name, which is inside its window.
Mark(table, name) == [n \in DOMAIN table \cup {name} |-> n = name \/ table[n]]

\* Whether the name is emitted, and the table afterwards.  A full table is first
\* rid of expired entries; if it stays full the name is emitted uncached.
shouldAudit(name) ==
  LET full == Cardinality(DOMAIN seen) >= MaxEntries
      kept == IF full THEN [n \in {m \in DOMAIN seen : seen[m]} |-> TRUE] ELSE seen
  IN  CASE name \in DOMAIN seen /\ seen[name] -> [emit |-> FALSE, seen |-> seen]
        [] (name \in DOMAIN seen => ~seen[name]) /\ Cardinality(DOMAIN kept) >= MaxEntries
             -> [emit |-> TRUE, seen |-> kept]
        [] OTHER -> [emit |-> TRUE, seen |-> Mark(kept, name)]

\* The one reply there is per query type: the placeholder for A, no data for the
\* rest.
buildSinkResponse(qtype) == IF qtype = "A" THEN Sink ELSE "nodata"

\* The table a lookup leaves, and the audit events it emits.
auditDNS(name) ==
  LET d == shouldAudit(name)
  IN  /\ seen' = d.seen
      /\ shown' = IF d.emit THEN Mark(shown, name) ELSE shown

\* A well-formed query: audited unless it is for the root, then answered.
serveSinkUDP ==
  \E name \in Names, qtype \in {"A", "AAAA"} :
     /\ IF name = NoName THEN UNCHANGED <<seen, shown>> ELSE auditDNS(name)
     /\ replies' = [replies EXCEPT ![name] = @ \cup {buildSinkResponse(qtype)}]

\* A query whose first question does not parse: no reply, no event.
parseQName == UNCHANGED dnsVars

\* dnsAuditWindow passes for one name.
WindowPasses ==
  \E name \in DOMAIN shown :
     /\ shown' = [shown EXCEPT ![name] = FALSE]
     /\ seen' = [n \in DOMAIN seen |-> IF n = name THEN FALSE ELSE seen[n]]
     /\ UNCHANGED replies

DnsNext == serveSinkUDP \/ parseQName \/ WindowPasses

----------------------------------------------------------------------------
\* A lookup is suppressed only if its name was audited inside the window, every
\* name answered was audited at some time, the table stays within its bound, and
\* no reply says anything of the name it was asked for (dnsDedupe.shouldAudit,
\* buildSinkResponse).
LookupsShown ==
  /\ \A n \in DOMAIN seen : seen[n] => n \in DOMAIN shown /\ shown[n]
  /\ \A n \in Names \ {NoName} : replies[n] # {} => n \in DOMAIN shown
  /\ Cardinality(DOMAIN seen) <= MaxEntries
  /\ UNION {replies[n] : n \in Names} \subseteq {Sink, "nodata"}
============================================================================
