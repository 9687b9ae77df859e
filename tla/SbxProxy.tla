------------------------------ MODULE SbxProxy ------------------------------
(***************************************************************************)
(* sbxproxy: the egress proxy (EgressProxy), the DNS sink beside it        *)
(* (DnsSink) and the WebSocket audit of its tunnels (WsFrames).  The three *)
(* share nothing but the audit encoder, which is one lock held for one     *)
(* record, so a behaviour that works one of them at a time reaches every   *)
(* state each can be in.                                                   *)
(***************************************************************************)
EXTENDS EgressProxy, DnsSink, WsFrames

CONSTANT Questions   \* [kind, pat, text]: patterns asked of the matchers

ASSUME QuestionsAssumption ==
  \A q \in Questions :
     IF q.kind = "path" THEN q.pat \in Seq(Texts) /\ q.text \in Seq(Texts)
                        ELSE q.pat \in Texts /\ q.text \in Texts

VARIABLES part,      \* the part this behaviour works
          ask        \* the pattern and the text a rule is being matched with

allVars == <<part, ask, proxyVars, dnsVars, wsVars>>

SbxInit ==
  /\ part \in {"flows", "dns", "frames", "rules"} /\ ask = Nil
  /\ ProxyInit /\ DnsInit /\ WsInit
  /\ part # "flows" => world = CHOOSE w \in Worlds : TRUE

Serve(p) == part = p /\ UNCHANGED part

\* A rule's host or path is matched: a pure call, posed here on its own.
Ask == /\ ask = Nil /\ ask' \in Questions

SbxNext ==
  \/ Serve("flows") /\ ProxyNext /\ UNCHANGED ask /\ UNCHANGED dnsVars /\ UNCHANGED wsVars
  \/ Serve("dns") /\ DnsNext /\ UNCHANGED ask /\ UNCHANGED proxyVars /\ UNCHANGED wsVars
  \/ Serve("frames") /\ WsNext /\ UNCHANGED ask /\ UNCHANGED proxyVars /\ UNCHANGED dnsVars
  \/ Serve("rules") /\ Ask /\ UNCHANGED proxyVars /\ UNCHANGED dnsVars /\ UNCHANGED wsVars

SbxSpec == SbxInit /\ [][SbxNext]_allVars

----------------------------------------------------------------------------
\* The audit stream is exact: every exchange with an upstream is one request and
\* one response on a connection of its own, every lookup is shown at least once
\* per window, and every WebSocket message is shown once and never in part.
AuditExact == ExchangesExact /\ LookupsShown /\ MessagesShown

\* The matchers of the code agree with what the patterns mean: globMatch and
\* matchSegment on characters, matchSegments on path segments.
MatchersExact ==
  ask # Nil =>
    IF ask.kind = "path"
      THEN matchSegments(ask.pat, ask.text) <=> SpellsPath(ask.pat, ask.text)
      ELSE /\ matchSegment(ask.pat, ask.text) <=> SpellsText(ask.pat, ask.text)
           /\ globMatch(ask.pat, ask.text) <=> SpellsText(ask.pat, ask.text)
============================================================================
