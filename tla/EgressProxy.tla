---------------------------- MODULE EgressProxy ----------------------------
(***************************************************************************)
(* The running egress proxy (internal/proxy): one process shared by every  *)
(* sandbox of a pod.  Flows (connections, and the streams of an HTTP/2     *)
(* connection) are goroutines; each is sniffed, checked against the rules  *)
(* of its source, perhaps held for the source's deny-wait, and then        *)
(* tunnelled or forwarded over an upstream connection of the pool, while   *)
(* policy reloads replace the rules under it.                              *)
(*                                                                         *)
(*   world    the workload, the flags of this process and the bound on its *)
(*            reloads (fixed)                                              *)
(*   rules    Proxy.bySource           waits  Proxy.denyWait               *)
(*   chan     Proxy.policyCh: the number of channels closed so far         *)
(*   reload   where the SIGHUP goroutine is between its three stores       *)
(*   flow     per flow: program counter, audit context, rule, channel      *)
(*            captured, upstream connection, audit events                  *)
(*   conns    upstream connections: "free", "live" or "dead"; owed lists   *)
(*            the flows whose responses have not been read to the end, in  *)
(*            the order they were asked                                    *)
(*   idle     upstreamPool.idle: a stack for each key used so far          *)
(*   since    history: the rule lists in force for the flow's source since *)
(*            its current check began                                      *)
(*                                                                         *)
(* Assumed of the outside: an HTTP request has a path, and an upstream     *)
(* sends nothing unasked between the liveness probe of a pooled connection *)
(* and the request written after it.                                       *)
(***************************************************************************)
EXTENDS EgressRules

CONSTANTS Flows, Conns, Stray,
          Worlds,      \* [reqs, shared, ca, passAll, policy, grace, reloads] records
          Reloads,     \* the [policy, grace] pairs a reload may install
          MaxPeerActs, \* bound: closes and stray writes of upstreams
          MaxIdlePer   \* upstreamPool.maxIdlePer

VARIABLES world, rules, waits, chan, reload, reloads, flow, conns, idle, peerActs, since
proxyVars == <<world, rules, waits, chan, reload, reloads, flow, conns, idle, peerActs, since>>
policyVars == <<rules, waits, chan, reload, reloads>>
poolVars   == <<conns, idle, peerActs>>

IsPolicy(map) == \A src \in DOMAIN map : IsRuleList(map[src])

ASSUME PoolAssumption == Nil \notin Conns /\ MaxIdlePer \in Nat

ASSUME WorldsAssumption ==
  \A w \in Worlds :
     /\ IsPolicy(w.policy)
     /\ \A f \in Flows : w.reqs[f].host \in Texts /\ w.reqs[f].path \in Seq(Texts)

ASSUME ReloadsAssumption ==
  \A r \in Reloads :
     IsPolicy(r.policy) /\ \A pc \in {"rules", "notify"} : [pc |-> pc, policy |-> r.policy] # Nil

Req(f)   == world.reqs[f]
Free     == [st |-> "free"]      \* a connection nobody has open
AllSrc   == "all"                \* the "" bucket

----------------------------------------------------------------------------
(* Policy                                                                  *)

\* A map keyed by source: the source's own bucket, the "" bucket, or nothing.
Bucket(map, src, none) ==
  CASE src \in DOMAIN map                             -> map[src]
    [] src \notin DOMAIN map /\ AllSrc \in DOMAIN map -> map[AllSrc]
    [] OTHER                                          -> none

rulesForSource(src)    == Bucket(rules, src, <<>>)
denyWaitForSource(src) == Bucket(waits, src, FALSE)

\* New: no rules and no waits, then main's first SetDenyWaitBySource and
\* SetRulesBySource before any listener is open.
ProxyInit ==
  /\ world \in Worlds
  /\ rules = world.policy /\ waits = world.grace
  /\ chan = 0 /\ reload = Nil /\ reloads = 0
  /\ flow = [f \in Flows |->
       [pc |-> "new", stage |-> "none", ac |-> 0, rule |-> Nil, ch |-> 0, up |-> Nil,
        events |-> <<>>, shown |-> Nil, out |-> Nil, sent |-> "none", got |-> Nil]]
  /\ conns = [c \in Conns |-> Free] /\ idle = <<>> /\ peerActs = 0
  /\ since = [f \in Flows |-> {}]

\* SIGHUP: the deny-waits are replaced first, ...
SetDenyWaitBySource ==
  /\ reload = Nil /\ reloads < world.reloads
  /\ \E r \in Reloads : reload' = [pc |-> "rules", policy |-> r.policy] /\ waits' = r.grace
  /\ reloads' = reloads + 1
  /\ UNCHANGED <<world, rules, chan, flow, poolVars, since>>

Checking == {"match", "grace", "capture", "rematch", "wait"}

\* ... then the rules, in one atomic store, ...
SetRulesBySource ==
  /\ reload # Nil /\ reload.pc = "rules"
  /\ rules' = reload.policy
  /\ reload' = [reload EXCEPT !.pc = "notify"]
  /\ since' = [f \in Flows |-> IF flow[f].pc \in Checking
                                 THEN since[f] \cup {Bucket(reload.policy, Req(f).src, <<>>)}
                                 ELSE since[f]]
  /\ UNCHANGED <<world, waits, chan, reloads, flow, poolVars>>

\* ... then every holder of the current channel is woken and a new one installed.
notifyPolicyChange ==
  /\ reload # Nil /\ reload.pc = "notify"
  /\ chan' = chan + 1 /\ reload' = Nil
  /\ UNCHANGED <<world, rules, waits, reloads, flow, poolVars, since>>

----------------------------------------------------------------------------
(* Audit.  An event is <<audit context, phase, verdict>>.                  *)

denyRequest   == <<"request", "deny">>
denyResponse  == <<"response", "deny">>
deny          == <<denyRequest, denyResponse>>
allow         == <<"request", "allow">>
response      == <<"response", "allow">>
responseError == <<"response", "error">>
streamChunk   == <<"chunk", "allow">>

audit(f, ac, evs) ==
  flow[f].events \o [i \in DOMAIN evs |-> <<ac, evs[i][1], evs[i][2]>>]

\* The state s with the fields of r in the place of its own.
With(s, r) == [k \in DOMAIN s |-> IF k \in DOMAIN r THEN r[k] ELSE s[k]]

\* Flow f moves on, ...
Move(f, r) == flow' = [flow EXCEPT ![f] = With(@, r)]

\* ... logging evs in its audit context.
Log(f, evs, r) ==
  flow' = [flow EXCEPT ![f] = With(With(@, r), [events |-> audit(f, flow[f].ac, evs)])]

At(f, pc) == flow[f].pc = pc

\* beginAudit and the start of a check at one stage.
Begin(f, stage) ==
  /\ Move(f, [pc |-> "match", stage |-> stage, ac |-> flow[f].ac + 1])
  /\ since' = [since EXCEPT ![f] = {rulesForSource(Req(f).src)}]

\* A check that fails before it starts: a fresh audit context holding a denial.
DenyFresh(f) ==
  Move(f, [pc |-> "done", ac |-> flow[f].ac + 1, events |-> audit(f, flow[f].ac + 1, deny)])

----------------------------------------------------------------------------
(* Arrival                                                                 *)

Host(f) == Req(f).host

\* No SO_ORIGINAL_DST, or one that is the proxy's own address: dropped silently.
DropDirect(f) ==
  /\ At(f, "new") /\ Req(f).entry = "direct"
  /\ Move(f, [pc |-> "done"])
  /\ UNCHANGED <<world, policyVars, poolVars, since>>

\* Neither an HTTP request line nor a ClientHello.
handleTransparent(f) ==
  /\ At(f, "new") /\ Req(f).entry = "unknown"
  /\ DenyFresh(f)
  /\ UNCHANGED <<world, policyVars, poolVars, since>>

\* A plain HTTP request: redirected ("http") or sent to the explicit proxy.
acceptHTTP(f) ==
  /\ At(f, "new") /\ Req(f).entry \in {"http", "explicit"}
  /\ Begin(f, "request")
  /\ UNCHANGED <<world, policyVars, poolVars>>

\* A request line that does not parse: the connection is closed, unaudited.
BadRequest(f) ==
  /\ At(f, "new") /\ Req(f).entry \in {"http", "explicit"}
  /\ Move(f, [pc |-> "done"])
  /\ UNCHANGED <<world, policyVars, poolVars, since>>

\* CONNECT to the explicit proxy, or a ClientHello: a check by host only.
acceptHost(f) ==
  /\ At(f, "new") /\ Req(f).entry \in {"connect", "tls"}
  /\ Begin(f, IF Req(f).entry = "tls" THEN "hello" ELSE "connect")
  /\ UNCHANGED <<world, policyVars, poolVars>>

\* A stream of an intercepted HTTP/2 connection; upgrades and CONNECT are
\* refused there.
handleInnerH2(f) ==
  /\ At(f, "new") /\ Req(f).entry = "stream" /\ flow[Req(f).parent].pc = "serving"
  /\ IF Req(f).ws THEN DenyFresh(f) /\ UNCHANGED since ELSE Begin(f, "request")
  /\ UNCHANGED <<world, policyVars, poolVars>>

----------------------------------------------------------------------------
(* awaitEgress                                                             *)

\* The allow rule that decides the flow's check under the current rules, or Nil.
Match(f) ==
  LET q == Req(f)
      r == MatchEgress(rulesForSource(q.src), q.method, q.host, q.port,
                       IF flow[f].stage = "request" THEN q.path ELSE NoPath)
  IN  IF r # Nil /\ r.access = "allow" THEN r ELSE Nil

Granted(f) == Move(f, [pc |-> "granted", rule |-> Match(f)])

FirstMatch(f) ==
  /\ At(f, "match")
  /\ \/ Match(f) # Nil /\ Granted(f)
     \/ Match(f) = Nil /\ Move(f, [pc |-> "grace"])
  /\ UNCHANGED <<world, policyVars, poolVars, since>>

\* Denied: at once, or announced and held when the source has a deny-wait.
Grace(f) ==
  /\ At(f, "grace")
  /\ \/ ~denyWaitForSource(Req(f).src) /\ Log(f, deny, [pc |-> "done"])
     \/ denyWaitForSource(Req(f).src) /\ Log(f, <<denyRequest>>, [pc |-> "capture"])
  /\ UNCHANGED <<world, policyVars, poolVars, since>>

\* The channel is captured BEFORE the rules are read again.
policyChan(f) ==
  /\ At(f, "capture")
  /\ Move(f, [pc |-> "rematch", ch |-> chan])
  /\ UNCHANGED <<world, policyVars, poolVars, since>>

\* Mutant: a request goes to sleep on the channel without a second look.
Rematch_Skipped(f) ==
  /\ At(f, "rematch")
  /\ Move(f, [pc |-> "wait"])
  /\ UNCHANGED <<world, policyVars, poolVars, since>>

\* The second look, with the channel in hand.
Rematch(f) ==
  /\ At(f, "rematch")
  /\ \/ Match(f) # Nil /\ Granted(f)
     \/ Match(f) = Nil /\ Move(f, [pc |-> "wait"])
  /\ UNCHANGED <<world, policyVars, poolVars, since>>

\* The captured channel is closed.
Wake(f) ==
  /\ At(f, "wait") /\ flow[f].ch # chan
  /\ Move(f, [pc |-> "capture"])
  /\ UNCHANGED <<world, policyVars, poolVars, since>>

\* The timer fires, or the client's context ends: the paired response, then the
\* refusal.
GiveUp(f) ==
  /\ At(f, "wait")
  /\ Log(f, <<denyResponse>>, [pc |-> "done"])
  /\ UNCHANGED <<world, policyVars, poolVars, since>>

----------------------------------------------------------------------------
(* Upstream connections and the pool                                       *)

origDst(f)  == <<Host(f), Req(f).port>>
dialAddr(f) == dialTarget(flow[f].rule, upstreamAddr(Host(f), origDst(f)))

\* The name presented to the upstream: the SNI host, which for a stream is its
\* connection's.
TlsHost(f) == IF Req(f).entry = "stream" THEN Req(Req(f).parent).host ELSE Host(f)

keyFor(f) == [src  |-> IF world.shared THEN "" ELSE Req(f).src,
              addr |-> dialAddr(f), host |-> TlsHost(f)]

\* The idle connections of a key, the newest last.
Stack(key)       == IF key \in DOMAIN idle THEN idle[key] ELSE <<>>
SetStack(key, s) == [k \in DOMAIN idle \cup {key} |-> IF k = key THEN s ELSE idle[k]]
InPool(c)        == \E k \in DOMAIN idle : \E i \in DOMAIN idle[k] : idle[k][i] = c

Fresh(f) == [st |-> "live", key |-> keyFor(f), src |-> Req(f).src, owed |-> <<>>]

\* A dial takes a free connection; the others are left alone.
Dialled(f, c) ==
  /\ conns[c].st = "free"
  /\ conns' = [conns EXCEPT ![c] = Fresh(f)]
  /\ UNCHANGED <<idle, peerActs>>

CloseUp(f) ==
  /\ conns' = IF flow[f].up = Nil THEN conns ELSE [conns EXCEPT ![flow[f].up] = Free]
  /\ UNCHANGED <<idle, peerActs>>

\* upstreamPool.get pops the newest connection of the key and releases the lock;
\* an empty stack sends the caller to dial.
get(f) ==
  /\ At(f, "get")
  /\ LET stack == Stack(keyFor(f))
     IN  \/ /\ stack = <<>>
            /\ Move(f, [pc |-> "dial"]) /\ UNCHANGED idle
         \/ /\ stack # <<>>
            /\ Move(f, [pc |-> "probe", up |-> stack[Len(stack)]])
            /\ idle' = SetStack(keyFor(f), SubSeq(stack, 1, Len(stack) - 1))
  /\ UNCHANGED <<world, policyVars, conns, peerActs, since>>

\* Past idleTTL, closed by its peer, or with bytes pending: discarded, and the
\* next one is tried.  The probe sees only bytes that have arrived: the rest of
\* a response still owed to an earlier flow may be on its way.
connAlive(f) ==
  /\ At(f, "probe")
  /\ LET c == conns[flow[f].up]
     IN  \/ /\ c.st = "live" /\ (c.owed # <<>> => Head(c.owed) # Stray)
            /\ Move(f, [pc |-> "write"]) /\ UNCHANGED poolVars
         \/ Move(f, [pc |-> "get", up |-> Nil]) /\ CloseUp(f)
  /\ UNCHANGED <<world, policyVars, since>>

\* Kept unless its reader holds bytes or the key's stack is full.
put(f) ==
  /\ At(f, "put")
  /\ IF conns[flow[f].up].owed = <<>> /\ Len(Stack(keyFor(f))) < MaxIdlePer
       THEN /\ idle' = SetStack(keyFor(f), Append(Stack(keyFor(f)), flow[f].up))
            /\ UNCHANGED <<conns, peerActs>>
       ELSE CloseUp(f)
  /\ Move(f, [pc |-> "done", up |-> Nil])
  /\ UNCHANGED <<world, policyVars, since>>

\* External: an upstream closes a connection, or writes to one that is idle.
PeerActs == peerActs < MaxPeerActs /\ peerActs' = peerActs + 1
PeerCloses(c) ==
  /\ PeerActs
  /\ conns[c].st = "live"
  /\ conns' = [conns EXCEPT ![c].st = "dead"]
  /\ UNCHANGED <<world, policyVars, flow, idle, since>>
PeerSpeaks(c) ==
  /\ PeerActs
  /\ InPool(c)
  /\ conns[c].st = "live" /\ conns[c].owed = <<>>
  /\ conns' = [conns EXCEPT ![c].owed = <<Stray>>]
  /\ UNCHANGED <<world, policyVars, flow, idle, since>>

----------------------------------------------------------------------------
(* Allowed connections: tunnels and interception                           *)

Intercepts(f) == world.ca /\ ~flow[f].rule.pass /\ ~world.passAll

handleTransparentTLS(f) ==
  /\ At(f, "granted") /\ flow[f].stage = "hello"
  /\ Move(f, [pc |-> IF Intercepts(f) THEN "inner" ELSE "raw"])
  /\ UNCHANGED <<world, policyVars, poolVars, since>>

\* The agent's stream is piped untouched; only a failed dial is audited.
rawForwardTLS(f) ==
  /\ At(f, "raw")
  /\ \/ DenyFresh(f) /\ UNCHANGED poolVars
     \/ \E c \in Conns : Dialled(f, c) /\ Move(f, [pc |-> "tunnel", up |-> c, sent |-> "host"])
  /\ UNCHANGED <<world, policyVars, since>>

\* The agent's TLS is terminated with a minted certificate.  A handshake may
\* fail; then HTTP/2 serves streams, a request is checked again with its method
\* and path, silence is dropped, and an opaque protocol is spliced only if the
\* rule pins neither methods nor paths.
interceptTLS(f) ==
  /\ At(f, "inner")
  /\ LET inner == Req(f).inner
         free  == flow[f].rule.paths = {} /\ flow[f].rule.methods = {}
     IN  \/ DenyFresh(f) /\ UNCHANGED since
         \/ inner = "h2" /\ Move(f, [pc |-> "serving"]) /\ UNCHANGED since
         \/ inner = "none" /\ Move(f, [pc |-> "done"]) /\ UNCHANGED since
         \/ inner = "opaque" /\ free /\ Move(f, [pc |-> "splice"]) /\ UNCHANGED since
         \/ inner = "opaque" /\ ~free /\ DenyFresh(f) /\ UNCHANGED since
         \/ inner = "h1" /\ Begin(f, "request")
  /\ UNCHANGED <<world, policyVars, poolVars>>

\* The HTTP/2 connection ends; its streams' handlers run on.
closeH2(f) ==
  /\ At(f, "serving")
  /\ Move(f, [pc |-> "done"])
  /\ UNCHANGED <<world, policyVars, poolVars, since>>

\* The opaque stream gets its own audit context; both its events come at once.
spliceTLS(f) ==
  /\ At(f, "splice")
  /\ \/ DenyFresh(f) /\ UNCHANGED poolVars
     \/ \E c \in Conns :
          /\ Dialled(f, c)
          /\ Move(f, [pc |-> "tunnel", up |-> c, sent |-> "opaque", stage |-> "splice",
                      ac |-> flow[f].ac + 1,
                      events |-> audit(f, flow[f].ac + 1, <<allow, response>>)])
  /\ UNCHANGED <<world, policyVars, since>>

\* CONNECT: a failed dial is a denial in the same context; the allow event comes
\* after the dial, and the response event when the tunnel ends.
handleConnect(f) ==
  /\ At(f, "granted") /\ flow[f].stage = "connect"
  /\ \/ Log(f, deny, [pc |-> "done"]) /\ UNCHANGED poolVars
     \/ \E c \in Conns : Dialled(f, c) /\ Log(f, <<allow>>, [pc |-> "hijack", up |-> c])
  /\ UNCHANGED <<world, policyVars, since>>

hijack(f) ==
  /\ At(f, "hijack")
  /\ \/ Log(f, <<responseError>>, [pc |-> "done", up |-> Nil]) /\ CloseUp(f)
     \/ Move(f, [pc |-> "tunnel", sent |-> "host"]) /\ UNCHANGED poolVars
  /\ UNCHANGED <<world, policyVars, since>>

\* Either side of a tunnel closes.
endTunnel(f) ==
  /\ At(f, "tunnel")
  /\ LET closing == [pc |-> "done", up |-> Nil]
     IN  IF flow[f].stage = "connect" THEN Log(f, <<response>>, closing) ELSE Move(f, closing)
  /\ CloseUp(f)
  /\ UNCHANGED <<world, policyVars, since>>

----------------------------------------------------------------------------
(* Allowed requests                                                        *)

Agent(f) == [path |-> Req(f).path, params |-> <<>>, headers |-> Req(f).headers,
             body |-> Req(f).body, whole |-> TRUE]

Pooled(f) == Req(f).entry \in {"tls", "stream"} /\ ~Req(f).ws

\* handleHTTP rewrites the request completely, then logs it: what it logs is
\* what it sends.
handleHTTP(f) ==
  /\ At(f, "granted") /\ flow[f].stage = "request" /\ Req(f).entry = "explicit"
  /\ LET rule == flow[f].rule
         out  == runOverrideScript(applyOverride(Agent(f), rule.over), rule.script, Req(f).large)
     IN  Log(f, <<allow>>, [pc |-> "dial", out |-> out, shown |-> out])
  /\ UNCHANGED <<world, policyVars, poolVars, since>>

\* The other paths log the headers after the override but the body captured
\* before it, and run the script after logging.
applyRequestRule(f) ==
  /\ At(f, "granted") /\ flow[f].stage = "request" /\ Req(f).entry # "explicit"
  /\ LET rule == flow[f].rule
         over == applyOverride(Agent(f), rule.over)
     IN  Log(f, <<allow>>,
             [pc    |-> IF Pooled(f) THEN "get" ELSE "dial",
              out   |-> runOverrideScript(over, rule.script, Req(f).large),
              shown |-> [over EXCEPT !.body = Req(f).body]])
  /\ UNCHANGED <<world, policyVars, poolVars, since>>

\* A fresh upstream connection (with its TLS handshake where the flow was TLS).
dialUpstream(f) ==
  /\ At(f, "dial")
  /\ \/ Log(f, <<responseError>>, [pc |-> "done"]) /\ UNCHANGED poolVars
     \/ \E c \in Conns : Dialled(f, c) /\ Move(f, [pc |-> "write", up |-> c])
  /\ UNCHANGED <<world, policyVars, since>>

\* An error before the response event: one error response, connection closed.
Fail(f) == Log(f, <<responseError>>, [pc |-> "done", up |-> Nil]) /\ CloseUp(f)

writeUpstreamRequest(f) ==
  /\ At(f, "write")
  /\ \/ Fail(f)
     \/ /\ conns[flow[f].up].st = "live"
        /\ conns' = [conns EXCEPT ![flow[f].up].owed = Append(@, f)]
        /\ Move(f, [pc |-> "read", sent |-> "request"])
        /\ UNCHANGED <<idle, peerActs>>
  /\ UNCHANGED <<world, policyVars, since>>

\* The response read is the oldest one owed on the connection.
Answered(f, pc) ==
  /\ Log(f, <<response>>, [pc |-> pc, got |-> Head(conns[flow[f].up].owed)])
  /\ UNCHANGED poolVars

\* A response is forwarded; a 101 turns a redirected or intercepted request into
\* a tunnel.
forwardHTTP(f) ==
  /\ At(f, "read") /\ Req(f).entry # "stream" /\ ~(Req(f).entry = "explicit" /\ Req(f).ws)
  /\ \/ Fail(f)
     \/ Req(f).entry # "explicit" /\ Answered(f, "tunnel")
     \/ Answered(f, "body")
  /\ UNCHANGED <<world, policyVars, since>>

\* The explicit proxy's WebSocket: anything but a 101 is an error.
handleWebSocket(f) ==
  /\ At(f, "read") /\ Req(f).entry = "explicit" /\ Req(f).ws
  /\ Fail(f) \/ Answered(f, "tunnel")
  /\ UNCHANGED <<world, policyVars, since>>

\* A stream's response.
forwardH2Upstream(f) ==
  /\ At(f, "read") /\ Req(f).entry = "stream"
  /\ Fail(f) \/ Answered(f, "body")
  /\ UNCHANGED <<world, policyVars, since>>

\* A body chunk, or a WebSocket frame, is logged before it is written on.
chunkForward(f) ==
  /\ At(f, "body") \/ (At(f, "tunnel") /\ flow[f].stage = "request")
  /\ flow[f].events[Len(flow[f].events)][2] # "chunk"
  /\ Log(f, <<streamChunk>>, [got |-> flow[f].got])
  /\ UNCHANGED <<world, policyVars, poolVars, since>>

\* Mutant: the connection goes back without asking whether it was drained.
finish_Undrained(f) ==
  /\ At(f, "body")
  /\ \/ /\ Pooled(f) /\ ~Req(f).close
        /\ idle' = SetStack(keyFor(f), Append(Stack(keyFor(f)), flow[f].up))
        /\ UNCHANGED <<conns, peerActs>>
        /\ Move(f, [pc |-> "done", up |-> Nil])
     \/ Move(f, [pc |-> "done", up |-> Nil]) /\ CloseUp(f)
  /\ UNCHANGED <<world, policyVars, since>>

\* The end of the body.  The connection may be kept if the request and the
\* response allow it, the rest of the response was drained and nothing was read
\* past it; in every other case it is closed.
finish(f) ==
  /\ At(f, "body")
  /\ \/ /\ Pooled(f) /\ ~Req(f).close
        /\ conns' = [conns EXCEPT ![flow[f].up].owed = Tail(@)]
        /\ Move(f, [pc |-> "put"]) /\ UNCHANGED <<idle, peerActs>>
     \/ Move(f, [pc |-> "done", up |-> Nil]) /\ CloseUp(f)
  /\ UNCHANGED <<world, policyVars, since>>

----------------------------------------------------------------------------
Arrival(f) == \/ DropDirect(f) \/ handleTransparent(f) \/ acceptHTTP(f)
              \/ BadRequest(f) \/ acceptHost(f) \/ handleInnerH2(f)

Check(f) == \/ FirstMatch(f) \/ Grace(f) \/ policyChan(f) \/ Rematch(f)
            \/ Wake(f) \/ GiveUp(f)

Tunnel(f) == \/ handleTransparentTLS(f) \/ rawForwardTLS(f) \/ interceptTLS(f)
             \/ closeH2(f) \/ spliceTLS(f) \/ handleConnect(f) \/ hijack(f)
             \/ endTunnel(f)

Request(f) == \/ handleHTTP(f) \/ applyRequestRule(f) \/ get(f) \/ connAlive(f)
              \/ dialUpstream(f) \/ writeUpstreamRequest(f)
              \/ forwardHTTP(f) \/ handleWebSocket(f) \/ forwardH2Upstream(f)
              \/ chunkForward(f) \/ finish(f) \/ put(f)

ProxyNext ==
  \/ \E f \in Flows : Arrival(f) \/ Check(f) \/ Tunnel(f) \/ Request(f)
  \/ SetDenyWaitBySource \/ SetRulesBySource \/ notifyPolicyChange
  \/ \E c \in Conns : PeerCloses(c) \/ PeerSpeaks(c)

----------------------------------------------------------------------------
(* Properties                                                              *)

\* What a list of rules says of a request, from the meaning of its patterns: the
\* rules that decide it and come before every other one that does.
Says(list, method, host, port, path) ==
  LET Fits(r) == /\ host # <<>> /\ SpellsText(r.host, host)
                 /\ r.ports = {} \/ port \in r.ports
                 /\ IF path = NoPath
                      THEN r.access = "allow" \/ r.paths = {}
                      ELSE /\ r.methods = {} \/ \E m \in r.methods : Fold(m) = Fold(method)
                           /\ r.paths = {} \/ \E g \in r.paths : SpellsPath(g, path)
  IN  {list[i] : i \in {k \in DOMAIN list :
          Fits(list[k]) /\ \A j \in 1 .. k - 1 : ~Fits(list[j])}}

\* Every byte that left for an upstream was allowed by a rule of the flow's own
\* source that was in force while the flow was being checked: a request by its
\* method and path, a tunnel by its host - and with interception on, an opaque
\* stream only by a rule that pins nothing, an untouched one only by passthrough.
Authorised(f) ==
  LET q == Req(f)
      by(path) == {r \in UNION {Says(l, q.method, q.host, q.port, path) : l \in since[f]} :
                      r.access = "allow"}
  IN  CASE flow[f].sent = "none"    -> TRUE
        [] flow[f].sent = "request" -> by(q.path) # {}
        [] flow[f].sent = "opaque"  -> \E r \in by(NoPath) : r.paths = {} /\ r.methods = {}
        [] flow[f].sent = "host"    -> \E r \in by(NoPath) :
                                          q.entry = "tls" /\ world.ca /\ ~world.passAll => r.pass

\* No wakeup is lost: a request that sleeps on the current channel, with no
\* reload between its store and its notification, is one the rules deny.
Asleep(f) == At(f, "wait") /\ flow[f].ch = chan /\ (reload # Nil => reload.pc = "rules")
HeldOnlyIfDenied(f) ==
  Asleep(f) =>
    \A r \in Says(rulesForSource(Req(f).src), Req(f).method, Host(f), Req(f).port,
                  IF flow[f].stage = "request" THEN Req(f).path ELSE NoPath) : r.access = "deny"

\* The proxy mediates: nothing leaves unauthorised, and a request held for its
\* deny-wait is released by the reload that allows it (awaitEgress,
\* SetRulesBySource, interceptTLS).
EgressMediated == \A f \in Flows : Authorised(f) /\ HeldOnlyIfDenied(f)

\* An upstream connection serves one flow at a time, was opened for the flow's
\* source (unless the pool is shared), address and TLS name, answers the flow's
\* own request, and is idle only when nothing of a response is left on it.
ConnExclusive(f) ==
  LET c == flow[f].up
  IN  /\ flow[f].got \in {Nil, f}
      /\ c # Nil =>
           /\ \A g \in Flows \ {f} : flow[g].up # c
           /\ ~InPool(c)
           /\ conns[c].st # "free"
           /\ conns[c].key = keyFor(f)
           /\ world.shared \/ conns[c].src = Req(f).src

\* Idle connections are open, in the stack of their own key, in one place of it,
\* and no more than the cap; and an open connection is idle or a flow's.
PoolBounded ==
  /\ \A k \in DOMAIN idle :
       /\ Len(idle[k]) <= MaxIdlePer
       /\ \A i \in DOMAIN idle[k] :
            /\ conns[idle[k][i]].st # "free" /\ conns[idle[k][i]].key = k
            /\ \A j \in DOMAIN idle[k] : idle[k][i] = idle[k][j] => i = j
  /\ \A c \in Conns : conns[c].st # "free" => InPool(c) \/ \E f \in Flows : flow[f].up = c

\* One audit context: a response follows its request event, comes once, and only
\* chunks of an allowed response follow it; when the flow is over every request
\* event has its response - except the host-level one of a TLS connection that
\* was held and then let in, whose requests are audited on their own.
Paired(f, a) ==
  LET evs    == flow[f].events
      own    == {i \in DOMAIN evs : evs[i][1] = a}
      reply  == {i \in own : evs[i][2] = "response"}
      let_in == Req(f).entry = "tls" /\ a = 1 /\ flow[f].rule # Nil
  IN  /\ \A i, k \in reply : i = k
      /\ \A i \in own : evs[i][2] = "chunk" => \E k \in reply : k < i /\ evs[k][3] = "allow"
      /\ \A k \in reply : \A i \in own :
           /\ evs[i][2] = "request" => i < k
           /\ i < k /\ (\A j \in own : j <= i \/ j >= k)
                => (evs[i][3] = "deny" <=> evs[k][3] = "deny")
      /\ At(f, "done") /\ ~let_in => own = {} \/ reply # {}

\* What left for an upstream was announced by an allow event first, and the
\* explicit proxy announces exactly what it sends.
Announced(f) ==
  /\ flow[f].sent \in {"request", "opaque"} \/ (flow[f].sent = "host" /\ Req(f).entry = "connect")
       => \E i \in DOMAIN flow[f].events :
             flow[f].events[i][2] = "request" /\ flow[f].events[i][3] = "allow"
  /\ Req(f).entry = "explicit" => flow[f].shown = flow[f].out

\* Exchanges are exact: connections are never shared, mixed up or leaked
\* (upstreamPool, forwardHTTP), and every exchange is audited as one request and
\* one response (auditCtx).
ExchangesExact ==
  /\ PoolBounded
  /\ \A f \in Flows : /\ ConnExclusive(f) /\ Announced(f)
                      /\ \A a \in 1 .. flow[f].ac : Paired(f, a)
============================================================================
