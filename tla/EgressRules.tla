---------------------------- MODULE EgressRules ----------------------------
(***************************************************************************)
(* The pure half of the egress proxy (internal/proxy): matching a request  *)
(* against an ordered list of rules, and rewriting the request a rule      *)
(* allows.                                                                 *)
(*                                                                         *)
(* Texts are sequences of characters, "*" being the wildcard; a path is    *)
(* the sequence of its "/"-separated segments (strings.Split), so the path *)
(* <<"", "a">> of the code is << <<>>, <<"a">> >>.  A connection-level     *)
(* check (TLS, CONNECT) has NoPath.  Blanks around a host pattern, which   *)
(* matchHost trims, are left out.                                          *)
(***************************************************************************)
EXTENDS Integers, Sequences, FiniteSets, TLC

CONSTANTS Nil        \* no rule, no override, no name

NoPath == <<>>
Texts  == Seq(STRING)   \* hosts and segments, and the patterns for them

----------------------------------------------------------------------------
(* Glob matching.  A slice of a pattern or of a text is where it starts:   *)
(* "from p on".                                                            *)

\* The n elements of pat from p on are those of text from s on.
SameRun(pat, p, text, s, n) ==
  /\ s + n <= Len(text) + 1
  /\ \A k \in 0 .. n - 1 : pat[p + k] = text[s + k]

\* A host pattern: each "*" takes any run of characters, dots included.  The
\* fixed prefix is consumed, then every split point is tried.
globMatch(pat, text) ==
  LET from[x \in (1 .. Len(pat) + 1) \X (1 .. Len(text) + 1)] ==
        LET p     == x[1]
            s     == x[2]
            stars == {k \in p .. Len(pat) : pat[k] = "*"}
            i     == CHOOSE k \in stars : \A m \in stars : k <= m
        IN  IF stars = {}
              THEN /\ Len(pat) - p = Len(text) - s
                   /\ SameRun(pat, p, text, s, Len(pat) + 1 - p)
              ELSE /\ SameRun(pat, p, text, s, i - p)
                   /\ \E j \in s + i - p .. Len(text) + 1 : from[<<i + 1, j>>]
  IN  from[<<1, 1>>]

matchHost(pat, host) == pat # <<>> /\ host # <<>> /\ globMatch(pat, host)

\* The states of the walk below: the next positions p of the pattern and s of
\* the segment, the last "*" passed (0 if none) and the position in the segment
\* that star currently ends at.
WalkStates(pat, seg) ==
  {x \in (1 .. Len(pat) + 1) \X (1 .. Len(seg) + 1) \X (0 .. Len(pat)) \X (0 .. Len(seg) + 1) :
     x[3] < x[1] /\ x[4] <= x[2]}

\* The greedy two-pointer walk that backtracks to the most recent "*".
Walk(pat, seg) ==
  LET walk[x \in WalkStates(pat, seg)] ==
        LET p       == x[1]
            s       == x[2]
            star    == x[3]
            matched == x[4]
        IN  IF s > Len(seg)
              THEN \A k \in p .. Len(pat) : pat[k] = "*"
              ELSE \/ /\ p <= Len(pat) /\ pat[p] = "*"
                      /\ walk[<<p + 1, s, p, s>>]
                   \/ /\ p <= Len(pat) /\ pat[p] # "*" /\ pat[p] = seg[s]
                      /\ walk[<<p + 1, s + 1, star, matched>>]
                   \/ /\ p > Len(pat) \/ (pat[p] # "*" /\ pat[p] # seg[s])
                      /\ star # 0
                      /\ walk[<<star + 1, matched + 1, star, matched + 1>>]
  IN  walk[<<1, 1, 0, 0>>]

\* One path segment: equal, or walked if the pattern has a "*".
matchSegment(pat, seg) ==
  IF \A i \in DOMAIN pat : pat[i] # "*" THEN pat = seg ELSE Walk(pat, seg)

\* Mutant: "**" takes one segment or more.
matchSegments_OneOrMore(pat, seg) ==
  LET from[x \in (1 .. Len(pat) + 1) \X (1 .. Len(seg) + 1)] ==
        LET p == x[1]
            s == x[2]
        IN  IF p > Len(pat) THEN s > Len(seg)
            ELSE IF pat[p] = <<"*", "*">>
              THEN \E j \in s + 1 .. Len(seg) + 1 : from[<<p + 1, j>>]
              ELSE /\ s <= Len(seg)
                   /\ matchSegment(pat[p], seg[s])
                   /\ from[<<p + 1, s + 1>>]
  IN  from[<<1, 1>>]

\* A whole path: "**" takes any number of segments, anything else exactly one.
matchSegments(pat, seg) ==
  LET from[x \in (1 .. Len(pat) + 1) \X (1 .. Len(seg) + 1)] ==
        LET p == x[1]
            s == x[2]
        IN  IF p > Len(pat) THEN s > Len(seg)
            ELSE IF pat[p] = <<"*", "*">>
              THEN \E j \in s .. Len(seg) + 1 : from[<<p + 1, j>>]
              ELSE /\ s <= Len(seg)
                   /\ matchSegment(pat[p], seg[s])
                   /\ from[<<p + 1, s + 1>>]
  IN  from[<<1, 1>>]

----------------------------------------------------------------------------
(* Rules.  A rule is a record with access ("allow" or "deny"), host (a     *)
(* pattern), ports, methods and paths (sets; an empty one does not         *)
(* constrain), pass, over (an override record or Nil) and script.          *)

\* strings.EqualFold on methods.
Fold(method) == IF method = "get" THEN "GET" ELSE method

IsRule(r) == /\ r # Nil /\ r.access \in {"allow", "deny"}
             /\ r.host \in Texts /\ r.paths \subseteq Seq(Texts)
IsRuleList(l) == l \in Seq({l[i] : i \in DOMAIN l}) /\ \A i \in DOMAIN l : IsRule(l[i])

matchPort(ports, port)       == ports = {} \/ port \in ports
matchMethod(methods, method) == methods = {} \/ Fold(method) \in {Fold(m) : m \in methods}
matchPath(paths, path)       == paths = {} \/ \E g \in paths : matchSegments(g, path)

\* Whether rule r decides a request.  Without a path the check is made for a
\* connection: methods and paths are not looked at, and a deny that names paths
\* is passed over, because the later HTTP-level check enforces it.
Decides(r, method, host, port, path) ==
  /\ matchHost(r.host, host)
  /\ matchPort(r.ports, port)
  /\ IF path = NoPath
       THEN ~(r.access = "deny" /\ r.paths # {})
       ELSE matchMethod(r.methods, method) /\ matchPath(r.paths, path)

\* The first rule of the list that decides the request, or Nil.
MatchEgress(rules, method, host, port, path) ==
  LET hits == {i \in DOMAIN rules : Decides(rules[i], method, host, port, path)}
  IN  IF host = <<>> \/ hits = {}
        THEN Nil
        ELSE rules[CHOOSE i \in hits : \A k \in hits : i <= k]

----------------------------------------------------------------------------
(* Where an allowed request goes.  An address is <<host, port>>; port 0 is *)
(* "unknown".                                                              *)

\* The name the agent used, re-resolved by the proxy, with the port the kernel
\* was asked for; the original destination when no name was seen.
upstreamAddr(host, origDst) ==
  IF host = <<>> \/ origDst[2] = 0 THEN origDst ELSE <<host, origDst[2]>>

\* override.host replaces the target; its own port wins when it has one.
dialTarget(rule, def) ==
  IF rule = Nil \/ rule.over = Nil \/ rule.over.host = Nil
    THEN def
    ELSE LET to == rule.over.host IN <<to[1], IF to[2] = 0 THEN def[2] ELSE to[2]>>

----------------------------------------------------------------------------
(* Rewriting.  A message is [path, params, headers, body, whole]: params   *)
(* and headers are functions from names to values; body is Nil, a text or  *)
(* an object, [kind |-> "text", val |-> ...] or [kind |-> "object",        *)
(* val |-> function]; whole is FALSE once part of the body was cut off.    *)

Text(v)   == [kind |-> "text", val |-> v]
Object(o) == [kind |-> "object", val |-> o]

\* override.body: a string replaces the body; an object is merged into an object
\* body, its keys winning, or replaces any other body (or every body under the
\* "replace" strategy); other JSON is ignored.  The new body is plain text of
\* known length.
applyBodyOverride(msg, body, strategy) ==
  CASE body = Nil -> msg
    [] body # Nil /\ body.kind = "text"   -> [msg EXCEPT !.body = body, !.whole = TRUE]
    [] body # Nil /\ body.kind = "object" ->
         [msg EXCEPT !.whole = TRUE,
                     !.body = IF strategy # "replace" /\ msg.body # Nil /\ msg.body.kind = "object"
                                THEN Object(body.val @@ msg.body.val)
                                ELSE body]
    [] OTHER -> msg

\* Query and header values are set over the agent's, the path gets its prefix.
applyOverride(msg, over) ==
  IF over = Nil
    THEN msg
    ELSE applyBodyOverride(
           [msg EXCEPT !.params  = over.params @@ @,
                       !.headers = over.headers @@ @,
                       !.path    = over.prefix \o @],
           over.body, over.strategy)

\* A script that succeeds writes its body back, sets the headers of its table and
\* deletes the ones it removed from it.
applyScript(msg, script) ==
  [msg EXCEPT !.body    = Text(script.body),
              !.headers = script.headers @@ [h \in DOMAIN @ \ script.drop |-> @[h]]]

\* The Lua script sees at most maxScriptBody bytes (a large body is longer), and
\* what it read is what goes on, whether it fails or not.
runOverrideScript(msg, script, large) ==
  LET read == [msg EXCEPT !.whole = @ /\ ~large]
  IN  CASE script = Nil                   -> msg
        [] script # Nil /\ script.fails   -> read
        [] OTHER                          -> applyScript(read, script)

----------------------------------------------------------------------------
(* What a pattern means, independently of how the code walks it: there is  *)
(* a way to cut the text into one piece per pattern element, a wildcard    *)
(* taking any piece and every other element one item that fits it.         *)
Spells(pat, text, Wild(_), Fits(_, _)) ==
  \E cut \in [1 .. Len(pat) + 1 -> 0 .. Len(text)] :
     /\ cut[1] = 0 /\ cut[Len(pat) + 1] = Len(text)
     /\ \A i \in DOMAIN pat :
          IF Wild(pat[i])
            THEN cut[i] <= cut[i + 1]
            ELSE cut[i + 1] = cut[i] + 1 /\ Fits(pat[i], text[cut[i + 1]])

SpellsText(pat, text) ==
  Spells(pat, text, LAMBDA p : p = "*", LAMBDA p, c : p = c)

SpellsPath(pat, path) ==
  Spells(pat, path, LAMBDA p : p = <<"*", "*">>, SpellsText)
============================================================================
