----------------------------- MODULE MCSbxProxy -----------------------------
(* The instance of SbxProxy that TLC checks. *)
EXTENDS SbxProxy

Dot == "."
HA == <<"a">>               \* the host "a"
HB == <<"b", Dot, "a">>      \* the host "b.a"
Home == << <<>>, <<"p">> >>  \* "/p"
Deep == << <<>>, <<"p">>, <<"q">> >>

AnyHost == [access |-> "allow", host |-> <<"*">>, ports |-> {}, methods |-> {}, paths |-> {},
        pass |-> FALSE, over |-> Nil, script |-> Nil]
OnA == [AnyHost EXCEPT !.host = HA]
Sub == [AnyHost EXCEPT !.host = <<"*", Dot, "a">>]

\* Allow POST and GET below /p; deny one path, allow the rest; passthrough;
\* rewrite everything about the request and send it elsewhere.
Pinned == [OnA EXCEPT !.methods = {"GET"}, !.paths = {<< <<>>, <<"p">>, <<"*", "*">> >>}]
NotDeep == <<[OnA EXCEPT !.access = "deny", !.paths = {Deep}], OnA>>
Through == [OnA EXCEPT !.pass = TRUE]
Moved == [OnA EXCEPT
   !.ports = {443},
   !.over = [host |-> <<HB, 0>>, prefix |-> << <<>>, <<"m">> >>, params |-> [k |-> "set"],
             headers |-> [h |-> "set"], body |-> Object([x |-> 1]), strategy |-> "merge"],
   !.script = [fails |-> FALSE, body |-> "s", headers |-> [t |-> "set"], drop |-> {"h"}]]
Broken == [Moved EXCEPT
   !.over = [@ EXCEPT !.body = Text("o"), !.host = <<HB, 80>>],
   !.script = [fails |-> TRUE, body |-> "s", headers |-> <<>>, drop |-> {}]]

Q == [src |-> "s1", entry |-> "http", host |-> HA, port |-> 443, method |-> "get", path |-> Home,
      headers |-> [h |-> "agent"], body |-> Object([y |-> 2]), large |-> FALSE,
      ws |-> FALSE, close |-> FALSE, inner |-> "h1", parent |-> Nil]
Entry(e) == [Q EXCEPT !.entry = e]
Tls(i)   == [Entry("tls") EXCEPT !.inner = i]

W == [reqs |-> <<Q, Q, Q>>, shared |-> FALSE, ca |-> TRUE, passAll |-> FALSE,
      policy |-> [s \in {"s1"} |-> <<OnA>>], grace |-> [s \in {} |-> TRUE],
      reloads |-> 0]
Closed == [s \in {"s1", "s2"} |-> <<>>]
Held   == [s \in {"s1"} |-> TRUE]
Idler  == Entry("direct")

MCWorlds ==
  {\* two requests of one source and one of another over the pool
   [W EXCEPT !.reqs = <<Tls("h1"), Tls("h1"), [Tls("h1") EXCEPT !.src = "s2"]>>,
             !.policy = [s \in {AllSrc} |-> <<OnA>>]],
   \* the same with a pool shared by the pod
   [W EXCEPT !.reqs = <<Tls("h1"), [Tls("h1") EXCEPT !.src = "s2", !.close = TRUE], Idler>>,
             !.policy = [s \in {AllSrc} |-> <<Moved>>], !.shared = TRUE],
   \* an HTTP/2 connection with two streams, one to another host
   [W EXCEPT !.reqs = <<Tls("h2"), [Entry("stream") EXCEPT !.parent = 1],
                        [Entry("stream") EXCEPT !.parent = 1, !.host = HB]>>,
             !.policy = [s \in {"s1"} |-> <<Pinned, Sub>>]],
   [W EXCEPT !.reqs = <<Tls("h2"), [Entry("stream") EXCEPT !.parent = 1, !.ws = TRUE], Idler>>],
   \* requests held while the policy opens and closes
   [W EXCEPT !.reqs = <<Q, [Entry("explicit") EXCEPT !.path = Deep], Idler>>,
             !.policy = Closed, !.grace = [s \in {AllSrc} |-> TRUE], !.reloads = 1],
   [W EXCEPT !.reqs = <<Entry("connect"), [Entry("connect") EXCEPT !.host = HB], Idler>>,
             !.policy = Closed, !.grace = [s \in {AllSrc} |-> TRUE], !.reloads = 1],
   [W EXCEPT !.reqs = <<Tls("h1"), Entry("unknown"), Idler>>, !.policy = Closed, !.grace = Held, !.reloads = 2],
   \* opaque and silent streams, pinned and not
   [W EXCEPT !.reqs = <<Tls("opaque"), Tls("none"), Idler>>,
             !.policy = [s \in {"s1"} |-> <<Pinned>>], !.grace = Held, !.reloads = 1],
   \* passthrough by rule, without a CA, and for all
   [W EXCEPT !.reqs = <<Tls("h1"), Tls("opaque"), Idler>>, !.policy = [s \in {"s1"} |-> <<Through>>]],
   [W EXCEPT !.reqs = <<Tls("h1"), Tls("h2"), Idler>>, !.ca = FALSE],
   [W EXCEPT !.reqs = <<Tls("h1"), Tls("h2"), Idler>>, !.passAll = TRUE],
   \* rewritten requests and WebSockets, redirected and explicit
   [W EXCEPT !.reqs = <<[Entry("explicit") EXCEPT !.large = TRUE], [Entry("explicit") EXCEPT !.ws = TRUE],
                        Idler>>,
             !.policy = [s \in {"s1"} |-> <<Broken>>]],
   [W EXCEPT !.reqs = <<[Q EXCEPT !.ws = TRUE, !.body = Nil], [Tls("h1") EXCEPT !.ws = TRUE], Idler>>,
             !.policy = [s \in {"s1"} |-> <<Moved>>]]}

MCReloads ==
  {[policy |-> [s \in {"s1"} |-> <<OnA>>], grace |-> Held],
   [policy |-> [s \in {"s1", AllSrc} |-> NotDeep], grace |-> [s \in {"s1"} |-> FALSE]]}

\* Every pattern of up to four characters with every text of up to four, and
\* every path pattern of up to three segments with every path of up to three.
Upto(S, n) == UNION {[1 .. k -> S] : k \in 0 .. n}
Segments == {<<>>, <<"a">>, <<"a", "b">>}
Globs == {<<"a">>, <<"*">>, <<"a", "*">>, <<"*", "*">>}
MCQuestions ==
  [kind : {"text"}, pat : Upto({"a", "b", "*"}, 4), text : Upto({"a", "b"}, 4)]
    \cup [kind : {"path"}, pat : Upto(Globs, 3), text : Upto(Segments, 3)]
============================================================================
