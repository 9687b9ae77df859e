---------------------------- MODULE EventBroker ----------------------------
(***************************************************************************)
(* A sandbox's event stream: the broker of internal/events/broker.go, with *)
(* its ring, its filter and its bounded subscriber channels, and the SSE   *)
(* handler of internal/api/handlers/events.go that serves a client from    *)
(* it, first the replay, then the channel.                                 *)
(*                                                                         *)
(* An event is its id.  A client may disconnect at any time and come back  *)
(* with the id of the last event it read.                                  *)
(***************************************************************************)
EXTENDS Naturals, Sequences, FiniteSets

CONSTANTS
  Clients,    \* SSE clients, one connection at a time each
  Types,      \* event types
  Cap,        \* the ring's capacity
  SubDepth,   \* the capacity of a subscriber's channel
  MaxEvents,  \* bound on the events of a behaviour
  MaxConns    \* bound on the connections a client makes

ASSUME CapAssumption   == Cap \in Nat \ {0}
ASSUME DepthAssumption == SubDepth \in Nat \ {0}
ASSUME BoundAssumption == MaxEvents \in Nat /\ MaxConns \in Nat

VARIABLES
  nextID,     \* Broker.nextID
  stored,     \* the ids the filter let through
  filter,     \* Broker.filter, the set of observed types
  ring,       \* Broker.ring
  subs,       \* Broker.subs: the connections whose channel is fanned out to
  closed,     \* Broker.closed
  toClose,    \* channels Close has taken from subs and not yet closed
  shut,       \* channels that have been closed
  pc,         \* each client's GetEvents handler
  follow,     \* the connection's follow parameter
  replay,     \* replay entries still to be written
  chan,       \* the buffer of the connection's channel
  got,        \* what each client has read, over all its connections
  lost,       \* ids not sent to it: channel full, or gone from the ring
  conns       \* connections made; <<c, conns[c]>> is c's latest

ringVars == <<nextID, stored, filter, ring>>
connVars == <<follow, conns>>
vars == <<ringVars, subs, closed, toClose, shut, pc, connVars, replay, chan, got, lost>>

Elems(s) == {s[k] : k \in DOMAIN s}
LastOf(s) == IF s = <<>> THEN 0 ELSE s[Len(s)]
Conn(c) == <<c, conns[c]>>
Gone(c) == pc[c] \in {"off", "left"}

Init ==
  /\ nextID = 0
  /\ stored = {}
  /\ filter = Types
  /\ ring = <<>>
  /\ subs = {}
  /\ closed = FALSE
  /\ toClose = {}
  /\ shut = {}
  /\ pc = [c \in Clients |-> "off"]
  /\ follow = [c \in Clients |-> TRUE]
  /\ replay = [c \in Clients |-> <<>>]
  /\ chan = [c \in Clients |-> <<>>]
  /\ got = [c \in Clients |-> <<>>]
  /\ lost = [c \in Clients |-> {}]
  /\ conns = [c \in Clients |-> 0]

-----------------------------------------------------------------------------
(* publish, in one critical section: the id is taken even when the filter  *)
(* drops the event, and a full channel loses it.                           *)

Push(r, id) == IF Len(r) < Cap THEN Append(r, id) ELSE Append(Tail(r), id)

Full(c) == Len(chan[c]) >= SubDepth

Publish(t) ==
  /\ nextID < MaxEvents
  /\ nextID' = nextID + 1
  /\ \/ /\ t \in filter
        /\ stored' = stored \union {nextID + 1}
        /\ ring' = Push(ring, nextID + 1)
        /\ chan' = [c \in Clients |-> IF Conn(c) \in subs /\ ~Full(c)
                                      THEN Append(chan[c], nextID + 1) ELSE chan[c]]
        /\ lost' = [c \in Clients |-> IF Conn(c) \in subs /\ Full(c)
                                      THEN lost[c] \union {nextID + 1} ELSE lost[c]]
     \/ /\ t \notin filter
        /\ UNCHANGED <<stored, ring, chan, lost>>
  /\ UNCHANGED <<filter, subs, closed, toClose, shut, pc, connVars, replay, got>>

\* A config apply narrows or widens the observed types.
SetFilter(f) ==
  /\ f # filter
  /\ filter' = f
  /\ UNCHANGED <<nextID, stored, ring, subs, closed, toClose, shut, pc, connVars, replay, chan, got,
                 lost>>

-----------------------------------------------------------------------------
(* GetEvents: subscribe, write the replay, then follow the channel.        *)

\* Faulty variant: the entry the client has already read is replayed.
After_Inclusive(a) ==
  LET n == CHOOSE n \in 0..Len(ring) : \A k \in DOMAIN ring : ring[k] >= a <=> k > n
  IN SubSeq(ring, n + 1, Len(ring))

\* The buffered entries above a: ids grow along the ring, so they are what
\* follows the first n entries for some n.
After(a) ==
  LET n == CHOOSE n \in 0..Len(ring) : \A k \in DOMAIN ring : ring[k] > a <=> k > n
  IN SubSeq(ring, n + 1, Len(ring))

\* Ids above a that have left the ring.
Evicted(a) == {i \in stored : i > a} \ Elems(ring)

\* A closed broker replays nothing and hands out a closed channel.
Subscribe(c, a) ==
  /\ conns' = [conns EXCEPT ![c] = conns[c] + 1]
  /\ chan' = [chan EXCEPT ![c] = <<>>]
  /\ \/ /\ closed
        /\ replay' = [replay EXCEPT ![c] = <<>>]
        /\ shut' = shut \union {<<c, conns[c] + 1>>}
        /\ UNCHANGED <<subs, lost>>
     \/ /\ ~closed
        /\ replay' = [replay EXCEPT ![c] = After(a)]
        /\ subs' = subs \union {<<c, conns[c] + 1>>}
        /\ lost' = [lost EXCEPT ![c] = lost[c] \union Evicted(a)]
        /\ UNCHANGED shut

\* A client's first connection omits the id, a later one names the last it read.
Connect(c, f) ==
  /\ Gone(c) /\ conns[c] < MaxConns
  /\ pc' = [pc EXCEPT ![c] = "replay"]
  /\ follow' = [follow EXCEPT ![c] = f]
  /\ Subscribe(c, LastOf(got[c]))
  /\ UNCHANGED <<ringVars, closed, toClose, got>>

WriteReplay(c) ==
  /\ pc[c] = "replay" /\ replay[c] # <<>>
  /\ got' = [got EXCEPT ![c] = Append(got[c], Head(replay[c]))]
  /\ replay' = [replay EXCEPT ![c] = Tail(replay[c])]
  /\ UNCHANGED <<ringVars, subs, closed, toClose, shut, pc, connVars, chan, lost>>

\* Faulty variant: the handler reads the channel before the replay is out.
EndReplay_Early(c) ==
  /\ pc[c] = "replay" /\ follow[c]
  /\ pc' = [pc EXCEPT ![c] = "live"]
  /\ UNCHANGED <<ringVars, subs, closed, toClose, shut, connVars, replay, chan, got, lost>>

EndReplay(c) ==
  /\ pc[c] = "replay" /\ replay[c] = <<>> /\ follow[c]
  /\ pc' = [pc EXCEPT ![c] = "live"]
  /\ UNCHANGED <<ringVars, subs, closed, toClose, shut, connVars, replay, chan, got, lost>>

Receive(c) ==
  /\ pc[c] = "live" /\ chan[c] # <<>>
  /\ got' = [got EXCEPT ![c] = Append(got[c], Head(chan[c]))]
  /\ chan' = [chan EXCEPT ![c] = Tail(chan[c])]
  /\ UNCHANGED <<ringVars, subs, closed, toClose, shut, pc, connVars, replay, lost>>

\* The deferred cancel: closes the channel unless Close has taken it.
Unsubscribe(c) ==
  /\ subs' = subs \ {Conn(c)}
  /\ shut' = shut \union (subs \intersect {Conn(c)})
  /\ UNCHANGED <<ringVars, closed, toClose, connVars, replay, chan, got, lost>>

\* Faulty variant: the handler returns on a closed channel without draining it.
Finish_Undrained(c) ==
  /\ \/ pc[c] = "replay" /\ replay[c] = <<>> /\ ~follow[c]
     \/ pc[c] = "live" /\ Conn(c) \in shut
  /\ pc' = [pc EXCEPT ![c] = "off"]
  /\ Unsubscribe(c)

\* The handler is through: follow=false after the replay, or a closed channel
\* once what it still buffers has been read.
Finish(c) ==
  /\ \/ pc[c] = "replay" /\ replay[c] = <<>> /\ ~follow[c]
     \/ pc[c] = "live" /\ chan[c] = <<>> /\ Conn(c) \in shut
  /\ pc' = [pc EXCEPT ![c] = "off"]
  /\ Unsubscribe(c)

\* The client goes away: a write fails or the request's context ends.
Disconnect(c) ==
  /\ ~Gone(c)
  /\ pc' = [pc EXCEPT ![c] = "left"]
  /\ Unsubscribe(c)

-----------------------------------------------------------------------------
(* Close takes the subscribers under the lock and closes their channels    *)
(* outside it.                                                             *)

\* Faulty variant: the subscribers stay registered.
CloseBroker_KeepSubs ==
  /\ ~closed
  /\ closed' = TRUE
  /\ toClose' = subs
  /\ UNCHANGED <<ringVars, subs, shut, pc, connVars, replay, chan, got, lost>>

CloseBroker ==
  /\ ~closed
  /\ closed' = TRUE
  /\ toClose' = subs
  /\ subs' = {}
  /\ UNCHANGED <<ringVars, shut, pc, connVars, replay, chan, got, lost>>

CloseChannel(k) ==
  /\ k \in toClose
  /\ toClose' = toClose \ {k}
  /\ shut' = shut \union {k}
  /\ UNCHANGED <<ringVars, subs, closed, pc, connVars, replay, chan, got, lost>>

-----------------------------------------------------------------------------
Channels == Clients \X (1..MaxConns)

Next ==
  \/ \E t \in Types : Publish(t)
  \/ \E f \in SUBSET Types : SetFilter(f)
  \/ \E c \in Clients, f \in BOOLEAN : Connect(c, f)
  \/ \E c \in Clients : \/ WriteReplay(c)
                        \/ EndReplay(c)
                        \/ Receive(c)
                        \/ Finish(c)
                        \/ Disconnect(c)
  \/ CloseBroker
  \/ \E k \in Channels : CloseChannel(k)

Spec == Init /\ [][Next]_vars

(* A connected handler keeps writing, and Close finishes.                  *)
Fairness ==
  /\ \A c \in Clients : /\ WF_vars(WriteReplay(c)) /\ WF_vars(EndReplay(c))
                        /\ WF_vars(Receive(c)) /\ WF_vars(Finish(c))
  /\ \A k \in Channels : WF_vars(CloseChannel(k))

FairSpec == Spec /\ Fairness

-----------------------------------------------------------------------------
(* The state is well formed: ids come from the counter, the ring and the   *)
(* channels of the broker stay within their capacities.                    *)
TypeOK ==
  /\ nextID \in 0..MaxEvents
  /\ stored \subseteq 1..nextID
  /\ filter \subseteq Types
  /\ ring \in Seq(1..nextID) /\ Len(ring) <= Cap
  /\ subs \subseteq Channels /\ toClose \subseteq Channels /\ shut \subseteq Channels
  /\ closed \in BOOLEAN
  /\ pc \in [Clients -> {"off", "left", "replay", "live"}]
  /\ follow \in [Clients -> BOOLEAN]
  /\ replay \in [Clients -> Seq(1..nextID)]
  /\ chan \in [Clients -> Seq(1..nextID)] /\ \A c \in Clients : Len(chan[c]) <= SubDepth
  /\ got \in [Clients -> Seq(1..nextID)]
  /\ lost \in [Clients -> SUBSET (1..nextID)]
  /\ conns \in [Clients -> 0..MaxConns]

Increasing(s) == \A i, j \in DOMAIN s : i < j => s[i] < s[j]

(* A client reads ids in strictly increasing order, over replay, channel   *)
(* and reconnects: no event twice, none out of order, whatever GetEvents   *)
(* and publish interleave.                                                 *)
InOrder == \A c \in Clients : Increasing(got[c])

(* A client is past an event it has not read only if publish found its     *)
(* channel full or the ring had let it go before Subscribe: the hand-over  *)
(* from replay to channel skips nothing.  The ring keeps what publish      *)
(* stored until Cap newer events were stored.                              *)
NothingSkipped ==
  /\ \A c \in Clients : \A i \in stored :
       i < LastOf(got[c]) => i \in Elems(got[c]) \union lost[c]
  /\ \A i \in stored : i \in Elems(ring) \/ Cardinality({j \in stored : j > i}) >= Cap

(* No channel that publish may send on or Close is about to close has been *)
(* closed: either would panic the pod, however cancel races Close.         *)
ChannelsSafe == (subs \union toClose) \intersect shut = {}

(* What publish put into a follower's channel is written to the client,    *)
(* even when the broker closes meanwhile, unless the client goes away; and *)
(* after Close every GetEvents handler returns.                            *)
Delivered ==
  /\ \A c \in Clients, i \in 1..MaxEvents :
       (i \in Elems(chan[c]) /\ follow[c] /\ ~Gone(c)) ~> (i \in Elems(got[c]) \/ pc[c] = "left")
  /\ \A c \in Clients : closed ~> Gone(c)

=============================================================================
