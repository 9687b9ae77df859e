----------------------------- MODULE TermSession -----------------------------
(***************************************************************************)
(* Terminal sessions: a process in a pty whose output fans out to viewers  *)
(* that come and go (src/internal/pty), the in-guest registry that keeps   *)
(* one named session alive across dropped connections                      *)
(* (src/internal/guestsess), and the two kinds of viewer: bridge (guest,   *)
(* one exec connection) and streamSession (the /v1/exec-stream handler).   *)
(*                                                                         *)
(* A chunk of output is its position in the process's output, a chunk of   *)
(* input the viewer that typed it and its position.                        *)
(***************************************************************************)
EXTENDS Naturals, Sequences, FiniteSets

CONSTANTS
    Viewers,      \* connections that ask for the session, one attach each
    Specs,        \* launch-determining configurations
    None,         \* no session, no viewer, no message
    RingCap,      \* ringCap, in chunks
    SubBuffer,    \* subBuffer
    MaxLaunches,  \* bound: processes launched
    MaxChunks,    \* bound: chunks a process writes
    MaxTyped      \* bound: chunks a viewer types

ASSUME TermConstants ==
    /\ None \notin Specs
    /\ RingCap \in Nat \ {0} /\ SubBuffer \in Nat \ {0}
    /\ MaxLaunches \in Nat /\ MaxChunks \in Nat /\ MaxTyped \in Nat

VARIABLES
    sess,     \* Registry.sessions over time: every session launched so far
    view,     \* each viewer
    killing   \* ensure waits, the registry locked, for a process to be reaped

termVars == <<sess, view, killing>>

NewSession(spec, hook) ==
    [spec |-> spec, entrypoint |-> hook, running |-> TRUE, exited |-> FALSE, written |-> 0, read |-> 0,
     hook |-> hook, last |-> 0, ring |-> <<>>, subs |-> {}, targets |-> {},
     closeReq |-> FALSE, closed |-> FALSE, released |-> FALSE,
     gate |-> <<>>, typed |-> <<>>]

NewViewer == [pc |-> "new", s |-> 0, sse |-> FALSE, replay |-> <<>>, ch |-> <<>>,
              got |-> <<>>, missed |-> FALSE, refused |-> FALSE, sent |-> 0]

TermInit ==
    /\ sess = <<>>
    /\ view = [v \in Viewers |-> NewViewer]
    /\ killing = None

Cur == Len(sess)

-----------------------------------------------------------------------------
(* Registry.                                                               *)

Launch(v, spec) ==
    /\ Cur < MaxLaunches
    /\ sess' = Append(sess, NewSession(spec, FALSE))
    /\ view' = [view EXCEPT ![v].pc = "attach", ![v].s = Cur + 1]

\* ensure: no session or one whose process was reaped is launched; a live one
\* with an equal spec is reused; one with another spec is killed first, the
\* registry staying locked until the process is reaped.
Ensure(v, spec) ==
    /\ view[v].pc = "new"
    /\ killing = None
    /\ \A s \in 1..Cur : sess[s].spec # None
    /\ \/ /\ Cur = 0 \/ (Cur > 0 /\ sess[Cur].exited)
          /\ Launch(v, spec)
          /\ UNCHANGED killing
       \/ /\ Cur > 0 /\ ~sess[Cur].exited /\ sess[Cur].spec = spec
          /\ view' = [view EXCEPT ![v].pc = "attach", ![v].s = Cur]
          /\ UNCHANGED <<sess, killing>>
       \/ /\ Cur > 0 /\ ~sess[Cur].exited /\ sess[Cur].spec # spec
          /\ Cur < MaxLaunches
          /\ sess' = [sess EXCEPT ![Cur].running = FALSE, ![Cur].closeReq = TRUE]
          /\ killing' = [v |-> v, spec |-> spec]
          /\ UNCHANGED view

\* kill returns once the reaper has closed exited.
Relaunch ==
    /\ killing # None
    /\ sess[Cur].exited
    /\ Launch(killing.v, killing.spec)
    /\ killing' = None

\* The handler's own sessions: an interactive exec-stream starts a process of
\* its own, and the entrypoint's host session lingers on exit (SetExitHook).
ExecStreamTTY(v, hook) ==
    /\ view[v].pc = "new"
    /\ killing = None
    /\ Cur = 0
    /\ MaxLaunches > 0
    /\ sess' = Append(sess, NewSession(None, hook))
    /\ view' = [view EXCEPT ![v].pc = "attach", ![v].s = 1, ![v].sse = TRUE]
    /\ UNCHANGED killing

\* execStreamAttach: another client attaches to the entrypoint's session.
ExecStreamAttach(v) ==
    /\ view[v].pc = "new"
    /\ Cur > 0 /\ sess[1].entrypoint
    /\ view' = [view EXCEPT ![v].pc = "attach", ![v].s = 1, ![v].sse = TRUE]
    /\ UNCHANGED <<sess, killing>>

-----------------------------------------------------------------------------
(* The process and the read loop.                                          *)

ProcessWrites(s) ==
    /\ sess[s].running
    /\ sess[s].written < MaxChunks
    /\ sess' = [sess EXCEPT ![s].written = @ + 1]
    /\ UNCHANGED <<view, killing>>

ProcessExits(s) ==
    /\ sess[s].running
    /\ sess' = [sess EXCEPT ![s].running = FALSE]
    /\ UNCHANGED <<view, killing>>

\* The registry's reaper: the exit code, then Close of the pty, then exited.
\* A handler's session is reaped by the handler after the stream ended.
Reaper(s) ==
    /\ ~sess[s].running
    /\ ~sess[s].exited
    /\ sess[s].spec # None
    /\ sess' = [sess EXCEPT ![s].closeReq = TRUE, ![s].exited = TRUE]
    /\ UNCHANGED <<view, killing>>

KeepNewest(r) == IF Len(r) > RingCap THEN SubSeq(r, 2, Len(r)) ELSE r

\* broadcast, first half: the chunk is appended to the ring and the current
\* subscribers are copied, under the lock.
Broadcast(x, n) ==
    [x EXCEPT !.ring = KeepNewest(Append(@, n)), !.last = n, !.targets = x.subs]

\* readLoop reads the next chunk of the master, which opens the stdin gate
\* (the buffered input is flushed first) and broadcasts the chunk.
ReadLoop(s) ==
    LET x == sess[s] IN
    /\ ~x.closed
    /\ x.targets = {}
    /\ x.read < x.written
    /\ ~x.closeReq
    /\ sess' = [sess EXCEPT ![s] =
         Broadcast([x EXCEPT !.read = @ + 1, !.released = TRUE,
                             !.typed = @ \o x.gate, !.gate = <<>>], x.read + 1)]
    /\ UNCHANGED <<view, killing>>

\* broadcast, second half, one copied subscriber at a time and outside the
\* lock: a full channel skips the frame. The loop reads on when all are done.
Deliver(s, v) ==
    /\ v \in sess[s].targets
    /\ IF Len(view[v].ch) < SubBuffer
       THEN view' = [view EXCEPT ![v].ch = Append(@, sess[s].last)]
       ELSE view' = [view EXCEPT ![v].missed = TRUE]
    /\ sess' = [sess EXCEPT ![s].targets = @ \ {v}]
    /\ UNCHANGED killing

\* The read loop meets the end of the master (or its Close). With an exit hook
\* and no Close yet it broadcasts the banner and lingers until Close.
Ended(x) == ~x.closed /\ x.targets = {} /\ (x.closeReq \/ (~x.running /\ x.read = x.written))

ExitBanner(s) ==
    LET x == sess[s] IN
    /\ Ended(x) /\ x.hook /\ ~x.closeReq
    /\ sess' = [sess EXCEPT ![s] = Broadcast([x EXCEPT !.hook = FALSE], x.last + 1)]
    /\ UNCHANGED <<view, killing>>

\* A session created with a hook (the handler's entrypoint) lingers after its
\* banner; the others end at once.
Lingers(x) == x.last > x.written /\ ~x.closeReq

SessionEnds(s) ==
    LET x == sess[s] IN
    /\ Ended(x) /\ (x.closeReq \/ ~x.hook) /\ ~Lingers(x)
    /\ sess' = [sess EXCEPT ![s].closed = TRUE, ![s].subs = {}]
    /\ UNCHANGED <<view, killing>>

\* Close: teardown of the entrypoint's host session.
CloseSession(s) ==
    /\ sess[s].entrypoint
    /\ ~sess[s].running /\ ~sess[s].closeReq
    /\ sess' = [sess EXCEPT ![s].closeReq = TRUE]
    /\ UNCHANGED <<view, killing>>

-----------------------------------------------------------------------------
(* Viewers.                                                                *)

\* Attach: ring snapshot and registration under one lock; a closed session
\* refuses, and the viewer reports the exit.
Attach(v) ==
    LET s == view[v].s IN
    /\ view[v].pc = "attach"
    /\ IF sess[s].closed
       THEN /\ view' = [view EXCEPT ![v].pc = "ended", ![v].refused = TRUE]
            /\ UNCHANGED sess
       ELSE /\ view' = [view EXCEPT ![v].pc = "live", ![v].replay = sess[s].ring]
            /\ sess' = [sess EXCEPT ![s].subs = @ \cup {v}]
    /\ UNCHANGED killing

\* The replay is written first, then the live channel.
ViewerWrites(v) ==
    /\ view[v].pc = "live"
    /\ \/ /\ view[v].replay # <<>>
          /\ view' = [view EXCEPT ![v].got = Append(@, Head(view[v].replay)),
                                  ![v].replay = Tail(@)]
       \/ /\ view[v].replay = <<>> /\ view[v].ch # <<>>
          /\ view' = [view EXCEPT ![v].got = Append(@, Head(view[v].ch)), ![v].ch = Tail(@)]
    /\ UNCHANGED <<sess, killing>>

\* detach, deferred by every viewer. The handler that started a process of
\* its own also closes the session and reaps the process tree; the named
\* session and the entrypoint's are left running.
Leave(v, pc) ==
    LET x == sess[view[v].s]
        own == view[v].sse /\ ~x.entrypoint IN
    /\ view' = [view EXCEPT ![v].pc = pc]
    /\ sess' = [sess EXCEPT ![view[v].s] =
         [x EXCEPT !.subs = @ \ {v}, !.targets = @ \ {v},
                   !.running = @ /\ ~own, !.closeReq = @ \/ own]]
    /\ UNCHANGED killing

ClientGone(v) == view[v].pc = "live" /\ Leave(v, "gone")

\* bridge: exited is one case of the select and may be taken while live still
\* holds output; the Exit frame ends the connection.
BridgeExit(v) ==
    /\ view[v].pc = "live" /\ ~view[v].sse
    /\ view[v].replay = <<>>
    /\ sess[view[v].s].exited
    /\ Leave(v, "ended")

\* streamSession: Done is one case of the select, and drains live first.
StreamDone(v) ==
    /\ view[v].pc = "live" /\ view[v].sse
    /\ view[v].replay = <<>> /\ view[v].ch = <<>>
    /\ sess[view[v].s].closed
    /\ Leave(v, "ended")

\* Session.Write through the gate: buffered until released, then straight to
\* the master, under the gate's lock.
Type(v) ==
    LET x == sess[view[v].s]
        k == <<v, view[v].sent + 1>> IN
    /\ view[v].pc = "live"
    /\ view[v].sent < MaxTyped
    /\ x.running
    /\ view' = [view EXCEPT ![v].sent = @ + 1]
    /\ sess' = IF x.released THEN [sess EXCEPT ![view[v].s].typed = Append(@, k)]
                             ELSE [sess EXCEPT ![view[v].s].gate = Append(@, k)]
    /\ UNCHANGED killing

\* The release timer: input is flushed although nothing was printed yet.
ReleaseTimer(s) ==
    /\ ~sess[s].released /\ ~sess[s].closed
    /\ sess' = [sess EXCEPT ![s].released = TRUE,
                            ![s].typed = @ \o sess[s].gate, ![s].gate = <<>>]
    /\ UNCHANGED <<view, killing>>

TermNext ==
    \/ \E v \in Viewers, spec \in Specs : Ensure(v, spec)
    \/ Relaunch
    \/ \E v \in Viewers, hook \in BOOLEAN : ExecStreamTTY(v, hook)
    \/ \E v \in Viewers : ExecStreamAttach(v)
    \/ \E s \in 1..Cur : ProcessWrites(s) \/ ProcessExits(s) \/ Reaper(s)
    \/ \E s \in 1..Cur : ReadLoop(s) \/ ExitBanner(s)
    \/ \E s \in 1..Cur, v \in Viewers : Deliver(s, v)
    \/ \E s \in 1..Cur : SessionEnds(s) \/ CloseSession(s) \/ ReleaseTimer(s)
    \/ \E v \in Viewers : Attach(v) \/ ViewerWrites(v) \/ Type(v)
    \/ \E v \in Viewers : ClientGone(v) \/ BridgeExit(v) \/ StreamDone(v)

TermSpec == TermInit /\ [][TermNext]_termVars

-----------------------------------------------------------------------------
\* Everything viewer v has received or will receive of what was broadcast.
Stream(v) ==
    LET x == sess[view[v].s] IN
    view[v].got \o view[v].replay \o view[v].ch
      \o (IF v \in x.targets THEN <<x.last>> ELSE <<>>)

Consecutive(q) == \A i \in 1..(Len(q) - 1) : q[i + 1] = q[i] + 1
Increasing(q) == \A i \in 1..(Len(q) - 1) : q[i + 1] > q[i]

\* Every chunk reaches an attached viewer exactly once, in the replayed ring
\* or on the live channel, never both and never neither; a viewer that fell
\* behind only misses chunks. A viewer whose session closed before its Attach
\* is refused and gets nothing, the ring included.
OutputOnce ==
    \A v \in Viewers : view[v].pc \in {"live", "ended", "gone"} /\ view[v].s > 0 =>
      LET q == Stream(v) IN
      /\ Increasing(q)
      /\ ~view[v].missed => Consecutive(q)
      /\ view[v].pc = "live" /\ ~view[v].missed /\ sess[view[v].s].last > 0
           => q # <<>> /\ q[Len(q)] = sess[view[v].s].last
      /\ view[v].refused => q = <<>> /\ sess[view[v].s].closed
      /\ view[v].pc = "ended" /\ view[v].sse /\ ~view[v].missed /\ ~view[v].refused
           /\ sess[view[v].s].last > 0
           => view[v].got # <<>> /\ view[v].got[Len(view[v].got)] = sess[view[v].s].last

\* What a viewer types reaches the process once and in the order it was
\* typed, whether it was typed before or after the gate opened.
InputInOrder ==
    \A s \in 1..Cur : \A v \in Viewers :
      view[v].s = s =>
        LET q == SelectSeq(sess[s].typed \o sess[s].gate, LAMBDA k : k[1] = v) IN
        Len(q) = view[v].sent /\ \A i \in DOMAIN q : q[i] = <<v, i>>

\* The named session is never two processes: a relaunch waits for the reaper.
OneProcess ==
    Cardinality({s \in 1..Cur : sess[s].running}) <= 1

TerminalIntact == OutputOnce /\ InputInOrder /\ OneProcess
=============================================================================
