------------------------------ MODULE GuestLogs ------------------------------
(***************************************************************************)
(* The workload's own output: sbxguest tees it into a bounded backlog and  *)
(* fans it out to the connected hosts (src/cmd/sbxguest/logs_linux.go);    *)
(* sandboxd keeps one log connection and redials when it drops             *)
(* (src/internal/isolation/microvm.go). A frame is its position in the     *)
(* workload's output.                                                      *)
(***************************************************************************)
EXTENDS Naturals, Sequences, FiniteSets

CONSTANTS
    BacklogMax,    \* logBacklogMax, in frames
    LogSubBuffer,  \* logSubBuffer
    MaxFrames,     \* bound: frames the workload writes
    MaxDials       \* bound: log connections

ASSUME LogConstants ==
    /\ BacklogMax \in Nat \ {0} /\ LogSubBuffer \in Nat \ {0}
    /\ MaxFrames \in Nat /\ MaxDials \in Nat

VARIABLES
    backlog,   \* workloadLogs.backlog
    wrote,     \* frames written so far
    logConns,  \* every log connection: its subscription and what it still sends
    hostConn,  \* the connection sandboxd reads, 0 while it redials
    seen       \* the frames published as stdio events, in order

logVars == <<backlog, wrote, logConns, hostConn, seen>>

LogInit ==
    /\ backlog = <<>>
    /\ wrote = 0
    /\ logConns = <<>>
    /\ hostConn = 0
    /\ seen = <<>>

\* workloadLogs.write: the frame joins the backlog, whose oldest go beyond the
\* cap, and every subscriber's queue that has room, all under the lock.
LogWrite ==
    /\ wrote < MaxFrames
    /\ wrote' = wrote + 1
    /\ backlog' = LET b == Append(backlog, wrote + 1) IN
                  IF Len(b) > BacklogMax THEN Tail(b) ELSE b
    /\ logConns' = [c \in DOMAIN logConns |->
         LET k == logConns[c] IN
         IF ~k.sub THEN k
         ELSE IF Len(k.ch) < LogSubBuffer THEN [k EXCEPT !.ch = Append(@, wrote + 1)]
         ELSE [k EXCEPT !.missed = TRUE]]
    /\ UNCHANGED <<hostConn, seen>>

\* StreamWorkloadLogs dials, and the guest's handler subscribes: the backlog
\* and the registration are taken under one lock.
LogDial ==
    /\ hostConn = 0
    /\ Len(logConns) < MaxDials
    /\ logConns' = Append(logConns,
         [sub |-> TRUE, open |-> TRUE, replay |-> backlog, ch |-> <<>>, missed |-> FALSE])
    /\ hostConn' = Len(logConns) + 1
    /\ UNCHANGED <<backlog, wrote, seen>>

\* streamWorkloadLogs writes the replay, then the live frames; pumpWorkloadLogs
\* publishes each one.
LogForward(c) ==
    LET k == logConns[c] IN
    /\ k.sub /\ k.open
    /\ \/ /\ k.replay # <<>>
          /\ seen' = Append(seen, Head(k.replay))
          /\ logConns' = [logConns EXCEPT ![c].replay = Tail(@)]
       \/ /\ k.replay = <<>> /\ k.ch # <<>>
          /\ seen' = Append(seen, Head(k.ch))
          /\ logConns' = [logConns EXCEPT ![c].ch = Tail(@)]
    /\ UNCHANGED <<backlog, wrote, hostConn>>

\* The connection drops; the host redials, the guest notices when it writes.
LogDrop ==
    /\ hostConn # 0
    /\ logConns' = [logConns EXCEPT ![hostConn].open = FALSE]
    /\ hostConn' = 0
    /\ UNCHANGED <<backlog, wrote, seen>>

\* The write fails and the handler unsubscribes.
LogUnsubscribe(c) ==
    LET k == logConns[c] IN
    /\ k.sub /\ ~k.open
    /\ k.replay # <<>> \/ k.ch # <<>>
    /\ logConns' = [logConns EXCEPT ![c].sub = FALSE, ![c].replay = <<>>, ![c].ch = <<>>]
    /\ UNCHANGED <<backlog, wrote, hostConn, seen>>

LogNext ==
    \/ LogWrite
    \/ LogDial
    \/ \E c \in DOMAIN logConns : LogForward(c) \/ LogUnsubscribe(c)
    \/ LogDrop

LogSpec == LogInit /\ [][LogNext]_logVars

-----------------------------------------------------------------------------
\* While the host holds a connection that never fell behind, everything in
\* the backlog has been published or is on its way: what a connection lost
\* comes again with the next one's replay.
LogsCovered ==
    hostConn # 0 /\ ~logConns[hostConn].missed =>
      LET k == logConns[hostConn]
          coming == k.replay \o k.ch IN
      \A i \in DOMAIN backlog :
         \/ \E j \in DOMAIN seen : seen[j] = backlog[i]
         \/ \E j \in DOMAIN coming : coming[j] = backlog[i]

\* One connection carries each frame once and in order: the replay and the
\* live frames neither overlap nor leave a gap.
LogsInOrder ==
    hostConn # 0 =>
      LET q == logConns[hostConn].replay \o logConns[hostConn].ch IN
      \A i \in 1..(Len(q) - 1) :
         IF logConns[hostConn].missed THEN q[i] < q[i + 1] ELSE q[i] + 1 = q[i + 1]

LogsIntact == LogsCovered /\ LogsInOrder
=============================================================================
