------------------------------- MODULE Guest -------------------------------
(***************************************************************************)
(* The guest agent of a microVM with its host half: the 9p session behind  *)
(* each workspace (NineProxy), the workspaces themselves (GuestControl),   *)
(* terminal sessions (TermSession), one-shot execs (ExecStream), the       *)
(* workload's log (GuestLogs) and the file API (FileAPI), the last three   *)
(* with the container backend's half too. They run side by side and        *)
(* share no state: a connection of one channel is never touched by the     *)
(* handler of another (dispatchGuestConn). A behaviour that works one of   *)
(* them at a time therefore reaches every state each of them can be in.    *)
(***************************************************************************)
EXTENDS NineProxy, GuestControl, TermSession, ExecStream, GuestLogs, FileAPI

\* The channels of the one guest port, and the 9p transport.
Channels == {"ninep", "control", "terminal", "exec", "logs", "files"}

VARIABLE channel   \* the part this behaviour works

allVars == <<channel, nineVars, guestVars, termVars, execVars, logVars, fileVars>>

Init ==
    /\ channel \in Channels
    /\ NineInit /\ GuestInit /\ TermInit /\ ExecInit /\ LogInit /\ FileInit
    /\ channel # "control" => ~packed /\ ~haveSnapshot
    /\ channel # "exec" => backend = "microvm"
    /\ channel # "files" => vmFiles

\* dispatchGuestConn hands a connection to the handler its first byte names.
Dispatch(c) == channel = c /\ UNCHANGED channel

Next ==
    \/ /\ Dispatch("ninep") /\ NineNext
       /\ UNCHANGED guestVars /\ UNCHANGED termVars /\ UNCHANGED execVars
       /\ UNCHANGED logVars /\ UNCHANGED fileVars
    \/ /\ Dispatch("control") /\ GuestNext
       /\ UNCHANGED nineVars /\ UNCHANGED termVars /\ UNCHANGED execVars
       /\ UNCHANGED logVars /\ UNCHANGED fileVars
    \/ /\ Dispatch("terminal") /\ TermNext
       /\ UNCHANGED nineVars /\ UNCHANGED guestVars /\ UNCHANGED execVars
       /\ UNCHANGED logVars /\ UNCHANGED fileVars
    \/ /\ Dispatch("exec") /\ ExecNext
       /\ UNCHANGED nineVars /\ UNCHANGED guestVars /\ UNCHANGED termVars
       /\ UNCHANGED logVars /\ UNCHANGED fileVars
    \/ /\ Dispatch("logs") /\ LogNext
       /\ UNCHANGED nineVars /\ UNCHANGED guestVars /\ UNCHANGED termVars
       /\ UNCHANGED execVars /\ UNCHANGED fileVars
    \/ /\ Dispatch("files") /\ FileNext
       /\ UNCHANGED nineVars /\ UNCHANGED guestVars /\ UNCHANGED termVars
       /\ UNCHANGED execVars /\ UNCHANGED logVars

Spec == Init /\ [][Next]_allVars

-----------------------------------------------------------------------------
\* Every output stream that leaves the guest is exact: a terminal viewer, an
\* exec client and the log connection each get every chunk once and in order
\* unless they fell behind or were cut off, an exec's exit comes last, and a
\* file goes in and out whole or not at all.
StreamsExact == TerminalIntact /\ ExecComplete /\ LogsIntact /\ FilesIntact
=============================================================================
