----------------------------- MODULE ExecStream -----------------------------
(***************************************************************************)
(* One-shot execs, from /v1/exec-stream to the process in the sandbox and  *)
(* back: the handler's two pipe readers                                    *)
(* (src/internal/api/handlers/exec.go), the bridge, and what runs the      *)
(* command. In a microVM the bridge is sbxvsock (src/cmd/sbxvsock) and the *)
(* guest's two pumps feed it (src/cmd/sbxguest); in a container it is runc *)
(* exec, which runs the command, copies its output and exits with its code *)
(* (external), and whose process tree the handler kills on an abort.       *)
(*                                                                         *)
(* A line of output is its position in its stream. Every hop is a process  *)
(* of its own, and each end of a stream is seen at a different time.       *)
(***************************************************************************)
EXTENDS Naturals, Sequences, FiniteSets

CONSTANTS
    Execs,        \* exec-stream requests, each with an id of its own
    Lines,        \* bound: lines a command writes, by stream
    Code,         \* the exit code of a command that fails (0 is success)
    MaxDrops,     \* bound: connections lost and requests aborted
    MaxStdin      \* bound: stdin writes per exec

Streams == {"stdout", "stderr"}
OwnLine == 0   \* a line the bridge writes itself; the command's start at 1

ASSUME ExecConstants ==
    /\ Lines \in [Streams -> Nat] /\ Code \in Nat \ {0}
    /\ MaxDrops \in Nat /\ MaxStdin \in Nat

VARIABLES
    backend,    \* "microvm" or "container"
    handler,    \* execStreamPipes: "none", "run" or "done"
    processes,  \* h.processes: the execs that take stdin
    child,      \* the command in the guest
    pumped,     \* guest: lines each pump has written to the connection
    frames,     \* frames on the connection, in order
    link,       \* the connection: "none", "up", "lost" or "closed"
    bridge,     \* sbxvsock: how far it is, and its exit code
    pipe,       \* host: lines in the bridge's stdout and stderr pipes
    sse,        \* frames written to the client
    events,     \* events published to the broker
    typed,      \* stdin the client sent, and the command received
    drops

execVars == <<backend, handler, processes, child, pumped, frames, link, bridge, pipe,
              sse, events, typed, drops>>

ExecInit ==
    /\ backend \in {"microvm", "container"}
    /\ handler = [x \in Execs |-> "none"]
    /\ processes = {}
    /\ child = [x \in Execs |-> [st |-> "none", out |-> [s \in Streams |-> 0], code |-> 0]]
    /\ pumped = [x \in Execs |-> [s \in Streams |-> 0]]
    /\ frames = [x \in Execs |-> <<>>]
    /\ link = [x \in Execs |-> "none"]
    /\ bridge = [x \in Execs |-> [st |-> "none", code |-> 0]]
    /\ pipe = [x \in Execs |-> [s \in Streams |-> <<>>]]
    /\ sse = [x \in Execs |-> <<>>]
    /\ events = <<>>
    /\ typed = [x \in Execs |-> [sent |-> 0, recv |-> 0]]
    /\ drops = 0

\* execStreamPipes up to the start of the bridge: the request event, then the
\* process registered for stdin.
StartExec(x) ==
    /\ handler[x] = "none"
    /\ handler' = [handler EXCEPT ![x] = "run"]
    /\ processes' = processes \cup {x}
    /\ bridge' = [bridge EXCEPT ![x].st = "run"]
    /\ events' = Append(events, [x |-> x, typ |-> "request", n |-> 0])
    /\ UNCHANGED <<backend, child, pumped, frames, link, pipe, sse, typed, drops>>

\* The buffered exec collects what the stream emits; it takes no stdin.
ExecCommand(x) ==
    /\ handler[x] = "none"
    /\ handler' = [handler EXCEPT ![x] = "run"]
    /\ bridge' = [bridge EXCEPT ![x].st = "run"]
    /\ events' = Append(events, [x |-> x, typ |-> "request", n |-> 0])
    /\ UNCHANGED <<backend, processes, child, pumped, frames, link, pipe, sse, typed, drops>>

\* The bridge cannot be started: an error is answered, no response published.
StartFails(x) ==
    /\ handler[x] = "none"
    /\ drops < MaxDrops
    /\ drops' = drops + 1
    /\ handler' = [handler EXCEPT ![x] = "failed"]
    /\ events' = Append(events, [x |-> x, typ |-> "request", n |-> 0])
    /\ UNCHANGED <<backend, processes, child, pumped, frames, link, bridge, pipe, sse, typed>>

\* The bridge reports an error of its own on its stderr and ends with code 1
\* before any command runs: it cannot reach the guest, select the channel or
\* send Start (runc exec: whatever it refuses).
BridgeFails(x) ==
    /\ bridge[x].st = "run"
    /\ link[x] = "none"
    /\ drops < MaxDrops
    /\ drops' = drops + 1
    /\ pipe' = [pipe EXCEPT ![x]["stderr"] = Append(@, OwnLine)]
    /\ bridge' = [bridge EXCEPT ![x] = [st |-> "fatal", code |-> 1]]
    /\ link' = [link EXCEPT ![x] = "closed"]
    /\ UNCHANGED <<backend, handler, processes, child, pumped, frames, sse, events, typed>>

\* execPipes cannot start the command: the guest closes the connection.
GuestStartFails(x) ==
    /\ backend = "microvm"
    /\ bridge[x].st = "run"
    /\ link[x] = "none"
    /\ drops < MaxDrops
    /\ drops' = drops + 1
    /\ link' = [link EXCEPT ![x] = "lost"]
    /\ UNCHANGED <<backend, handler, processes, child, pumped, frames, bridge, pipe, sse,
                   events, typed>>

\* The bridge dials the guest and sends Start; handleExec starts the command.
BridgeStart(x) ==
    /\ bridge[x].st = "run"
    /\ link[x] = "none"
    /\ link' = [link EXCEPT ![x] = "up"]
    /\ child' = [child EXCEPT ![x].st = "run"]
    /\ UNCHANGED <<backend, handler, processes, pumped, frames, bridge, pipe, sse, events,
                   typed, drops>>

ChildWrites(x, s) ==
    /\ child[x].st = "run"
    /\ child[x].out[s] < Lines[s]
    /\ child' = [child EXCEPT ![x].out[s] = @ + 1]
    /\ UNCHANGED <<backend, handler, processes, pumped, frames, link, bridge, pipe, sse,
                   events, typed, drops>>

ChildExits(x) ==
    /\ child[x].st = "run"
    /\ \E c \in {0, Code} : child' = [child EXCEPT ![x].st = "dead", ![x].code = c]
    /\ UNCHANGED <<backend, handler, processes, pumped, frames, link, bridge, pipe, sse,
                   events, typed, drops>>

\* execPipes: each pump turns what it reads into a frame, one frame at a time
\* on the wire; a frame for a lost connection is dropped.
GuestPump(x, s) ==
    /\ pumped[x][s] < child[x].out[s]
    /\ pumped' = [pumped EXCEPT ![x][s] = @ + 1]
    /\ frames' = IF link[x] = "up"
                 THEN [frames EXCEPT ![x] = Append(@, [typ |-> s, n |-> pumped[x][s] + 1])]
                 ELSE frames
    /\ UNCHANGED <<backend, handler, processes, child, link, bridge, pipe, sse, events,
                   typed, drops>>

\* Mutant: the command is reaped without waiting for the pumps.
GuestExit_NoWait(x) ==
    /\ child[x].st = "dead"
    /\ child' = [child EXCEPT ![x].st = "reaped"]
    /\ frames' = IF link[x] = "up"
                 THEN [frames EXCEPT ![x] = Append(@, [typ |-> "exit", n |-> child[x].code])]
                 ELSE frames
    /\ UNCHANGED <<backend, handler, processes, pumped, link, bridge, pipe, sse, events,
                   typed, drops>>

\* Both pumps have met the end of their pipes and the command is reaped: the
\* Exit frame is the last one.
GuestExit(x) ==
    /\ child[x].st = "dead"
    /\ \A s \in Streams : pumped[x][s] = child[x].out[s]
    /\ child' = [child EXCEPT ![x].st = "reaped"]
    /\ frames' = IF link[x] = "up"
                 THEN [frames EXCEPT ![x] = Append(@, [typ |-> "exit", n |-> child[x].code])]
                 ELSE frames
    /\ UNCHANGED <<backend, handler, processes, pumped, link, bridge, pipe, sse, events,
                   typed, drops>>

\* sbxvsock: output frames go to its own stdout and stderr, Exit ends it with
\* the command's code.
BridgeRead(x) ==
    /\ bridge[x].st = "run"
    /\ link[x] \in {"up", "lost"}
    /\ frames[x] # <<>>
    /\ LET f == Head(frames[x]) IN
         IF f.typ = "exit"
         THEN /\ bridge' = [bridge EXCEPT ![x] = [st |-> "exited", code |-> f.n]]
              /\ link' = [link EXCEPT ![x] = "closed"]
              /\ UNCHANGED pipe
         ELSE /\ pipe' = [pipe EXCEPT ![x][f.typ] = Append(@, f.n)]
              /\ UNCHANGED <<bridge, link>>
    /\ frames' = [frames EXCEPT ![x] = Tail(@)]
    /\ UNCHANGED <<backend, handler, processes, child, pumped, sse, events, typed, drops>>

\* The connection is lost (the VM stopped or was snapshotted): what was on the
\* wire may still be read.
ConnectionLost(x) ==
    /\ backend = "microvm"
    /\ link[x] = "up"
    /\ drops < MaxDrops
    /\ drops' = drops + 1
    /\ link' = [link EXCEPT ![x] = "lost"]
    /\ UNCHANGED <<backend, handler, processes, child, pumped, frames, bridge, pipe, sse,
                   events, typed>>

\* ReadFrame fails: the bridge ends with code 0, silently at the end of the
\* stream and after a line of its own at any other error.
BridgeEOF(x) ==
    /\ bridge[x].st = "run"
    /\ link[x] = "lost" /\ frames[x] = <<>>
    /\ bridge' = [bridge EXCEPT ![x] = [st |-> "eof", code |-> 0]]
    /\ link' = [link EXCEPT ![x] = "closed"]
    /\ \/ UNCHANGED pipe
       \/ pipe' = [pipe EXCEPT ![x]["stderr"] = Append(@, OwnLine)]
    /\ UNCHANGED <<backend, handler, processes, child, pumped, frames, sse, events,
                   typed, drops>>

\* The client disconnects or the sandbox is deleted: execContext is cancelled
\* and the bridge killed; the command itself only loses its stdin.
AbortExec(x) ==
    /\ handler[x] = "run" /\ bridge[x].st = "run"
    /\ drops < MaxDrops
    /\ drops' = drops + 1
    /\ bridge' = [bridge EXCEPT ![x] = [st |-> "killed", code |-> 0]]
    /\ link' = [link EXCEPT ![x] = "closed"]
    /\ frames' = [frames EXCEPT ![x] = <<>>]
    /\ UNCHANGED <<backend, handler, processes, child, pumped, pipe, sse, events, typed>>

\* One of the handler's two readers: the line is published, then emitted.
HandlerPipe(x, s) ==
    /\ handler[x] = "run"
    /\ pipe[x][s] # <<>>
    /\ events' = Append(events, [x |-> x, typ |-> s, n |-> Head(pipe[x][s])])
    /\ sse' = [sse EXCEPT ![x] = Append(@, [typ |-> s, n |-> Head(pipe[x][s])])]
    /\ pipe' = [pipe EXCEPT ![x][s] = Tail(@)]
    /\ UNCHANGED <<backend, handler, processes, child, pumped, frames, link, bridge, typed, drops>>

\* killExecTree: the container's cleanup kills what an aborted exec left; the
\* command in a guest runs on.
KillExecTree(x) ==
    IF backend = "container" /\ bridge[x].st = "killed" /\ child[x].st = "run"
    THEN [child EXCEPT ![x].st = "dead"]
    ELSE child

\* Both readers met the end of their pipes and the bridge is reaped: the
\* response event, the exit frame, the process is no longer registered and
\* the deferred cleanup runs.
HandlerExit(x) ==
    /\ handler[x] = "run"
    /\ bridge[x].st \in {"exited", "eof", "killed", "fatal"}
    /\ \A s \in Streams : pipe[x][s] = <<>>
    /\ events' = Append(events, [x |-> x, typ |-> "response", n |-> 0])
    /\ sse' = [sse EXCEPT ![x] = Append(@, [typ |-> "exit", n |-> bridge[x].code])]
    /\ handler' = [handler EXCEPT ![x] = "done"]
    /\ processes' = processes \ {x}
    /\ child' = KillExecTree(x)
    /\ UNCHANGED <<backend, pumped, frames, link, bridge, pipe, typed, drops>>

\* ExecStreamStdin finds the process by its id and writes to its pipe; the
\* bridge and relayStdin pass it on.
ExecStreamStdin(x) ==
    /\ x \in processes
    /\ typed[x].sent < MaxStdin
    /\ typed' = [typed EXCEPT ![x].sent = @ + 1]
    /\ UNCHANGED <<backend, handler, processes, child, pumped, frames, link, bridge, pipe,
                   sse, events, drops>>

RelayStdin(x) ==
    /\ child[x].st = "run"
    /\ link[x] = "up" /\ bridge[x].st = "run"
    /\ typed[x].recv < typed[x].sent
    /\ typed' = [typed EXCEPT ![x].recv = @ + 1]
    /\ UNCHANGED <<backend, handler, processes, child, pumped, frames, link, bridge, pipe,
                   sse, events, drops>>

ExecNext ==
    \/ \E x \in Execs : StartExec(x) \/ ExecCommand(x) \/ StartFails(x)
    \/ \E x \in Execs : BridgeStart(x) \/ ChildExits(x) \/ GuestExit(x)
    \/ \E x \in Execs : BridgeFails(x) \/ GuestStartFails(x)
    \/ \E x \in Execs, s \in Streams : ChildWrites(x, s) \/ GuestPump(x, s) \/ HandlerPipe(x, s)
    \/ \E x \in Execs : BridgeRead(x) \/ BridgeEOF(x) \/ HandlerExit(x)
    \/ \E x \in Execs : ConnectionLost(x) \/ AbortExec(x)
    \/ \E x \in Execs : ExecStreamStdin(x) \/ RelayStdin(x)

ExecSpec == ExecInit /\ [][ExecNext]_execVars

-----------------------------------------------------------------------------
Of(q, s) == SelectSeq(q, LAMBDA f : f.typ = s)

\* What the client gets of a stream is a prefix of what the command wrote to
\* it, in order and without a gap, whatever is lost. The one line the command
\* did not write is the bridge's own, the last of stderr, and only where the
\* bridge failed or lost its connection.
NoGaps ==
    \A x \in Execs, s \in Streams : LET q == Of(sse[x], s) IN
      \A i \in DOMAIN q :
        \/ q[i].n = i /\ i <= child[x].out[s]
        \/ q[i].n = OwnLine /\ s = "stderr" /\ i = Len(q) /\ bridge[x].st \in {"eof", "fatal"}

\* An exec whose bridge ended on the command's own exit has delivered every
\* line of both streams before the exit frame, which is last and carries the
\* command's code; its response event follows all of its stdio events. An exec
\* whose connection was lost is reported with code 0, whatever the command did.
ExitIsLast ==
    \A x \in Execs : handler[x] = "done" =>
      /\ sse[x][Len(sse[x])].typ = "exit"
      /\ LET mine == SelectSeq(events, LAMBDA e : e.x = x) IN
           mine[1].typ = "request" /\ mine[Len(mine)].typ = "response"
      /\ bridge[x].st = "fatal" => sse[x][Len(sse[x])].n # 0 /\ child[x].st = "none"
      /\ bridge[x].st = "exited" =>
            /\ sse[x][Len(sse[x])].n = child[x].code
            /\ \A s \in Streams : Len(Of(sse[x], s)) = child[x].out[s]

\* A container's exec is over when its handler is: no command outlives it.
NoOrphan ==
    \A x \in Execs : backend = "container" /\ handler[x] = "done" => child[x].st # "run"

ExecComplete == NoGaps /\ ExitIsLast /\ NoOrphan
=============================================================================
