------------------------------ MODULE WsFrames ------------------------------
(***************************************************************************)
(* WebSocket audit (internal/wsaudit): frames are copied through a tunnel  *)
(* unchanged, and the messages they carry are put together for the audit   *)
(* stream, within AuditLimit.                                              *)
(*                                                                         *)
(*   asm      the assembler: opcode of the message in flight (or Idle),    *)
(*            the pieces buffered and whether the limit was passed         *)
(*   passed   frames written on                                            *)
(*   emitted  the bodies of the chunk events                               *)
(*   msg      history: the pieces of the message the peer is sending       *)
(*   due      history: the bodies a reader of the stream should have seen  *)
(*                                                                         *)
(* A payload is a sequence of units.  Assumed of the peers: a fragment   *)
(* of a longer message fits AuditLimit on its own.                         *)
(***************************************************************************)
EXTENDS Naturals, Sequences

CONSTANTS AuditLimit, MaxFrames, Idle

ASSUME FramesAssumption == AuditLimit \in Nat /\ Idle \notin {"text", "binary"}

VARIABLES asm, passed, emitted, msg, due
wsVars == <<asm, passed, emitted, msg, due>>

WsInit == /\ asm = [op |-> Idle, buf |-> <<>>, overflow |-> FALSE]
          /\ passed = 0 /\ emitted = <<>> /\ msg = [op |-> Idle, all |-> <<>>] /\ due = <<>>

Size(op, n)      == <<op, n>>                     \* "[op n bytes]"
render(op, body) == IF op = "text" THEN body ELSE Size(op, Len(body))

\* assembler.append: beyond the limit only the fact is kept.
append(a, payload) ==
  IF a.overflow \/ Len(a.buf) + Len(payload) > AuditLimit
    THEN [a EXCEPT !.overflow = TRUE]
    ELSE [a EXCEPT !.buf = @ \o payload]

\* The assembler after a data frame and the body it returns (<<>> for none).  A
\* frame beyond the limit was copied without being read: its size is shown.
assemble(op, fin, payload) ==
  LET first == append([op |-> op, buf |-> <<>>, overflow |-> FALSE], payload)
      more  == append(asm, payload)
  IN  CASE op # "continuation" /\ Len(payload) > AuditLimit
             -> [asm |-> asm, body |-> <<Size(op, Len(payload))>>]
        [] op # "continuation" /\ Len(payload) <= AuditLimit /\ fin
             -> [asm |-> asm, body |-> <<render(op, payload)>>]
        [] op # "continuation" /\ Len(payload) <= AuditLimit /\ ~fin
             -> [asm |-> first, body |-> <<>>]
        [] op = "continuation" /\ asm.op = Idle
             -> [asm |-> asm, body |-> <<Size(op, Len(payload))>>]
        [] op = "continuation" /\ asm.op # Idle /\ ~fin
             -> [asm |-> more, body |-> <<>>]
        [] OTHER
             -> [asm |-> [more EXCEPT !.op = Idle],
                 body |-> <<IF more.overflow THEN Size(more.op, Len(more.buf))
                                             ELSE render(more.op, more.buf)>>]

\* An empty body is not emitted.
NonEmpty(bodies) == IF bodies = <<>> \/ bodies = << <<>> >> THEN <<>> ELSE bodies

\* The content of the i-th frame, told apart from its neighbours'.
Unit(i) == IF i % 2 = 0 THEN "u" ELSE "v"

\* The peers keep to the protocol: a message is one frame, or a first fragment
\* and continuations; control frames may come between.
DataFrame ==
  /\ passed < MaxFrames
  /\ \E op \in {"text", "binary", "continuation"}, fin \in BOOLEAN,
        n \in 0 .. AuditLimit + 1 :
       LET payload == [i \in 1 .. n |-> Unit(passed)]
           whole   == (IF op = "continuation" THEN msg.all ELSE <<>>) \o payload
           kind    == IF op = "continuation" THEN msg.op ELSE op
       IN  /\ (op = "continuation") = (msg.op # Idle)
           /\ n > AuditLimit => fin /\ op # "continuation"
           /\ asm' = assemble(op, fin, payload).asm
           /\ emitted' = emitted \o NonEmpty(assemble(op, fin, payload).body)
           /\ msg' = IF fin THEN [op |-> Idle, all |-> <<>>] ELSE [op |-> kind, all |-> whole]
           /\ due' = IF fin /\ (kind # "text" \/ whole # <<>>)
                       THEN Append(due, <<kind, whole>>) ELSE due
  /\ passed' = passed + 1

\* A ping, pong or close is shown at once and leaves the assembler alone.
ControlFrame ==
  /\ passed < MaxFrames
  /\ emitted' = Append(emitted, <<"control">>) /\ due' = Append(due, <<"control">>)
  /\ passed' = passed + 1
  /\ UNCHANGED <<asm, msg>>

\* A read or write error ends the direction; a message in flight is not shown.
Forward == /\ asm' = [asm EXCEPT !.op = Idle] /\ msg' = [op |-> Idle, all |-> <<>>]
           /\ passed' = MaxFrames /\ UNCHANGED <<emitted, due>>

WsNext == DataFrame \/ ControlFrame \/ Forward

----------------------------------------------------------------------------
\* Every message that is not empty is shown once and in order; a text within the limit is shown
\* exactly, and everything else as a size, never as part of its content
\* (assembler.frame).
MessagesShown ==
  /\ Len(emitted) = Len(due)
  /\ \A i \in DOMAIN due :
       due[i] # <<"control">> =>
         LET op == due[i][1] all == due[i][2]
         IN  IF op = "text" /\ Len(all) <= AuditLimit
               THEN emitted[i] = all
               ELSE emitted[i][1] = op
============================================================================
