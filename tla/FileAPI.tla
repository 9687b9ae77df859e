------------------------------- MODULE FileAPI -------------------------------
(***************************************************************************)
(* The management file API (src/internal/api/handlers/files.go) over its   *)
(* two bridges: in a container the handler works on the host's directories *)
(* (containerFiles), in a microVM it streams frames to the guest's file    *)
(* service (microvmGuestFiles, src/cmd/sbxguest). "Worker" is whoever      *)
(* touches the file: the handler itself, or the guest's connection         *)
(* handler, which outlives a handler that gave up.                         *)
(*                                                                         *)
(* A body is Chunks chunks, and a chunk is the call that wrote it. A path  *)
(* is in a workspace or in the overlay, where the image may have a file of *)
(* its own that deletion hides with a whiteout.                            *)
(***************************************************************************)
EXTENDS Naturals, Sequences, FiniteSets

CONSTANTS
    Calls,         \* file API requests
    Files,         \* agent paths
    Chunks,        \* chunks of an uploaded body
    MaxHops,       \* symbolic links resolveHost follows (40)
    Layouts,       \* which paths are in workspaces, in the image, or links
    Nil,           \* no file, no link, no chunk
    MaxFileFaults  \* bound: failed opens and writes, lost connections, aborted bodies

ASSUME FileConstants ==
    /\ Chunks \in Nat \ {0} /\ MaxHops \in Nat \ {0} /\ MaxFileFaults \in Nat
    /\ Nil \notin Calls \cup Files
    /\ \A l \in Layouts : /\ l.workspace \subseteq Files
                         /\ l.image \subseteq Files \ l.workspace
                         /\ l.links \in [Files -> Files \cup {Nil}]

VARIABLES
    vmFiles,   \* the sandbox is a microVM
    workspace,  \* paths under a configured mount
    image,      \* overlay paths the image has a file at
    links,      \* symbolic links among the paths (container only)
    store,      \* each path: Nil, "image", "whiteout", or the inode (its creator)
    data,       \* the chunks of each inode
    op,         \* each call: its handler
    worker,     \* each call: its worker
    up,         \* the body on its way to the worker
    reply,      \* the worker's result, not yet read by the handler
    fsEvents,   \* fs.request and fs.response events
    mixed,      \* two calls changed one file at the same time
    fileFaults

fileVars == <<vmFiles, workspace, image, links, store, data, op, worker, up,
              reply, fsEvents, mixed, fileFaults>>
fixedVars == <<vmFiles, workspace, image, links>>

NoWork == [st |-> "none", path |-> Nil, ino |-> Nil, n |-> 0, bad |-> FALSE, body |-> <<>>, size |-> 0]
NoReply == [st |-> "none", err |-> FALSE, size |-> 0, body |-> <<>>]

FileInit ==
    /\ \E l \in Layouts :
         /\ workspace = l.workspace /\ image = l.image /\ links = l.links
         /\ vmFiles \in {b \in BOOLEAN : b => \A p \in Files : l.links[p] = Nil}
    /\ store = [p \in Files |-> IF p \in image THEN "image" ELSE Nil]
    /\ data = [c \in Calls |-> [i \in 1..Chunks |-> Nil]]
    /\ op = [c \in Calls |-> [typ |-> "none", pc |-> "none", path |-> Nil, err |-> FALSE, size |-> 0, body |-> <<>>, cut |-> FALSE]]
    /\ worker = [c \in Calls |-> NoWork]
    /\ up = [c \in Calls |-> <<>>]
    /\ reply = [c \in Calls |-> NoReply]
    /\ fsEvents = <<>>
    /\ mixed = FALSE
    /\ fileFaults = 0

-----------------------------------------------------------------------------
(* Where a path leads.                                                     *)

\* resolveHost: follow links through the mounts, MaxHops at most; Nil is
\* "too many levels".
Hop[i \in 0..MaxHops, p \in Files] ==
    IF i = MaxHops THEN Nil
    ELSE IF links[p] = Nil THEN p ELSE Hop[i + 1, links[p]]

ResolveHost(p) == Hop[0, p]

\* hostPath and resolveFile: in a microVM a path outside the workspaces is
\* read from the overlay's upper layer only; a container reads the merged view.
Regular(p) ==
    /\ p # Nil
    /\ store[p] \notin {Nil, "whiteout"}
    /\ store[p] = "image" => ~vmFiles

\* os.Remove through the live view.
Removed(p) == [store EXCEPT ![p] = IF p \in image THEN "whiteout" ELSE Nil]

Chunk(p) == IF store[p] = "image" THEN [i \in 1..Chunks |-> "image"] ELSE data[store[p]]

\* Bytes of an inode: what precedes its first hole.
Size(d) == CHOOSE n \in 0..Chunks :
    /\ \A i \in 1..n : d[i] # Nil
    /\ n < Chunks => d[n + 1] = Nil

-----------------------------------------------------------------------------
(* The handlers.                                                           *)

\* emitFSEvent, request half: only for a path under a mount (resolveMount).
EmitFSRequest(c, p) ==
    fsEvents' = IF p \in workspace
                THEN Append(fsEvents, [c |-> c, typ |-> "request", err |-> FALSE])
                ELSE fsEvents

EmitFSResponse(c, err) ==
    fsEvents' = IF op[c].path \in workspace
                THEN Append(fsEvents, [c |-> c, typ |-> "response", err |-> err])
                ELSE fsEvents

\* A call starts. Only reads are aimed at links: the other operations would
\* act on the link itself.
Begin(c, typ, p) ==
    /\ op[c].pc = "none"
    /\ typ # "read" => links[p] = Nil
    /\ op' = [op EXCEPT ![c].typ = typ, ![c].pc = "sent", ![c].path = p]
    /\ EmitFSRequest(c, p)
    /\ UNCHANGED <<store, data, worker, up, reply, mixed, fileFaults>>
    /\ UNCHANGED fixedVars

UploadFile(c, p) == Begin(c, "write", p)
GetFile(c, p) == Begin(c, "read", p)
DeleteFile(c, p) == Begin(c, "delete", p)
ListDirectory(c, p) == Begin(c, "list", p)

\* The handler answers: the response event, then the status.
Answer(c, err, size, body) ==
    /\ op' = [op EXCEPT ![c].pc = "done", ![c].err = err, ![c].size = size, ![c].body = body]
    /\ EmitFSResponse(c, err)

Fault == fileFaults < MaxFileFaults /\ fileFaults' = fileFaults + 1

\* dial never reaches the guest before its deadline.
DialFails(c) ==
    /\ vmFiles
    /\ op[c].pc = "sent" /\ worker[c].st = "none"
    /\ Fault
    /\ worker' = [worker EXCEPT ![c].st = "done"]
    /\ Answer(c, TRUE, 0, <<>>)
    /\ UNCHANGED <<store, data, up, reply, mixed>>
    /\ UNCHANGED fixedVars

\* Save and readResult: the handler passes the body on, a chunk at a time ...
SaveChunk(c) ==
    /\ op[c].pc = "sent" /\ op[c].typ = "write"
    /\ worker[c].st # "done"
    /\ op[c].size < Chunks
    /\ up' = [up EXCEPT ![c] = Append(@, "data")]
    /\ op' = [op EXCEPT ![c].size = @ + 1]
    /\ UNCHANGED <<store, data, worker, reply, fsEvents, mixed, fileFaults>>
    /\ UNCHANGED fixedVars

\* ... then its end, and waits for the result.
SaveEnd(c) ==
    /\ op[c].pc = "sent" /\ op[c].typ = "write"
    /\ op[c].size = Chunks
    /\ op' = [op EXCEPT ![c].pc = "wait"]
    /\ up' = [up EXCEPT ![c] = Append(@, "end")]
    /\ UNCHANGED <<store, data, worker, reply, fsEvents, mixed, fileFaults>>
    /\ UNCHANGED fixedVars

\* The client aborts its upload: a container's copy fails, a microVM's handler
\* closes the connection and answers at once, and the guest finds out when it
\* has read what was sent.
BodyBroken(c) ==
    /\ op[c].pc = "sent" /\ op[c].typ = "write" /\ worker[c].st # "done"
    /\ Fault
    /\ up' = [up EXCEPT ![c] = Append(@, "broken")]
    /\ IF vmFiles
       THEN Answer(c, TRUE, 0, <<>>)
       ELSE op' = [op EXCEPT ![c].pc = "wait"] /\ UNCHANGED fsEvents
    /\ UNCHANGED <<store, data, worker, reply, mixed>>
    /\ UNCHANGED fixedVars

\* The connection to the guest is lost in mid-call, with any part of what was
\* on it.
ConnLost(c) ==
    /\ vmFiles
    /\ op[c].pc \in {"sent", "wait"}
    /\ worker[c].st # "none"
    /\ Fault
    /\ \E k \in 0..Len(up[c]) : up' = [up EXCEPT ![c] = Append(SubSeq(@, 1, k), "broken")]
    /\ reply' = [reply EXCEPT ![c] = NoReply]
    /\ Answer(c, TRUE, 0, <<>>)
    /\ UNCHANGED <<store, data, worker, mixed>>
    /\ UNCHANGED fixedVars

\* The result frame (or the return of the container's own call) is read.
ReadResult(c) ==
    /\ op[c].pc \in {"sent", "wait"}
    /\ reply[c].st = "sent"
    /\ Answer(c, reply[c].err, reply[c].size, reply[c].body)
    /\ reply' = [reply EXCEPT ![c] = NoReply]
    /\ UNCHANGED <<store, data, worker, up, mixed, fileFaults>>
    /\ UNCHANGED fixedVars

-----------------------------------------------------------------------------
(* The workers.                                                            *)

Finish(c, err, size, body) ==
    /\ worker' = [worker EXCEPT ![c].st = "done"]
    /\ reply' = [reply EXCEPT ![c] = [st |-> "sent", err |-> err, size |-> size, body |-> body]]

\* Another call has the file open for writing, or is reading it.
Others(c, p) == {d \in Calls \ {c} : worker[d].st \in {"write", "read"} /\ worker[d].path = p}

\* fileWrite and Save: the target is created or truncated.
OpenTarget(c) ==
    /\ op[c].typ = "write" /\ worker[c].st = "none" /\ op[c].pc # "none"
    /\ LET p == op[c].path
           ino == IF store[p] \in Calls THEN store[p] ELSE c IN
         /\ store' = [store EXCEPT ![p] = ino]
         /\ data' = [data EXCEPT ![ino] = [i \in 1..Chunks |-> Nil]]
         /\ worker' = [worker EXCEPT ![c] = [NoWork EXCEPT !.st = "write", !.path = p, !.ino = ino]]
         /\ mixed' = (mixed \/ Others(c, p) # {})
    /\ UNCHANGED <<op, up, reply, fsEvents, fileFaults>>
    /\ UNCHANGED fixedVars

\* The open fails: the guest still drains the body, a container answers.
OpenFails(c) ==
    /\ op[c].typ = "write" /\ worker[c].st = "none" /\ op[c].pc # "none"
    /\ Fault
    /\ IF vmFiles
       THEN worker' = [worker EXCEPT ![c].st = "write", ![c].bad = TRUE] /\ UNCHANGED reply
       ELSE Finish(c, TRUE, 0, <<>>)
    /\ UNCHANGED <<store, data, op, up, fsEvents, mixed>>
    /\ UNCHANGED fixedVars

\* One chunk arrives: it is written at the worker's own offset, or dropped
\* after an earlier failure.
WriteChunk(c) ==
    /\ worker[c].st = "write"
    /\ up[c] # <<>> /\ Head(up[c]) = "data"
    /\ up' = [up EXCEPT ![c] = Tail(@)]
    /\ \/ /\ ~worker[c].bad
          /\ data' = [data EXCEPT ![worker[c].ino][worker[c].n + 1] = c]
          /\ worker' = [worker EXCEPT ![c].n = @ + 1]
          /\ UNCHANGED fileFaults
       \/ /\ ~worker[c].bad
          /\ Fault
          /\ worker' = [worker EXCEPT ![c].bad = TRUE]
          /\ UNCHANGED data
       \/ /\ worker[c].bad
          /\ UNCHANGED <<data, worker, fileFaults>>
    /\ UNCHANGED <<store, op, reply, fsEvents, mixed>>
    /\ UNCHANGED fixedVars

\* A worker that opened the target removes it when the write did not end well.
Discard(c) ==
    LET p == worker[c].path IN
    /\ store' = IF worker[c].ino # Nil /\ store[p] \notin {Nil, "whiteout"} THEN Removed(p) ELSE store
    /\ mixed' = (mixed \/ (worker[c].ino # Nil /\ Others(c, p) # {}))

\* The end of the body: the size, or the error and no file.
WriteEnds(c) ==
    /\ worker[c].st = "write"
    /\ up[c] # <<>> /\ Head(up[c]) = "end"
    /\ up' = [up EXCEPT ![c] = Tail(@)]
    /\ IF worker[c].bad
       THEN Discard(c) /\ Finish(c, TRUE, 0, <<>>)
       ELSE UNCHANGED <<store, mixed>> /\ Finish(c, FALSE, worker[c].n, <<>>)
    /\ UNCHANGED <<data, op, fsEvents, fileFaults>>
    /\ UNCHANGED fixedVars

\* The stream breaks: the file goes too. A handler still there (a container's)
\* gets the error.
WriteBreaks(c) ==
    /\ worker[c].st = "write"
    /\ up[c] # <<>> /\ Head(up[c]) = "broken"
    /\ Discard(c)
    /\ IF op[c].pc = "done"
       THEN worker' = [worker EXCEPT ![c].st = "done"] /\ UNCHANGED reply
       ELSE Finish(c, TRUE, 0, <<>>)
    /\ up' = [up EXCEPT ![c] = <<>>]
    /\ UNCHANGED <<data, op, fsEvents, fileFaults>>
    /\ UNCHANGED fixedVars

\* fileRead and Open: stat, then open; only a regular file. A container's
\* handler has its file now: the response event, the status and the length go
\* out before the body.
OpenForRead(c) ==
    LET p == ResolveHost(op[c].path) IN
    /\ op[c].typ = "read" /\ worker[c].st = "none" /\ op[c].pc = "sent"
    /\ IF Regular(p)
       THEN /\ worker' = [worker EXCEPT ![c] = [NoWork EXCEPT !.st = "read", !.path = p,
                            !.ino = store[p], !.size = Size(Chunk(p))]]
            /\ mixed' = (mixed \/ Others(c, p) # {})
            /\ UNCHANGED reply
            /\ IF vmFiles
               THEN UNCHANGED <<op, fsEvents>>
               ELSE /\ op' = [op EXCEPT ![c].pc = "stream", ![c].size = Size(Chunk(p))]
                    /\ EmitFSResponse(c, FALSE)
       ELSE Finish(c, TRUE, 0, <<>>) /\ UNCHANGED <<op, fsEvents, mixed>>
    /\ UNCHANGED <<store, data, up, fileFaults>>
    /\ UNCHANGED fixedVars

\* One chunk of the open file, whatever its name leads to by now.
ReadChunk(c) ==
    LET d == IF worker[c].ino = "image" THEN [i \in 1..Chunks |-> "image"] ELSE data[worker[c].ino] IN
    /\ worker[c].st = "read"
    /\ worker[c].n < Size(d)
    /\ worker' = [worker EXCEPT ![c].n = @ + 1, ![c].body = Append(@, d[worker[c].n + 1])]
    /\ UNCHANGED <<store, data, op, up, reply, fsEvents, mixed, fileFaults>>
    /\ UNCHANGED fixedVars

\* A container's body is over: nothing is answered any more.
StreamOver(c, cut) ==
    /\ op' = [op EXCEPT ![c].pc = "done", ![c].body = worker[c].body, ![c].cut = cut]
    /\ worker' = [worker EXCEPT ![c].st = "done"]
    /\ UNCHANGED reply

\* The end of the file: Open returns the body to a microVM's handler, the
\* container's DataFromReader has sent it.
ReadEnds(c) ==
    LET d == IF worker[c].ino = "image" THEN [i \in 1..Chunks |-> "image"] ELSE data[worker[c].ino] IN
    /\ worker[c].st = "read"
    /\ worker[c].n >= Size(d)
    /\ IF vmFiles
       THEN Finish(c, FALSE, worker[c].size, worker[c].body) /\ UNCHANGED op
       ELSE StreamOver(c, FALSE)
    /\ UNCHANGED <<store, data, up, fsEvents, mixed, fileFaults>>
    /\ UNCHANGED fixedVars

\* A read fails in mid-file: the guest hangs up and Open fails; a container's
\* answer is already out, and stays short.
ReadFails(c) ==
    /\ worker[c].st = "read"
    /\ Fault
    /\ IF vmFiles
       THEN Finish(c, TRUE, 0, <<>>) /\ UNCHANGED op
       ELSE StreamOver(c, TRUE)
    /\ UNCHANGED <<store, data, up, fsEvents, mixed>>
    /\ UNCHANGED fixedVars

\* fileDelete and Delete: os.Remove on the live view, links not followed.
RemoveFile(c) ==
    LET p == op[c].path
        there == store[p] \notin {Nil, "whiteout"} IN
    /\ op[c].typ = "delete" /\ worker[c].st = "none" /\ op[c].pc = "sent"
    /\ store' = IF there THEN Removed(p) ELSE store
    /\ mixed' = (mixed \/ (there /\ Others(c, p) # {}))
    /\ Finish(c, ~there, 0, <<>>)
    /\ UNCHANGED <<data, op, up, fsEvents, fileFaults>>
    /\ UNCHANGED fixedVars

\* fileList and List: the entry is listed if it is visible.
ListEntries(c) ==
    /\ op[c].typ = "list" /\ worker[c].st = "none" /\ op[c].pc = "sent"
    /\ Finish(c, FALSE, 0, IF Regular(op[c].path) THEN <<store[op[c].path]>> ELSE <<>>)
    /\ UNCHANGED <<store, data, op, up, fsEvents, mixed, fileFaults>>
    /\ UNCHANGED fixedVars

FileNext ==
    \/ \E c \in Calls, p \in Files : UploadFile(c, p) \/ GetFile(c, p)
    \/ \E c \in Calls, p \in Files : DeleteFile(c, p) \/ ListDirectory(c, p)
    \/ \E c \in Calls : SaveChunk(c) \/ SaveEnd(c) \/ ReadResult(c)
    \/ \E c \in Calls : DialFails(c) \/ BodyBroken(c) \/ ConnLost(c) \/ OpenFails(c)
    \/ \E c \in Calls : OpenTarget(c) \/ WriteChunk(c) \/ WriteEnds(c) \/ WriteBreaks(c)
    \/ \E c \in Calls : OpenForRead(c) \/ ReadChunk(c) \/ ReadEnds(c) \/ ReadFails(c)
    \/ \E c \in Calls : RemoveFile(c) \/ ListEntries(c)

FileSpec == FileInit /\ [][FileNext]_fileVars

-----------------------------------------------------------------------------
Writing(p) == {c \in Calls : worker[c].st = "write" /\ worker[c].path = p}
Whole(d) == d[1] # Nil /\ \A i \in 1..Chunks : d[i] = d[1]

\* Unless two calls worked on one file at the same time, a file no call is
\* writing is a whole upload: an aborted, failed or cut-off one leaves
\* nothing, and an acknowledged one is all there.
UploadsWhole ==
    ~mixed =>
      /\ \A p \in Files : store[p] \in Calls /\ Writing(p) = {} => Whole(data[store[p]])
      /\ \A c \in Calls : op[c].pc = "done" /\ op[c].typ = "write" /\ ~op[c].err
            => op[c].size = Chunks

\* An answered read is one upload (or the image's file), whole, with the size
\* it announced, except where a container's read failed after its answer: that
\* body is a shorter part of the one file. The microVM's file API never shows
\* a file of the image.
ReadsWhole ==
    \A c \in Calls : op[c].pc = "done" /\ ~op[c].err =>
      /\ op[c].typ = "read" /\ ~mixed =>
            /\ op[c].size = Chunks
            /\ op[c].cut => ~vmFiles /\ Len(op[c].body) <= Chunks
            /\ ~op[c].cut => Len(op[c].body) = Chunks
            /\ \A i \in DOMAIN op[c].body : op[c].body[i] = op[c].body[1] /\ op[c].body[i] # Nil
      /\ vmFiles => \A i \in DOMAIN op[c].body : op[c].body[i] # "image"

\* Every answered call on a workspace published its request and then one
\* response that says what the answer said.
EventsPaired ==
    \A c \in Calls : op[c].pc = "done" /\ op[c].path \in workspace =>
      LET e == SelectSeq(fsEvents, LAMBDA x : x.c = c) IN
      Len(e) = 2 /\ e[1].typ = "request" /\ e[2].typ = "response" /\ e[2].err = op[c].err

FilesIntact == UploadsWhole /\ ReadsWhole /\ EventsPaired
=============================================================================
