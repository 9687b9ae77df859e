------------------------------- MODULE FuseFS -------------------------------
(***************************************************************************)
(* One remote-backed FUSE mount of sbxfuse (internal/fusefs): the handlers *)
(* the kernel calls, the local buffer, the write-behind oplog with its     *)
(* coalescing window and its uploader, the stat cache, unmount and drain.  *)
(*                                                                         *)
(* A file's content is the number of the Write that produced it, 0 is the  *)
(* empty file.  The mount is one directory with the entries Files.         *)
(* A handler is one step, with the remote calls it makes, except an Open   *)
(* that fetches: it checks, fetches and puts the file in place in three.   *)
(* The uploader, the timers of the window and the background refresh of a  *)
(* stat run beside the handlers.  A handler that the ACL refuses changes   *)
(* nothing.                                                                *)
(***************************************************************************)
EXTENDS Integers, Sequences, FiniteSets, Functions

CONSTANTS
  Files,        \* the names in the mount's directory
  Absent,       \* no such file
  Dir,          \* a subdirectory
  Link,         \* a symbolic link
  Miss,         \* no entry in the stat cache
  Modes,        \* the values of the mount's async flag to consider
  MaxWrites,    \* bound: writes of the agent
  MaxOps,       \* bound: other mutating calls of the agent
  MaxReads,     \* bound: calls that read the store
  MaxDead       \* bound: replays that fail

ASSUME FuseAssumption ==
  /\ IsFiniteSet(Files) /\ Modes \subseteq BOOLEAN
  /\ {MaxWrites, MaxOps, MaxReads, MaxDead} \subseteq Nat
  /\ Absent \notin {Dir, Link, Miss} /\ Dir \notin {Link, Miss} /\ Link # Miss
  /\ {Absent, Dir, Link, Miss} \cap Nat = {}

VARIABLES
  buf,          \* the local buffer, the mount's backend directory
  remote,       \* the remote store
  open,         \* paths with an open handle
  written,      \* Server.written: written since the last Flush
  pending,      \* Oplog.pending: puts parked on the coalesce window
  firing,       \* timers between the deletion from pending and the queue send
  queue,        \* Oplog.queue
  dirty,        \* Oplog.dirty
  cur,          \* the entry the uploader is replaying: <<>> or a sequence of one
  sent,         \* the content of its Put, until the buffer is evicted
  dead,         \* Oplog.dead
  cache,        \* statCache.entries; Absent is a tombstone
  listing,      \* statCache.listed of the directory, Miss when not listed
  refresh,      \* refreshAttrAsync in flight: what Remote.Stat answered, or Miss
  fetches,      \* materializeLocal under way: the path, O_TRUNC, and what was fetched or Miss
  async,        \* Config.Async of this mount
  direct,       \* puts at the head of the queue that the drain flushes whatever its deadline
  mode,         \* "serving", "draining" (ctx cancelled), "done" (oplogDone)
  seen,         \* history: what the agent's calls should leave at each path
  bare,         \* history: created or truncated, and not written since
  excused,      \* history: paths that met a race the README lists
  writes, ops, reads

fsVars == <<async, buf, remote, open, written, pending, firing, queue, dirty, cur, sent,
            dead, cache, listing, refresh, fetches, direct, mode, seen, bare, excused, writes, ops, reads>>

logVars   == <<pending, firing, queue, dirty>>
upVars    == <<async, direct, cur, sent, dead>>
cacheVars == <<cache, listing, refresh, fetches>>
ghosts    == <<seen, bare, excused>>
bounds    == <<writes, ops, reads>>

IsFile(c) == c \in Nat
Entry(op, p, q) == [op |-> op, p |-> p, q |-> q]
Ops == {"put", "del", "move", "link"}
Entries == [op : Ops, p : Files, q : Files]
Cur == cur[1]

(* What the store holds when the mount comes up. *)
FuseInit ==
  /\ async \in Modes
  /\ remote \in [Files -> {0, Absent}]
  /\ buf = [p \in Files |-> Absent] /\ seen = remote
  /\ open = {} /\ written = {} /\ bare = {} /\ excused = {}
  /\ pending = {} /\ firing = {} /\ queue = <<>> /\ dirty = [p \in Files |-> 0]
  /\ cur = <<>> /\ sent = Absent /\ dead = <<>>
  /\ cache = [p \in Files |-> Miss] /\ listing = Miss
  /\ refresh = [p \in Files |-> Miss] /\ fetches = {} /\ direct = 0
  /\ mode = "serving" /\ writes = 0 /\ ops = 0 /\ reads = 0

IsDirty(p) == dirty[p] > 0

-----------------------------------------------------------------------------
(* The oplog. *)

(* Names an entry counts against in dirty: markDirty and markClean. *)
Names(e) == IF e.op = "move" THEN {e.p, e.q} ELSE {e.p}
MarkDirty(e) == [p \in Files |-> IF p \in Names(e) THEN dirty[p] + 1 ELSE dirty[p]]
MarkClean(e) == [p \in Files |-> IF p \in Names(e) /\ dirty[p] > 0 THEN dirty[p] - 1
                                                                  ELSE dirty[p]]

QueueNames == UNION {Names(queue[i]) : i \in DOMAIN queue}

DebouncePut_Recount(p) ==
  /\ pending' = pending \cup {p}
  /\ dirty' = MarkDirty(Entry("put", p, p))
  /\ UNCHANGED <<queue, firing>>

(* Enqueue of a Put: parked, or joined to the put already parked. *)
DebouncePut(p) ==
  /\ pending' = pending \cup {p}
  /\ dirty' = IF p \in pending THEN dirty ELSE MarkDirty(Entry("put", p, p))
  /\ UNCHANGED <<queue, firing>>

(* Enqueue of anything else: parked puts of its paths go first. *)
Forced(e) == IF e.op \in {"del", "move"} THEN Names(e) \cap pending ELSE {}
Enqueue(e) ==
  LET first == [i \in 1..Cardinality(Forced(e)) |->
                  IF i = 1 /\ e.p \in pending THEN Entry("put", e.p, e.p)
                                              ELSE Entry("put", e.q, e.q)]
  IN /\ queue' = Append(queue \o first, e)
     /\ pending' = pending \ Forced(e)
     /\ dirty' = MarkDirty(e)
     /\ UNCHANGED firing

(* RenameParkedPut: the parked put lands under the new name. *)
RedirectPut(p, q) ==
  /\ pending' = pending \ {p, q}
  /\ dirty' = [dirty EXCEPT ![p] = IF @ > 0 THEN @ - 1 ELSE @,
                            ![q] = IF q \in pending THEN @ ELSE @ + 1]
  /\ queue' = Append(queue, Entry("put", q, q))
  /\ UNCHANGED firing

(* The window of a parked put ends: firePending takes it from the map, *)
FireTake(p) ==
  /\ p \in pending /\ p \notin firing
  /\ pending' = pending \ {p} /\ firing' = firing \cup {p}
  /\ UNCHANGED <<buf, remote, open, written, queue, dirty, upVars, cacheVars, mode, ghosts, bounds>>

(* and, the lock released, sends it to the queue. *)
FireSend(p) ==
  /\ p \in firing
  /\ firing' = firing \ {p} /\ queue' = Append(queue, Entry("put", p, p))
  /\ UNCHANGED <<buf, remote, open, written, pending, dirty, upVars, cacheVars, mode, ghosts, bounds>>

(* Run takes the next entry; the shutdown drain does the same until the queue is empty. *)
UploadTake ==
  /\ mode # "done" /\ cur = <<>> /\ queue # <<>>
  /\ cur' = <<Head(queue)>> /\ queue' = Tail(queue)
  /\ direct' = IF direct > 0 THEN direct - 1 ELSE 0
  /\ UNCHANGED <<buf, remote, open, written, pending, firing, dirty, sent, dead, async, cacheVars,
                 mode, ghosts, bounds>>

Replayed(c) ==
  /\ cur' = <<>> /\ sent' = Absent
  /\ dirty' = IF c THEN MarkClean(Cur) ELSE dirty
  /\ dead' = IF c THEN dead ELSE Append(dead, Cur)

(* flush of a Put: without a buffer file it is skipped, else the file is sent as it is now. *)
UploadSkip ==
  /\ cur # <<>> /\ Cur.op = "put" /\ sent = Absent
  /\ buf[Cur.p] \in {Absent, Link}
  /\ Replayed(TRUE)
  /\ UNCHANGED <<buf, remote, open, written, pending, firing, queue, async, direct, cacheVars, mode, ghosts, bounds>>

UploadPut ==
  /\ cur # <<>> /\ Cur.op = "put" /\ sent = Absent /\ IsFile(buf[Cur.p])
  /\ remote' = [remote EXCEPT ![Cur.p] = buf[Cur.p]]
  /\ sent' = buf[Cur.p]
  /\ UNCHANGED <<buf, open, written, logVars, async, direct, cur, dead, cacheVars, mode, ghosts, bounds>>

(* After the Put the buffer file is removed, unless the mount is async. *)
UploadEvict ==
  /\ sent # Absent
  /\ buf' = IF async THEN buf ELSE [buf EXCEPT ![Cur.p] = Absent]
  /\ excused' = IF ~async /\ (buf[Cur.p] # sent \/ Cur.p \in QueueNames) THEN excused \cup {Cur.p} ELSE excused
  /\ Replayed(TRUE)
  /\ UNCHANGED <<remote, open, written, pending, firing, queue, async, direct, cacheVars, mode, seen, bare, bounds>>

(* flush of a Delete, a Move or a Symlink. *)
UploadOther ==
  /\ cur # <<>>
  /\ \/ /\ Cur.op = "del"
        /\ remote' = [remote EXCEPT ![Cur.p] = Absent]
     \/ /\ Cur.op = "move" /\ remote[Cur.p] # Absent
        /\ remote' = [remote EXCEPT ![Cur.q] = remote[Cur.p], ![Cur.p] = Absent]
     \/ /\ Cur.op = "link"
        /\ remote' = [remote EXCEPT ![Cur.p] = Link]
  /\ Replayed(TRUE)
  /\ UNCHANGED <<buf, open, written, pending, firing, queue, async, direct, cacheVars, mode, ghosts, bounds>>

(* A replay that fails goes to the dead letters, and its paths stay dirty: *)
(* a store error, a move of what the store does not have, a put of a directory. *)
Impossible(e) ==
  \/ e.op = "move" /\ remote[e.p] = Absent
  \/ e.op = "put" /\ sent = Absent /\ buf[e.p] = Dir
UploadFail ==
  /\ cur # <<>> /\ sent = Absent
  /\ \/ Impossible(Cur)
     \/ Len(dead) < MaxDead /\ (Cur.op = "put" => IsFile(buf[Cur.p]))
  /\ excused' = excused \cup Names(Cur)
  /\ Replayed(FALSE)
  /\ UNCHANGED <<buf, remote, open, written, pending, firing, queue, async, direct, cacheVars, mode, seen, bare, bounds>>

Cancel_ForgetParked ==
  /\ mode = "serving" /\ mode' = "draining"
  /\ open' = {}
  /\ excused' = excused \cup open \cup (pending \cap QueueNames)
  /\ UNCHANGED <<buf, remote, written, logVars, upVars, cacheVars, seen, bare, bounds>>

(* The mount's context is cancelled: the parked puts go ahead of the queue, in *)
(* the order in which takePending meets them in its map, which may be any. *)
Cancel ==
  /\ mode = "serving" /\ mode' = "draining"
  /\ LET parked == {Entry("put", p, p) : p \in pending}
     IN /\ \E first \in Bijection(1..Cardinality(parked), parked) : queue' = first \o queue
        /\ direct' = Cardinality(parked)
  /\ pending' = {}
  /\ open' = {}
  /\ excused' = excused \cup open \cup (pending \cap QueueNames)
  /\ UNCHANGED <<buf, remote, written, firing, dirty, async, cur, sent, dead, cacheVars, seen, bare, bounds>>

(* drainOnShutdown returns when the queue is empty, Serve after it.  A put that *)
(* its timer has not yet sent is not waited for. *)
DrainDone ==
  /\ mode = "draining" /\ cur = <<>> /\ queue = <<>>
  /\ mode' = "done"
  /\ excused' = excused \cup firing
  /\ UNCHANGED <<buf, remote, open, written, logVars, upVars, cacheVars, seen, bare, bounds>>

(* Or, the puts that were parked flushed, when shutdownDrainTimeout is over: *)
(* what is left in the queue is logged and given up. *)
DrainTimeout ==
  /\ mode = "draining" /\ cur = <<>> /\ queue # <<>> /\ direct = 0
  /\ mode' = "done"
  /\ excused' = excused \cup firing \cup QueueNames
  /\ UNCHANGED <<buf, remote, open, written, logVars, upVars, cacheVars, seen, bare, bounds>>

-----------------------------------------------------------------------------
(* The stat cache. *)

(* cachePut, cachePutNegative, cachePutSymlink: not while the path is dirty. *)
CachePut(c, p, info) == IF IsDirty(p) THEN c ELSE [c EXCEPT ![p] = info]

(* statCache.invalidate, of a set of paths, drops the directory's listing too. *)
Invalidate(S) ==
  /\ cache' = [p \in Files |-> IF p \in S THEN Miss ELSE cache[p]]
  /\ listing' = Miss

(* warmDirCache: one ListDir fills the cache and marks the directory listed. *)
WarmDir ==
  /\ cache' = [p \in Files |-> IF remote[p] # Absent /\ ~IsDirty(p) THEN remote[p] ELSE cache[p]]
  /\ listing' = remote

(* One Stat of the remote and its result in the cache. *)
StatNow(p) == cache' = CachePut(cache, p, remote[p]) /\ UNCHANGED listing

Cold(p) == ~IsDirty(p) /\ cache[p] = Miss /\ listing = Miss
Reading == mode = "serving" /\ reads < MaxReads /\ reads' = reads + 1
readRest == <<buf, remote, open, written, logVars, upVars, mode, ghosts, writes, ops>>

(* Lookup: only a cold name consults the store, by listing its directory, *)
(* or by a Stat when the listing fails. *)
Lookup(p) ==
  /\ Reading /\ Cold(p)
  /\ WarmDir \/ StatNow(p)
  /\ UNCHANGED <<refresh, fetches, readRest>>

(* Attr: a sync mount asks the store now, an async one answers from the buffer *)
(* and starts a refresh, at most one per path. *)
Attr(p) ==
  /\ Reading /\ Cold(p)
  /\ IF async THEN /\ refresh[p] = Miss
                   /\ refresh' = [refresh EXCEPT ![p] = remote[p]]
                   /\ UNCHANGED <<cache, listing>>
              ELSE StatNow(p) /\ UNCHANGED refresh
  /\ UNCHANGED <<fetches, readRest>>

RefreshDone(p) ==
  /\ refresh[p] # Miss
  /\ cache' = CachePut(cache, p, refresh[p])
  /\ refresh' = [refresh EXCEPT ![p] = Miss]
  /\ UNCHANGED <<listing, fetches, readRest, reads>>

(* ReadDirAll: from the stored listing, or a ListDir that is then stored. *)
ReadDirAll ==
  /\ Reading
  /\ LET infos == IF listing = Miss THEN remote ELSE listing
     IN /\ cache' = [p \in Files |-> IF infos[p] # Absent /\ ~IsDirty(p) THEN infos[p] ELSE cache[p]]
        /\ listing' = infos
  /\ UNCHANGED <<refresh, fetches, readRest>>

(* What Lookup of a path finds: the sources in the order the handler asks them. *)
LookupFinds(p) ==
  \/ buf[p] # Absent
  \/ /\ ~IsDirty(p)
     /\ \/ cache[p] \notin {Miss, Absent}
        \/ cache[p] = Miss /\ listing = Miss /\ remote[p] # Absent

-----------------------------------------------------------------------------
(* Handlers that change files. *)

Acting == mode = "serving" /\ ops < MaxOps /\ ops' = ops + 1
handlerRest == <<upVars, refresh, fetches, mode, writes, reads, firing>>

(* Open: a dirty path, or one an async mount has in its buffer, is served from *)
(* there.  Any other is fetched, even over a buffer that is being written; with *)
(* O_TRUNC, which the kernel sends after a Truncate, an empty file takes its    *)
(* place instead.                                                               *)
Open(p, trunc) ==
  /\ mode = "serving" /\ LookupFinds(p) /\ IsFile(seen[p])
  /\ trunc => seen[p] = 0
  /\ IF IsDirty(p) \/ (async /\ buf[p] # Absent)
     THEN buf[p] # Absent /\ open' = open \cup {p} /\ UNCHANGED <<fetches, reads>>
     ELSE /\ Reading
          /\ fetches' = fetches \cup {[p |-> p, trunc |-> trunc, got |-> Miss]}
          /\ UNCHANGED open
  /\ UNCHANGED <<buf, remote, written, logVars, upVars, cache, listing, refresh, mode, ghosts, writes, ops>>

(* materializeLocal: the Stat, unless the cache has it, and the Get into a     *)
(* temporary file.  What the store does not have is served from the buffer, if *)
(* that has it.                                                                *)
Fetch(f) ==
  /\ f.got = Miss
  /\ IF IsFile(remote[f.p])
     THEN /\ fetches' = (fetches \ {f}) \cup {[f EXCEPT !.got = IF f.trunc THEN 0 ELSE remote[f.p]]}
          /\ UNCHANGED open
     ELSE /\ fetches' = fetches \ {f}
          /\ open' = IF mode = "serving" /\ remote[f.p] = Absent /\ buf[f.p] # Absent
                     THEN open \cup {f.p} ELSE open
  /\ IF cache[f.p] \in {Miss, Absent, Link} /\ remote[f.p] # Absent THEN StatNow(f.p)
                                                     ELSE UNCHANGED <<cache, listing>>
  /\ UNCHANGED <<buf, remote, written, logVars, upVars, refresh, mode, ghosts, bounds>>

(* The fetched file is renamed over the buffer's, whatever other handles have *)
(* written, closed or uploaded there since; then the handle is open.          *)
FetchLand(f) ==
  /\ f.got # Miss
  /\ fetches' = fetches \ {f}
  /\ buf' = [buf EXCEPT ![f.p] = f.got]
  /\ open' = IF mode = "serving" THEN open \cup {f.p} ELSE open
  /\ excused' = IF f.got # seen[f.p] /\ f.p \notin bare THEN excused \cup {f.p} ELSE excused
  /\ UNCHANGED <<remote, written, logVars, upVars, cache, listing, refresh, mode, seen, bare, bounds>>

(* Create: an empty file, recorded in the cache, not yet owed an upload. *)
Create(p) ==
  /\ Acting /\ p \notin open /\ ~LookupFinds(p)
  /\ buf' = [buf EXCEPT ![p] = 0] /\ open' = open \cup {p}
  /\ seen' = [seen EXCEPT ![p] = 0] /\ bare' = bare \cup {p}
  /\ cache' = [cache EXCEPT ![p] = 0] /\ UNCHANGED listing
  /\ UNCHANGED <<remote, written, pending, queue, dirty, excused, handlerRest>>

(* Write: into the buffer file, which must be there; the upload is owed. *)
Write(p) ==
  /\ mode = "serving" /\ writes < MaxWrites /\ p \in open
  /\ IsFile(buf[p])
  /\ writes' = writes + 1
  /\ buf' = [buf EXCEPT ![p] = writes + 1]
  /\ seen' = [seen EXCEPT ![p] = writes + 1] /\ bare' = bare \ {p}
  /\ Invalidate({p})
  /\ written' = written \cup {p}
  /\ UNCHANGED <<remote, open, logVars, upVars, refresh, fetches, mode, excused, ops, reads>>

(* Flush, on every close of a handle: enqueues the upload once. *)
Flush(p, last) ==
  /\ mode = "serving" /\ p \in open
  /\ last \/ p \in written
  /\ open' = IF last THEN open \ {p} ELSE open
  /\ written' = written \ {p}
  /\ IF p \in written THEN DebouncePut(p) ELSE UNCHANGED logVars
  /\ UNCHANGED <<buf, remote, upVars, cacheVars, mode, ghosts, bounds>>

(* Setattr(size): truncates the buffer file, made here if it is not there. *)
Truncate(p) ==
  /\ Acting /\ LookupFinds(p) /\ IsFile(seen[p])
  /\ buf' = [buf EXCEPT ![p] = 0]
  /\ seen' = [seen EXCEPT ![p] = 0] /\ bare' = bare \cup {p}
  /\ Invalidate({p})
  /\ UNCHANGED <<remote, open, written, pending, queue, dirty, excused, handlerRest>>

Remove_TrustSkip(p) ==
  /\ Acting /\ p \notin open /\ LookupFinds(p)
  /\ buf' = [buf EXCEPT ![p] = Absent]
  /\ seen' = [seen EXCEPT ![p] = Absent] /\ bare' = bare \ {p}
  /\ Invalidate({p})
  /\ remote' = IF IsDirty(p) THEN remote ELSE [remote EXCEPT ![p] = Absent]
  /\ UNCHANGED <<open, written, logVars, excused, upVars, refresh, fetches, mode, writes, reads>>

(* Remove: the buffer file; then a Delete behind the pending Put, or at the store. *)
Remove(p) ==
  /\ Acting /\ p \notin open /\ LookupFinds(p)
  /\ buf' = [buf EXCEPT ![p] = Absent]
  /\ seen' = [seen EXCEPT ![p] = Absent] /\ bare' = bare \ {p}
  /\ Invalidate({p})
  /\ IF IsDirty(p) THEN Enqueue(Entry("del", p, p)) /\ UNCHANGED remote
                   ELSE remote' = [remote EXCEPT ![p] = Absent] /\ UNCHANGED logVars
  /\ UNCHANGED <<open, written, excused, upVars, refresh, fetches, mode, writes, reads>>

(* Mkdir: the buffer only, recorded in the cache. *)
Mkdir(p) ==
  /\ Acting /\ ~LookupFinds(p)
  /\ buf' = [buf EXCEPT ![p] = Dir]
  /\ seen' = [seen EXCEPT ![p] = Dir] /\ bare' = bare \cup {p}
  /\ cache' = [cache EXCEPT ![p] = Dir] /\ UNCHANGED listing
  /\ UNCHANGED <<remote, open, written, pending, queue, dirty, excused, handlerRest>>

(* Symlink: in the buffer and, through the oplog, at the store. *)
Symlink(p) ==
  /\ Acting /\ ~LookupFinds(p)
  /\ buf' = [buf EXCEPT ![p] = Link]
  /\ seen' = [seen EXCEPT ![p] = Link] /\ bare' = bare \ {p}
  /\ cache' = [cache EXCEPT ![p] = Link] /\ UNCHANGED listing
  /\ Enqueue(Entry("link", p, p))
  /\ UNCHANGED <<remote, open, written, excused, upVars, refresh, fetches, mode, writes, reads>>

(* Readlink: a link only the store has is made in the buffer. *)
Readlink(p) ==
  /\ mode = "serving" /\ seen[p] = Link /\ LookupFinds(p) /\ buf[p] = Absent
  /\ remote[p] = Link
  /\ buf' = [buf EXCEPT ![p] = Link]
  /\ UNCHANGED <<remote, open, written, logVars, upVars, cacheVars, mode, ghosts, bounds>>

(* Rename: the buffer file; then, for a dirty source, the parked put is         *)
(* redirected or a Move enqueued; a clean source the store moves now.  Handles   *)
(* follow the file (liveNodes), the mark in written stays with the old name.     *)
Renames(p, q) ==
  /\ Acting /\ p # q /\ q \notin open /\ LookupFinds(p)
  /\ IsFile(seen[p]) /\ (seen[q] = Absent \/ IsFile(seen[q]))
  /\ Invalidate({p, q})
  /\ open' = IF p \in open THEN (open \ {p}) \cup {q} ELSE open

(* The temp-file-then-rename write: the only rename that keeps all its promises. *)
SafeSave(p, q) ==
  /\ buf[p] # Absent /\ p \in pending /\ p \notin firing \cup written \cup QueueNames
  /\ remote[p] = Absent /\ (cur # <<>> => Cur.p # p) /\ p \notin excused

Rename(p, q) ==
  /\ Renames(p, q)
  /\ IsDirty(p) \/ remote[p] # Absent
  /\ buf' = IF buf[p] # Absent THEN [buf EXCEPT ![q] = buf[p], ![p] = Absent] ELSE buf
  /\ seen' = [seen EXCEPT ![q] = seen[p], ![p] = Absent]
  /\ bare' = (bare \ {p, q}) \cup (IF p \in bare THEN {q} ELSE {})
  /\ IF IsDirty(p)
     THEN /\ IF buf[p] # Absent /\ p \in pending THEN RedirectPut(p, q)
                                                 ELSE Enqueue(Entry("move", p, q))
          /\ excused' = IF SafeSave(p, q) THEN excused ELSE excused \cup {p, q}
          /\ UNCHANGED remote
     ELSE /\ remote' = [remote EXCEPT ![q] = remote[p], ![p] = Absent]
          /\ excused' = IF buf[p] = Absent /\ buf[q] = Absent /\ ~IsDirty(q) /\ p \notin excused \cup written
                        THEN excused ELSE excused \cup {p, q}
          /\ UNCHANGED logVars
  /\ UNCHANGED <<written, upVars, refresh, fetches, mode, writes, reads>>

(* The store has no such file, or fails: the local rename is undone, which leaves *)
(* nothing of what the buffer had under the new name. *)
RenameFails(p, q) ==
  /\ Renames(p, q) /\ ~IsDirty(p) /\ remote[p] = Absent
  /\ buf' = [buf EXCEPT ![q] = Absent]
  /\ excused' = excused \cup {p, q}
  /\ UNCHANGED <<remote, written, logVars, upVars, refresh, fetches, mode, seen, bare, writes, reads>>

-----------------------------------------------------------------------------
Handler(p) ==
  \/ Lookup(p) \/ Attr(p) \/ Create(p) \/ Write(p) \/ Truncate(p)
  \/ Remove(p) \/ Mkdir(p) \/ Symlink(p) \/ Readlink(p)
  \/ \E t \in BOOLEAN : Open(p, t) \/ Flush(p, t)
  \/ \E q \in Files : Rename(p, q) \/ RenameFails(p, q)

Uploader == UploadTake \/ UploadSkip \/ UploadPut \/ UploadEvict \/ UploadOther \/ UploadFail

FuseNext ==
  \/ \E p \in Files : Handler(p) \/ FireTake(p) \/ FireSend(p) \/ RefreshDone(p)
  \/ \E f \in fetches : Fetch(f) \/ FetchLand(f)
  \/ ReadDirAll \/ Uploader \/ Cancel \/ DrainDone \/ DrainTimeout

FuseSpec == FuseInit /\ [][FuseNext]_fsVars

-----------------------------------------------------------------------------
FuseTypeOK ==
  /\ async \in BOOLEAN /\ mode \in {"serving", "draining", "done"}
  /\ buf \in [Files -> Nat \cup {Absent, Dir, Link}]
  /\ remote \in [Files -> Nat \cup {Absent, Link}]
  /\ seen \in [Files -> Nat \cup {Absent, Dir, Link}]
  /\ open \subseteq Files /\ written \subseteq Files /\ pending \subseteq Files
  /\ firing \subseteq Files /\ bare \subseteq Files /\ excused \subseteq Files
  /\ queue \in Seq(Entries) /\ cur \in Seq(Entries) /\ dead \in Seq(Entries)
  /\ dirty \in [Files -> Nat] /\ writes \in Nat /\ ops \in Nat /\ reads \in Nat

Count(s, p) == Cardinality({i \in DOMAIN s : p \in Names(s[i])})
One(b) == IF b THEN 1 ELSE 0

(* The dirty count of a path is the number of its operations that are parked, *)
(* on their way to the queue, queued, in flight or dead: a read is served from *)
(* the buffer exactly as long as the store may not have the agent's version. *)
DirtyBalanced ==
  \A p \in Files : dirty[p] = One(p \in pending) + One(p \in firing) + Count(queue, p)
                              + Count(cur, p) + Count(dead, p)

(* A path with no operation outstanding and no unflushed write is at the store *)
(* as the agent left it: no put overtakes a delete, none is dropped, none is *)
(* applied twice.  Exempt are files never written since their creation or *)
(* truncation, and paths that met one of the races recorded in excused. *)
UploadsLand ==
  \A p \in Files : (dirty[p] = 0 /\ p \notin written \cup bare \cup excused) => remote[p] = seen[p]

(* When the drain of an unmount is over, and the ack goes out, nothing that was *)
(* closed before the unmount is still owed to the store: neither what was parked *)
(* on the window, however slow the store, nor what a timer was sending while the *)
(* drain ran.  Exempt are what the deadline left in the queue, and a put its     *)
(* timer had not sent when the drain ended. *)
DrainedMeansStored ==
  mode = "done" => \A p \in Files \ (bare \cup excused) : remote[p] = seen[p]

=============================================================================
