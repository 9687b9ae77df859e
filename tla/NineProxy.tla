------------------------------ MODULE NineProxy ------------------------------
(***************************************************************************)
(* The in-guest 9p reconnect proxy (src/internal/nineproxy): kernel v9fs   *)
(* speaks to one end of a socketpair, sbxguest pumps the other end to the  *)
(* host 9p server, tracking the session so that it can be replayed onto a  *)
(* fresh server after a snapshot resume.                                   *)
(*                                                                         *)
(* Two pumps run: kernelToHost (observe under the lock, then write) and    *)
(* hostToKernel (read, observe under the lock, then write to the kernel).  *)
(* A 9p name is a model value, a path is the attach root or one name       *)
(* below it (what a fid was walked by: Session does not follow renames),   *)
(* and the bytes of an opaque request (Tgetattr, Tread) are not kept.      *)
(***************************************************************************)
EXTENDS Naturals, Sequences, FiniteSets

CONSTANTS
    Fids,        \* fid numbers the kernel uses besides the attach root
    Tags,        \* tag numbers of the kernel's 9p client
    Names,       \* names below the attach root
    Root,        \* the attach root's fid, also the path of the root itself
    Xattr,       \* what a fid of Txattrwalk stands for: no path at all
    Free,        \* a fid, a tag or a pump slot that holds nothing
    MaxReqs,     \* bound: requests the kernel issues
    MaxDeaths,   \* bound: host connections cut by a snapshot resume
    MaxReconns   \* bound: reconnects, failed ones included

ASSUME NineConstants ==
    /\ Fids # {} /\ Tags # {} /\ Names # {} /\ IsFiniteSet(Tags)
    /\ Root \notin Fids \cup Names
    /\ Xattr \notin Names \cup {Root}
    /\ Free \notin Fids \cup Names \cup Tags \cup {Root}
    /\ MaxReqs \in Nat /\ MaxDeaths \in Nat /\ MaxReconns \in Nat

VARIABLES
    kfid,        \* kernel: what each fid stands for, or Free
    ktag,        \* kernel: the request each tag waits for, or Free
    k2p,         \* socketpair: requests written by the kernel, not yet read
    fids,        \* Session.fids: path and open state by fid
    pending,     \* Session.pending and Session.outstanding, by tag
    haveAttach,  \* Session.haveAttach
    host,        \* Proxy.host is a connection (not nil)
    hostGen,     \* Proxy.hostGen
    kpump,       \* kernelToHost: Free, or the message it must write and obsGen
    hpump,       \* hostToKernel: Free, or the reply it holds and how far it is
    conn,        \* the connection of generation hostGen and its server
    nextId,      \* requests issued so far: their identity and Session.outSeq
    deaths,
    reconns,
    closed,      \* Proxy.closed
    twice        \* history: a reconnect came between the read of a reply and its
                 \* observation, so that the answered request was sent again

nineVars == <<kfid, ktag, k2p, fids, pending, haveAttach, host, hostGen,
              kpump, hpump, conn, nextId, deaths, reconns, closed, twice>>

Paths == Names \cup {Root, Xattr}
AllFids == Fids \cup {Root}

\* An entry of a table of fids; a request and its message; a reply.
FidEntry == [path : Paths, open : BOOLEAN]
Table == [AllFids -> FidEntry \cup {Free}]
ReqTypes == {"attach", "walk", "lopen", "lcreate", "clunk", "remove", "xattrwalk", "opaque", "flush"}
OnFid == {"lopen", "lcreate", "clunk", "remove", "opaque"}
NineReq == {r \in [id : Nat, typ : ReqTypes, fid : AllFids \cup {Free}, new : Fids \cup {Free},
                   name : Names \cup {Free}, old : Tags \cup {Free}] :
              /\ r.typ \in {"walk", "xattrwalk"} => r.fid \in AllFids
              /\ r.typ \in OnFid => r.fid \in Fids
              /\ r.typ = "lcreate" => r.name \in Names}
NineMsg == [tag : Tags, req : NineReq]
NineReply == [tag : Tags, id : Nat, ok : BOOLEAN]
KernelPump == [msg : NineMsg, obsGen : Nat, writing : BOOLEAN]
HostPump == [msg : NineReply, observed : BOOLEAN]

ASSUME FreeAssumption ==
    Free \notin FidEntry /\ Free \notin NineReq /\ Free \notin KernelPump /\ Free \notin HostPump

\* A connection with a fresh server behind it: nothing sent, no fid known.
FreshConn == [alive |-> TRUE, c2s |-> <<>>, s2c |-> <<>>,
              sfids |-> [f \in AllFids |-> Free]]

NineInit ==
    /\ kfid = [f \in AllFids |-> Free]
    /\ ktag = [t \in Tags |-> Free]
    /\ k2p = <<>>
    /\ fids = [f \in AllFids |-> Free]
    /\ pending = [t \in Tags |-> Free]
    /\ haveAttach = FALSE
    /\ host = TRUE
    /\ hostGen = 0
    /\ kpump = Free
    /\ hpump = Free
    /\ conn = FreshConn
    /\ nextId = 0
    /\ deaths = 0
    /\ reconns = 0
    /\ closed = FALSE
    /\ twice = FALSE

-----------------------------------------------------------------------------
(* What a request does to a table of fids, and what the kernel may ask.    *)

\* The table after request r is answered (ok or with Rlerror): Twalk, Tlopen
\* and Tlcreate change it on success only, from a fid it knows, Txattrwalk
\* mints a fid that stands for no path, Tclunk and Tremove release their fid
\* either way, anything else leaves it alone. A Twalk without names
\* (name = Free) clones its fid.
Applied(tab, r, ok) ==
    CASE r.typ = "attach" /\ ok -> [tab EXCEPT ![Root] = [path |-> Root, open |-> FALSE]]
      [] r.typ = "walk" /\ ok /\ tab[r.fid] # Free ->
            [tab EXCEPT ![r.new] =
                [path |-> IF r.name = Free THEN tab[r.fid].path ELSE r.name,
                 open |-> FALSE]]
      [] r.typ = "lopen" /\ ok /\ tab[r.fid] # Free -> [tab EXCEPT ![r.fid].open = TRUE]
      [] r.typ = "lcreate" /\ ok /\ tab[r.fid] # Free ->
            [tab EXCEPT ![r.fid] = [path |-> r.name, open |-> TRUE]]
      [] r.typ = "xattrwalk" /\ ok -> [tab EXCEPT ![r.new] = [path |-> Xattr, open |-> FALSE]]
      [] r.typ \in {"clunk", "remove"} -> [tab EXCEPT ![r.fid] = Free]
      [] OTHER -> tab

\* Fids a request in flight uses or mints: the kernel starts no second
\* request that would change one of them.
Busy == UNION {{ktag[t].fid, ktag[t].new} : t \in {u \in Tags : ktag[u] # Free}}

Idle(f) == kfid[f] # Free /\ f \notin Busy

\* A fid that stands for a file or a directory.
OfPath(f) == kfid[f] # Free /\ kfid[f].path # Xattr

\* A tag is reusable once its request, and a flush naming it, are settled.
TagFree(t) ==
    /\ ktag[t] = Free
    /\ \A u \in Tags : ktag[u] # Free => ktag[u].old # t

Request(typ, fid, new, name, old) ==
    [id |-> nextId + 1, typ |-> typ, fid |-> fid, new |-> new,
     name |-> name, old |-> old]

\* The requests kernel v9fs may issue now, from the fids it holds.
KernelRequests ==
    {Request("attach", Root, Free, Free, Free) : f \in {g \in {Root} : kfid[g] = Free /\ g \notin Busy}}
    \cup {Request("walk", p[1], p[2], p[3], Free) :
            p \in {q \in AllFids \X Fids \X (Names \cup {Free}) :
                     /\ q[1] = Root \/ q[1] \notin Busy
                     /\ OfPath(q[1])
                     /\ q[3] # Free => kfid[q[1]].path = Root
                     /\ kfid[q[2]] = Free /\ q[2] \notin Busy}}
    \cup {Request("xattrwalk", p[1], p[2], Free, Free) :
            p \in {q \in AllFids \X Fids :
                     /\ q[1] = Root \/ q[1] \notin Busy
                     /\ OfPath(q[1])
                     /\ kfid[q[2]] = Free /\ q[2] \notin Busy}}
    \cup {Request("lopen", f, Free, Free, Free) :
            f \in {g \in Fids : Idle(g) /\ OfPath(g) /\ ~kfid[g].open}}
    \cup {Request("lcreate", p[1], Free, p[2], Free) :
            p \in {q \in Fids \X Names :
                     Idle(q[1]) /\ kfid[q[1]].path = Root /\ ~kfid[q[1]].open}}
    \cup {Request(typ, f, Free, Free, Free) :
            typ \in {"clunk", "remove", "opaque"}, f \in {g \in Fids : Idle(g)}}
    \cup {Request("flush", Free, Free, Free, t) :
            t \in {u \in Tags : /\ ktag[u] # Free /\ ktag[u].typ # "flush"
                                /\ \A v \in Tags : ktag[v] # Free => ktag[v].old # u}}

\* The kernel (external) issues a request on a free tag.
KernelSend(t) ==
    /\ ~closed
    /\ nextId < MaxReqs
    /\ TagFree(t)
    /\ \E r \in KernelRequests :
         /\ r.old # t
         /\ ktag' = [ktag EXCEPT ![t] = r]
         /\ k2p' = Append(k2p, [tag |-> t, req |-> r])
    /\ nextId' = nextId + 1
    /\ UNCHANGED <<kfid, fids, pending, haveAttach, host, hostGen, kpump,
                   hpump, conn, deaths, reconns, closed, twice>>

-----------------------------------------------------------------------------
(* Session: what the proxy learns from the two directions of the stream.   *)

\* ObserveClient: every request is outstanding until its reply; the fid
\* mutation it asks for is remembered with it.
ObserveClient(t, r) == pending' = [pending EXCEPT ![t] = r]

\* ObserveServer: the reply settles its tag and commits or discards the
\* mutation (none is kept of a Txattrwalk); an Rflush also settles the tag it
\* cancelled.
ObserveServer(t, ok) ==
    LET p == pending[t] IN
    IF p = Free
    THEN UNCHANGED <<fids, pending, haveAttach>>
    ELSE /\ fids' = IF p.typ = "xattrwalk" THEN fids ELSE Applied(fids, p, ok)
         /\ haveAttach' = (haveAttach \/ (p.typ = "attach" /\ ok))
         /\ pending' = [u \in Tags |->
                IF u = t \/ (p.typ = "flush" /\ u = p.old) THEN Free ELSE pending[u]]

-----------------------------------------------------------------------------
(* kernelToHost.                                                           *)

\* One message is read from the socketpair and observed under the lock
\* together with the generation it is observed in.
KernelToHost ==
    /\ ~closed
    /\ kpump = Free
    /\ k2p # <<>>
    /\ ObserveClient(Head(k2p).tag, Head(k2p).req)
    /\ kpump' = [msg |-> Head(k2p), obsGen |-> hostGen, writing |-> FALSE]
    /\ k2p' = Tail(k2p)
    /\ UNCHANGED <<kfid, ktag, fids, haveAttach, host, hostGen, hpump, conn,
                   nextId, deaths, reconns, closed, twice>>

\* Mutant: the message is written to whatever connection is current.
WriteHost_AnyGeneration ==
    /\ ~closed
    /\ kpump # Free /\ ~kpump.writing
    /\ host
    /\ kpump' = [kpump EXCEPT !.writing = TRUE, !.obsGen = hostGen]
    /\ UNCHANGED <<kfid, ktag, k2p, fids, pending, haveAttach, host, hostGen,
                   hpump, conn, nextId, deaths, reconns, closed, twice>>

\* writeHost takes the current connection and its generation under the lock:
\* a generation other than the observed one means Reconnect re-delivered the
\* message, and a nil connection parks it until the generation moves on.
WriteHost ==
    /\ ~closed
    /\ kpump # Free /\ ~kpump.writing
    /\ \/ /\ hostGen # kpump.obsGen
          /\ kpump' = Free
       \/ /\ hostGen = kpump.obsGen
          /\ host
          /\ kpump' = [kpump EXCEPT !.writing = TRUE]
    /\ UNCHANGED <<kfid, ktag, k2p, fids, pending, haveAttach, host, hostGen,
                   hpump, conn, nextId, deaths, reconns, closed, twice>>

\* markHostDead, for a connection of the current generation.
MarkHostDead == host' = FALSE /\ conn' = [conn EXCEPT !.alive = FALSE, !.c2s = <<>>, !.s2c = <<>>]

\* The write itself, outside the lock. Into a live connection it reaches the
\* server; into a dead one it may still succeed and evaporate, or fail; into
\* one Reconnect has closed meanwhile it fails, and the loop sees the new
\* generation.
HostWrite ==
    /\ kpump # Free /\ kpump.writing
    /\ \/ /\ hostGen = kpump.obsGen /\ host /\ conn.alive
          /\ conn' = [conn EXCEPT !.c2s = Append(@, kpump.msg)]
          /\ kpump' = Free
          /\ UNCHANGED host
       \/ /\ hostGen = kpump.obsGen /\ host /\ ~conn.alive
          /\ kpump' = Free
          /\ UNCHANGED <<host, conn>>
       \/ /\ hostGen = kpump.obsGen /\ ~(host /\ conn.alive)
          /\ kpump' = [kpump EXCEPT !.writing = FALSE]
          /\ MarkHostDead
       \/ /\ hostGen # kpump.obsGen
          /\ kpump' = [kpump EXCEPT !.writing = FALSE]
          /\ UNCHANGED <<host, conn>>
    /\ UNCHANGED <<kfid, ktag, k2p, fids, pending, haveAttach, hostGen, hpump,
                   nextId, deaths, reconns, closed, twice>>

-----------------------------------------------------------------------------
(* hostToKernel.                                                           *)

\* A reply is read from the current connection; what the guest's socket had
\* received of a dead connection can still be read.
HostRead ==
    /\ ~closed
    /\ hpump = Free
    /\ host /\ conn.s2c # <<>>
    /\ hpump' = [msg |-> Head(conn.s2c), observed |-> FALSE]
    /\ conn' = [conn EXCEPT !.s2c = Tail(@)]
    /\ UNCHANGED <<kfid, ktag, k2p, fids, pending, haveAttach, host, hostGen,
                   kpump, nextId, deaths, reconns, closed, twice>>

\* A read error on the current connection parks the pump.
HostReadError ==
    /\ ~closed
    /\ hpump = Free
    /\ host /\ ~conn.alive /\ conn.s2c = <<>>
    /\ MarkHostDead
    /\ UNCHANGED <<kfid, ktag, k2p, fids, pending, haveAttach, hostGen, kpump,
                   hpump, nextId, deaths, reconns, closed, twice>>

HostObserve ==
    /\ hpump # Free /\ ~hpump.observed
    /\ ObserveServer(hpump.msg.tag, hpump.msg.ok)
    /\ hpump' = [hpump EXCEPT !.observed = TRUE]
    /\ UNCHANGED <<kfid, ktag, k2p, host, hostGen, kpump, conn, nextId, deaths,
                   reconns, closed, twice>>

\* The reply is written to the socketpair and the kernel (external) takes it:
\* its tag is settled, and an Rflush settles the flushed tag too. A reply to
\* a tag nobody waits for is dropped.
KernelDeliver ==
    /\ hpump # Free /\ hpump.observed
    /\ LET t == hpump.msg.tag
           r == ktag[t] IN
         IF r = Free
         THEN UNCHANGED <<kfid, ktag>>
         ELSE /\ kfid' = Applied(kfid, r, hpump.msg.ok)
              /\ ktag' = [u \in Tags |->
                     IF u = t \/ (r.typ = "flush" /\ u = r.old) THEN Free ELSE ktag[u]]
    /\ hpump' = Free
    /\ UNCHANGED <<k2p, fids, pending, haveAttach, host, hostGen, kpump, conn,
                   nextId, deaths, reconns, closed, twice>>

-----------------------------------------------------------------------------
(* The host 9p server (external) and the connection's death.               *)

\* The server answers the first request it has not answered, with success or
\* an error; a fid it does not know is always an error.
ServerAnswer ==
    /\ host /\ conn.alive /\ conn.c2s # <<>>
    /\ LET m == Head(conn.c2s)
           known == m.req.fid = Free \/ m.req.typ = "attach" \/ conn.sfids[m.req.fid] # Free IN
         \E ok \in IF ~known THEN {FALSE}
                   ELSE IF m.req.typ \in {"attach", "clunk", "flush"} THEN {TRUE}
                   ELSE BOOLEAN :
           conn' = [conn EXCEPT
                !.c2s = Tail(@),
                !.s2c = Append(@, [tag |-> m.tag, id |-> m.req.id, ok |-> ok]),
                !.sfids = IF known THEN Applied(@, m.req, ok) ELSE @]
    /\ UNCHANGED <<kfid, ktag, k2p, fids, pending, haveAttach, host, hostGen,
                   kpump, hpump, nextId, deaths, reconns, closed, twice>>

\* A snapshot is taken and resumed: the server and everything in flight are
\* gone, except the replies the guest's socket had already received.
ConnDies ==
    /\ ~closed
    /\ host /\ conn.alive
    /\ deaths < MaxDeaths
    /\ deaths' = deaths + 1
    /\ \E k \in 0..Len(conn.s2c) :
         conn' = [conn EXCEPT !.alive = FALSE, !.c2s = <<>>, !.s2c = SubSeq(@, 1, k)]
    /\ UNCHANGED <<kfid, ktag, k2p, fids, pending, haveAttach, host, hostGen,
                   kpump, hpump, nextId, reconns, closed, twice>>

-----------------------------------------------------------------------------
(* Reconnect.                                                              *)

\* Replay: version and attach give the new server the root, replayWalk walks
\* every other tracked fid from there under its own number (an empty path is
\* a clone of the root), and then what was open is opened.
Reattached == [f \in AllFids |-> IF f = Root THEN [path |-> Root, open |-> FALSE] ELSE Free]
Rewalked(tab) ==
    [f \in AllFids |->
        IF f = Root \/ tab[f] = Free THEN Reattached[f] ELSE [path |-> tab[f].path, open |-> FALSE]]
Replay(tab) ==
    [f \in AllFids |->
        IF tab[f] # Free /\ tab[f].open THEN [Rewalked(tab)[f] EXCEPT !.open = TRUE] ELSE Rewalked(tab)[f]]

\* ResendOutstanding: the unanswered requests in the order they were sent.
Unanswered == {[tag |-> t, req |-> pending[t]] : t \in {u \in Tags : pending[u] # Free}}

ResendOutstanding ==
    {q \in [1..Cardinality(Unanswered) -> Unanswered] :
        /\ \A m \in Unanswered : \E i \in DOMAIN q : q[i] = m
        /\ \A i, j \in DOMAIN q : i < j => q[i].req.id < q[j].req.id}

\* Reconnect, under the lock. The comment at its head takes the pumps for
\* parked, but nothing parks hostToKernel between its read of a reply and the
\* lock it observes it under; and a reconnect may be re-driven while the
\* connection an earlier call installed is alive.
Reconnect ==
    /\ ~closed
    /\ reconns < MaxReconns
    /\ haveAttach
    /\ \E q \in ResendOutstanding :
         conn' = [FreshConn EXCEPT !.sfids = Replay(fids), !.c2s = q]
    /\ host' = TRUE
    /\ hostGen' = hostGen + 1
    /\ reconns' = reconns + 1
    /\ twice' = (twice \/ (hpump # Free /\ ~hpump.observed))
    /\ UNCHANGED <<kfid, ktag, k2p, fids, pending, haveAttach, kpump, hpump,
                   nextId, deaths, closed>>

\* Before the attach, or when the new server refuses a step of the replay or
\* goes away during it, the error is returned and nothing is installed.
ReconnectFails ==
    /\ ~closed
    /\ reconns < MaxReconns
    /\ reconns' = reconns + 1
    /\ UNCHANGED <<kfid, ktag, k2p, fids, pending, haveAttach, host, hostGen,
                   kpump, hpump, conn, nextId, deaths, closed, twice>>

\* Close: the mount is torn down, or mount(2) failed.
Close ==
    /\ ~closed
    /\ closed' = TRUE
    /\ host' = FALSE
    /\ conn' = [conn EXCEPT !.alive = FALSE, !.c2s = <<>>, !.s2c = <<>>]
    /\ kpump' = Free
    /\ hpump' = Free
    /\ UNCHANGED <<kfid, ktag, k2p, fids, pending, haveAttach, hostGen,
                   nextId, deaths, reconns, twice>>

NineNext ==
    \/ \E t \in Tags : KernelSend(t)
    \/ KernelToHost
    \/ WriteHost
    \/ HostWrite
    \/ HostRead
    \/ HostReadError
    \/ HostObserve
    \/ KernelDeliver
    \/ ServerAnswer
    \/ ConnDies
    \/ Reconnect
    \/ ReconnectFails
    \/ Close

NineSpec == NineInit /\ [][NineNext]_nineVars

-----------------------------------------------------------------------------
(* What makes the proxy correct.                                           *)

\* The type invariant: what the kernel, the session, the pumps and the
\* connection hold.
NineTypeOK ==
    /\ kfid \in Table /\ fids \in Table
    /\ ktag \in [Tags -> NineReq \cup {Free}] /\ pending \in [Tags -> NineReq \cup {Free}]
    /\ k2p \in Seq(NineMsg)
    /\ haveAttach \in BOOLEAN /\ host \in BOOLEAN /\ closed \in BOOLEAN /\ twice \in BOOLEAN
    /\ hostGen \in Nat /\ nextId \in Nat /\ deaths \in Nat /\ reconns \in Nat
    /\ kpump \in KernelPump \cup {Free} /\ hpump \in HostPump \cup {Free}
    /\ conn \in [alive : BOOLEAN, c2s : Seq(NineMsg), s2c : Seq(NineReply), sfids : Table]

\* Every request a live server has is one the kernel still waits for, on the
\* tag and with the identity the kernel gave it, and the server has it once:
\* a message whose generation changed under writeHost is not delivered twice,
\* and one that evaporated is delivered by Reconnect.
AnswersAwaited ==
    LET q == [i \in DOMAIN conn.s2c |-> [tag |-> conn.s2c[i].tag, id |-> conn.s2c[i].id]]
             \o [i \in DOMAIN conn.c2s |-> [tag |-> conn.c2s[i].tag, id |-> conn.c2s[i].req.id]] IN
    host /\ conn.alive =>
      /\ \A i, j \in DOMAIN q : i # j => q[i].id # q[j].id
      /\ \A i \in DOMAIN q : ktag[q[i].tag] # Free /\ ktag[q[i].tag].id = q[i].id

\* The fid a live server is asked about stands, on that server, for what the
\* kernel believes it stands for, however many servers came before it; only
\* a fid of Txattrwalk, which Session does not track, may be unknown to it.
FidsResolve ==
    host /\ conn.alive =>
      \A i \in DOMAIN conn.c2s :
         LET f == conn.c2s[i].req.fid IN
           f # Free /\ conn.c2s[i].req.typ # "attach" =>
             conn.sfids[f] = kfid[f] \/ (conn.sfids[f] = Free /\ kfid[f].path = Xattr)

\* A request is never forgotten: while the kernel waits on a tag and the
\* connection is live, the request is on its way to the server, held by it,
\* or its answer is on its way back.
NothingForgotten ==
    host /\ conn.alive =>
      \A t \in Tags : ktag[t] # Free =>
        \/ \E i \in DOMAIN k2p : k2p[i].tag = t
        \/ kpump # Free /\ kpump.msg.tag = t
        \/ \E i \in DOMAIN conn.c2s : conn.c2s[i].tag = t
        \/ \E i \in DOMAIN conn.s2c : conn.s2c[i].tag = t
        \/ hpump # Free /\ hpump.msg.tag = t

\* The 9p session outlives its servers, until a reconnect slips in between the
\* read of a reply and its observation: the kernel then gets two answers.
SessionSurvives == ~twice => AnswersAwaited /\ FidsResolve /\ NothingForgotten
=============================================================================
