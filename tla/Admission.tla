------------------------------ MODULE Admission ------------------------------
(***************************************************************************)
(* Connections, play slots and the waiting queue of the game server        *)
(* (src/src/io.c): accept_connect, init_connect, disconnect, add_wait,     *)
(* remove_wait and the scan of ready sockets in io_check.  The server is   *)
(* one process; every handler runs to its end, so a handler is one step.   *)
(* io_check is not: it takes one snapshot of the ready sockets and then    *)
(* serves them one after the other, while the handlers it calls may close  *)
(* sockets of that snapshot.                                               *)
(*                                                                         *)
(* What a player does once the slot is his is left to module Accounts:     *)
(* here a connection that holds a slot may end between two scans.          *)
(***************************************************************************)
EXTENDS Naturals, FiniteSets, Sequences

CONSTANTS
    Fd,          \* socket numbers a connection can get
    MaxPlayers,  \* MAXPLAYERS: from there on, connections queue
    Tablesize,   \* getdtablesize() capped at PMAX: entries of Ply[]
    Lockouts,    \* whether the lockout list holds a site
    Local        \* whether connections from 127.* are made

ASSUME AdmissionAssumption ==
    /\ Fd \subseteq Nat \ {0}
    /\ IsFiniteSet(Fd)
    /\ MaxPlayers \in Nat \ {0}
    /\ Tablesize \in Nat
    /\ Lockouts \in BOOLEAN
    /\ Local \in BOOLEAN

\* The listening socket.  It is opened before any connection, so its number
\* is below all of Fd and io_check serves it first.
Waitsock == 0

VARIABLES
    up,          \* the process runs
    fn,          \* Ply[fd].io: "closed" when null, else what io->fn is
    counted,     \* sockets whose io->intrpt has bit 2: they hold a slot
    gone,        \* sockets whose peer is gone: read() gives <= 0
    wq,          \* the list First_wait, head first
    Numplayers,
    Numwaiting,
    ready        \* sockets of io_check's snapshot not yet served

vars == <<up, fn, counted, gone, wq, Numplayers, Numwaiting, ready>>

Open == {fd \in Fd : fn[fd] # "closed"}

TypeOK ==
    /\ up \in BOOLEAN
    /\ fn \in [Fd -> {"closed", "waiting", "login"}]
    /\ counted \subseteq Fd
    /\ gone \subseteq Fd
    /\ wq \in Seq(Fd)
    /\ Numplayers \in Nat
    /\ Numwaiting \in Nat
    /\ ready \subseteq Fd \cup {Waitsock}

Fresh(f, c, q, n, w) ==
    /\ f = [fd \in Fd |-> "closed"]
    /\ c = {}
    /\ q = <<>>
    /\ n = 0
    /\ w = 0

Init ==
    /\ up = TRUE
    /\ Fresh(fn, counted, wq, Numplayers, Numwaiting)
    /\ gone = {}
    /\ ready = {}

-----------------------------------------------------------------------------
(* The pieces of disconnect, init_connect, add_wait and remove_wait.  An   *)
(* operator that takes q, w, n, f, c works on the values wq, Numwaiting,   *)
(* Numplayers, fn and counted have at that point of the handler.  The      *)
(* variants just before an operator are slips a change of the code could   *)
(* introduce; no action uses them, they show what each property catches.   *)

Mark(f, S, s) == [fd \in DOMAIN f |-> IF fd \in S THEN s ELSE f[fd]]

DropTagForgotten(q, i) == q
DropTag(q, i) == SubSeq(q, 1, i - 1) \o SubSeq(q, i + 1, Len(q))

ReleaseAlways(n, fd) == n - 1
Release(n, fd) == IF fd \in counted THEN n - 1 ELSE n

SlotFreeEarly(n) == n + 1 < MaxPlayers
SlotFree(n) == n < MaxPlayers

\* remove_wait(1) unlinks the k-th waiter and its probing write returns -1:
\* the peer is gone, or it lives and its send buffer is full (the sockets do
\* not block).  Either way the socket stays open, in no list: only its own
\* read() can still close it.
ProbeFails(n, f, c) ==
    /\ Numplayers' = n
    /\ fn' = f
    /\ counted' = c

PromoteUncounted(q, n, f, c, k) ==
    Numplayers' = n /\ fn' = Mark(f, {q[k]}, "login") /\ counted' = c \cup {q[k]}
PromoteLast(q, n, f, c, k) ==
    /\ Numplayers' = n + 1
    /\ fn' = Mark(f, {q[Len(q)]}, "login")
    /\ counted' = c \cup {q[Len(q)]}
\* init_connect for the k-th waiter, whose site is not locked out.
Promote(q, n, f, c, k) ==
    /\ Numplayers' = n + 1
    /\ fn' = Mark(f, {q[k]}, "login")
    /\ counted' = c \cup {q[k]}

\* init_connect for the last waiter, whose site is locked out.
RefuseLast(q, n, f, c, k) ==
    /\ Lockouts
    /\ k = Len(q)
    /\ Numplayers' = n
    /\ fn' = Mark(f, {q[k]}, "closed")
    /\ counted' = c

\* The sockets of the first k - 1 waiters, all refused, are closed.
CloseAhead(f, q, k) == Mark(f, {q[i] : i \in 1..(k-1)}, "closed")

Keep(q, w, n, f, c) ==
    /\ wq' = q
    /\ Numwaiting' = w
    /\ Numplayers' = n
    /\ fn' = f
    /\ counted' = c

OfferToNewest(q, w, n, f, c, k) ==
    /\ k = 1
    /\ wq' = SubSeq(q, 1, Len(q) - 1)
    /\ Numwaiting' = w - 1
    /\ Promote(q, n, f, c, Len(q))
\* init_connect disconnects a waiter from a locked-out site, and that
\* disconnect offers the slot to the next one: k - 1 waiters are refused and
\* the k-th ends the recursion.
OfferTo(q, w, n, f, c, k) ==
    /\ k > 1 => Lockouts
    /\ wq' = SubSeq(q, k + 1, Len(q))
    /\ Numwaiting' = w - k
    /\ \/ ProbeFails(n, CloseAhead(f, q, k), c)
       \/ Promote(q, n, CloseAhead(f, q, k), c, k)
       \/ RefuseLast(q, n, CloseAhead(f, q, k), c, k)

\* The end of disconnect: `if(Numwaiting && Numplayers < MAXPLAYERS)' the
\* slot is offered to the head of the queue.
OfferSlot(q, w, n, f, c) ==
    \/ /\ w = 0 \/ ~SlotFree(n)
       /\ Keep(q, w, n, f, c)
    \/ /\ w # 0 /\ SlotFree(n)
       /\ \E k \in 1..Len(q) : OfferTo(q, w, n, f, c, k)

\* disconnect(fd): free io, give the slot back, leave the queue, offer the
\* slot.
disconnect(fd) ==
    LET f == Mark(fn, {fd}, "closed")
        n == Release(Numplayers, fd)
        c == counted \ {fd}
    IN \/ /\ \A i \in 1..Len(wq) : wq[i] # fd
          /\ OfferSlot(wq, Numwaiting, n, f, c)
       \/ \E i \in 1..Len(wq) :
            /\ wq[i] = fd
            /\ \A j \in 1..(i-1) : wq[j] # fd
            /\ OfferSlot(DropTag(wq, i), Numwaiting - 1, n, f, c)

\* A socket number that is closed and used again has a new peer.
ForgetClosed == gone' = {fd \in gone : fn'[fd] # "closed"}

Halt ==
    /\ up' = FALSE
    /\ Fresh(fn', counted', wq', Numplayers', Numwaiting')
    /\ gone' = {}
    /\ ready' = {}

-----------------------------------------------------------------------------
(* io_check.                                                               *)

\* select(): every socket whose peer is gone is ready, others may be.
Poll ==
    /\ up
    /\ ready = {}
    /\ \E S \in SUBSET (Open \cup {Waitsock}) : ready' = (gone \cap Open) \cup S
    /\ UNCHANGED <<up, fn, counted, gone, wq, Numplayers, Numwaiting>>

\* The socket number accept() returns: the lowest free one.
Accepted(fd) ==
    /\ up
    /\ Waitsock \in ready
    /\ fd \in Fd \ Open
    /\ \A g \in Fd \ Open : fd <= g
    /\ ready' = ready \ {Waitsock}
    /\ up' = up

TableFull == Numplayers + 2 > Tablesize
MustQueue == Numplayers >= MaxPlayers
QueueFull == Numwaiting > MaxPlayers

\* "Game full", "Queue full" and a locked-out site: the new socket is closed
\* by disconnect before it ever held a slot or a place in the queue.
AcceptRefused ==
    \E fd \in Fd :
        /\ Accepted(fd)
        /\ \/ TableFull
           \/ MustQueue /\ QueueFull
           \/ (~MustQueue \/ Local) /\ Lockouts
        /\ OfferSlot(wq, Numwaiting, Numplayers, fn, counted)
        /\ ForgetClosed

AcceptQueued ==
    \E fd \in Fd :
        /\ Accepted(fd)
        /\ ~TableFull /\ MustQueue /\ ~QueueFull
        /\ wq' = Append(wq, fd)
        /\ Numwaiting' = IF wq = <<>> THEN 1 ELSE Numwaiting + 1
        /\ fn' = [fn EXCEPT ![fd] = "waiting"]
        /\ UNCHANGED <<counted, gone, Numplayers>>

AcceptAdmitted ==
    \E fd \in Fd :
        /\ Accepted(fd)
        /\ ~TableFull
        /\ ~MustQueue \/ Local
        /\ Numplayers' = Numplayers + 1
        /\ counted' = counted \cup {fd}
        /\ fn' = [fn EXCEPT ![fd] = "login"]
        /\ UNCHANGED <<gone, wq, Numwaiting>>

\* accept() fails when no number is free, and `pid' is read uninitialised:
\* if it happens to be 0 the process turns into `auth' or exits.
AcceptFatal ==
    /\ up
    /\ Waitsock \in ready
    /\ Halt

\* accept_input on the next socket of the snapshot: a read of 0 or less
\* drops the connection; other input leaves this module's state alone.
ServeInput ==
    /\ up
    /\ Waitsock \notin ready
    /\ \E fd \in ready :
        /\ \A g \in ready : fd <= g
        /\ fd \in Open
        /\ ready' = ready \ {fd}
        /\ \/ fd \in gone /\ disconnect(fd) /\ ForgetClosed
           \/ fd \notin gone /\ UNCHANGED <<fn, counted, gone, wq, Numplayers, Numwaiting>>
    /\ up' = up

\* accept_input on a socket an earlier handler of this scan has closed:
\* read() fails and `Ply[fd].io->commands' is a null dereference.
ServeClosed ==
    /\ up
    /\ Waitsock \notin ready
    /\ \E fd \in ready : (\A g \in ready : fd <= g) /\ fd \notin Open
    /\ Halt

-----------------------------------------------------------------------------
\* handle_commands and update_game: quit, a wrong password, a timeout or a
\* dungeon master ends a session.  update_users spares the waiting ones.
EndSession ==
    /\ up
    /\ ready = {}
    /\ \E fd \in Fd : fn[fd] = "login" /\ disconnect(fd)
    /\ ForgetClosed
    /\ UNCHANGED <<up, ready>>

\* The environment: a peer closes or loses its connection.
PeerLeaves ==
    /\ up
    /\ \E fd \in Open \ gone : gone' = gone \cup {fd}
    /\ UNCHANGED <<up, fn, counted, wq, Numplayers, Numwaiting, ready>>

\* The server is started again by hand.
Restart ==
    /\ ~up
    /\ up' = TRUE
    /\ UNCHANGED <<fn, counted, gone, wq, Numplayers, Numwaiting, ready>>

Next ==
    \/ Poll
    \/ AcceptRefused \/ AcceptQueued \/ AcceptAdmitted \/ AcceptFatal
    \/ ServeInput \/ ServeClosed
    \/ EndSession
    \/ PeerLeaves
    \/ Restart

Scan == AcceptRefused \/ AcceptQueued \/ AcceptAdmitted \/ AcceptFatal
            \/ ServeInput \/ ServeClosed

Spec == Init /\ [][Next]_vars

\* sock_loop calls io_check again and again and never blocks in it.
FairSpec == Spec /\ WF_vars(Poll) /\ WF_vars(Scan)

-----------------------------------------------------------------------------
(* Properties.                                                             *)

Elems(q) == {q[i] : i \in 1..Len(q)}

\* Waiters whose probe failed: open, in no queue, holding no slot.
Limbo == {fd \in Fd : fn[fd] = "waiting"} \ Elems(wq)

\* Numplayers is the number of connections that hold a slot, whatever the
\* order of promotions, refusals and hang-ups inside nested disconnects.
SlotCountExact ==
    /\ Numplayers = Cardinality(counted)
    /\ counted = {fd \in Fd : fn[fd] = "login"}

\* Numwaiting is the length of the queue, so that disconnect never follows a
\* null First_wait; a socket is queued once, and only while it is waiting.
QueueSound ==
    /\ Numwaiting = Len(wq)
    /\ \A i, j \in 1..Len(wq) : wq[i] = wq[j] => i = j
    /\ \A i \in 1..Len(wq) : fn[wq[i]] = "waiting"

\* While somebody queues, every free slot is owed to a waiter whose probe
\* failed: closing that socket offers the slot again.  No slot is lost, also
\* when several probes fail, to peers that are gone or to peers that live.
SlotDebt == wq # <<>> => MaxPlayers <= Numplayers + Cardinality(Limbo)

\* io_check never serves a socket that a handler of the same scan closed.
SnapshotLive == \A fd \in ready \ {Waitsock} : fd \in Open

\* Nobody overtakes in the queue: those who stay keep their order, and who
\* is let in from the queue was ahead of everybody who stays.
QueueFair ==
    [][ up' => \A a, b \in Fd :
         (\E i, j \in 1..Len(wq) : i < j /\ wq[i] = a /\ wq[j] = b)
            => /\ fn'[b] = "login" => a \notin Elems(wq')
               /\ {a, b} \subseteq Elems(wq') =>
                    \E i, j \in 1..Len(wq') : i < j /\ wq'[i] = a /\ wq'[j] = b
      ]_vars

Abstract == INSTANCE Slots WITH inside <- counted, line <- wq

\* The admission code implements Slots: whatever disconnects, probes and
\* lockouts do inside one handler, the players come from the line in order
\* and only into a free slot.
ImplementsSlots == Abstract!Spec

\* A free slot is eventually taken if somebody waits for it, whoever hangs up
\* or is refused meanwhile.  Only a waiter whose probe failed though he lives
\* can hold it back: until he leaves, nobody closes his socket.
SlotOffered ==
    (wq # <<>> /\ Numplayers < MaxPlayers)
        ~> (wq = <<>> \/ Numplayers >= MaxPlayers \/ Limbo \ gone # {})

=============================================================================
