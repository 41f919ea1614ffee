--------------------------------- MODULE Lru ---------------------------------
(***************************************************************************)
(* What the room cache promises (src/src/files2.c), without pointers and   *)
(* files: at most RQMAX rooms are in memory; a room with players in it is  *)
(* never dropped, and the room dropped for a new one is the least recently *)
(* used of the others.  Module RoomCache is shown to implement it.         *)
(***************************************************************************)
EXTENDS Naturals, Sequences

CONSTANTS Room, RQMAX

VARIABLES
    queue,   \* the rooms in memory, the most recently used one first
    busy     \* the rooms with players in them

lvars == <<queue, busy>>

Cached == {queue[i] : i \in 1..Len(queue)}

Init == queue = <<>> /\ busy = {}

\* A room in memory is used again.
Touch ==
    \E i \in 1..Len(queue) :
        queue' = <<queue[i]>> \o SubSeq(queue, 1, i - 1)
                              \o SubSeq(queue, i + 1, Len(queue))

\* The k-th room is dropped; the busy ones behind it count as used now.
Dropped(q, k) == SubSeq(q, k + 1, Len(q)) \o SubSeq(q, 1, k - 1)

Fetch(r) ==
    /\ r \notin Cached
    /\ LET q == <<r>> \o queue
       IN \/ /\ Len(q) <= RQMAX
             /\ queue' = q
          \/ /\ Len(q) > RQMAX
             /\ \E k \in 1..Len(q) :
                  /\ q[k] \notin busy
                  /\ \A i \in (k+1)..Len(q) : q[i] \in busy
                  /\ queue' = Dropped(q, k)

\* Players move: what they are in now is in memory.
Stay == busy' \subseteq {queue'[i] : i \in 1..Len(queue')}

Use == (Touch \/ \E r \in Room : Fetch(r)) /\ Stay

Walk == queue' = queue /\ Stay

Stop == queue' = <<>> /\ busy' = {}

Next == Use \/ Walk \/ Stop

Spec == Init /\ [][Next]_lvars

=============================================================================
