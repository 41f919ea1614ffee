------------------------------ MODULE RoomCache ------------------------------
(***************************************************************************)
(* The rooms in memory (src/src/files2.c): load_rom, resave_rom,           *)
(* reload_rom, resave_all_rom and the doubly linked queue they keep with   *)
(* put_queue, pull_queue and front_queue; and the pointers to rooms that   *)
(* players hold: parent_rom (`at') and home_rom (`home').                  *)
(*                                                                         *)
(* A room has one queue tag, allocated and freed with it, so a tag is      *)
(* named by its room.  Tags keep their links when they leave the queue.    *)
(* What a room holds is abstracted to whether its file has it.             *)
(*                                                                         *)
(* Opening or writing a file may fail, at most MaxFaults times.  A write   *)
(* that is cut short ends the process (merror FATAL), which is RCCrash.     *)
(***************************************************************************)
EXTENDS Integers, FiniteSets, Sequences

CONSTANTS
    Room,       \* rooms that have a file
    Start,      \* room 1
    NoHome,     \* rooms nobody may call home (RNHOME, RNOLOG, RONEPL, ...)
    Nil,        \* the null pointer
    Freed,      \* a pointer to a room that has been freed
    Player,
    RQMAX,
    MaxFaults   \* bound: failures of the disk that are explored

ASSUME RoomCacheAssumption ==
    /\ Start \in Room
    /\ NoHome \subseteq Room \ {Start}
    /\ Nil \notin Room /\ Freed \notin Room /\ Nil # Freed
    /\ IsFiniteSet(Room) /\ IsFiniteSet(Player)
    /\ RQMAX \in Nat
    \* MAXPLAYERS (50) players in at most as many rooms, of RQMAX (800).
    /\ Cardinality(Player) < RQMAX
    /\ MaxFaults \in Nat

VARIABLES
    cache,   \* Rom[], Romhead, Romtail, Rsize, the tags and the room files
    at,      \* parent_rom of each player, Nil when he is not in the game
    home,    \* extr->home_rom of each player
    login,   \* who is in the middle of init_ply, which has yet to load room 1,
             \* and what its rom_ptr holds; Nil when nobody is
    faults

rcvars == <<cache, at, home, login, faults>>

Ptr == Room \cup {Nil}

\* file: "current" when it has what memory has, "stale" when memory is newer,
\* "moved" when load_rom left the contents in the `~' file only.
CacheType ==
    [loaded : SUBSET Room,
     head : Ptr, tail : Ptr, next : [Room -> Ptr], prev : [Room -> Ptr],
     size : Nat,
     file : [Room -> {"current", "stale", "moved"}],
     freed : SUBSET Room,    \* rooms freed by the calls of this handler
     out : SUBSET Room,      \* history: in memory, and in no queue since an
                             \* eviction of them failed
     torn : BOOLEAN]         \* history: front_queue was called for one of them

RCTypeOK ==
    /\ cache \in CacheType
    /\ at \in [Player -> Ptr \cup {Freed}]
    /\ home \in [Player -> Ptr \cup {Freed}]
    /\ login \in {Nil} \cup [who : Player, rom : Ptr]
    /\ faults \in 0..MaxFaults

NewCache(f) ==
    [loaded |-> {}, head |-> Nil, tail |-> Nil,
     next |-> [r \in Room |-> Nil], prev |-> [r \in Room |-> Nil],
     size |-> 0, file |-> f, freed |-> {}, out |-> {}, torn |-> FALSE]

RCInit ==
    /\ cache = NewCache([r \in Room |-> "current"])
    /\ at = [p \in Player |-> Nil]
    /\ home = [p \in Player |-> Nil]
    /\ login = Nil
    /\ faults = 0

Occupied == {r \in Room : \E p \in Player : at[p] = r}

-----------------------------------------------------------------------------
(* The queue.  The variants just before an operator are slips a change of  *)
(* the code could introduce; no action uses them, they show what each      *)
(* property catches.                                                       *)

put_queue(c, t) ==
    IF c.head = Nil
    THEN [c EXCEPT !.size = @ + 1, !.head = t, !.tail = t,
                   !.next[t] = Nil, !.prev[t] = Nil]
    ELSE [c EXCEPT !.size = @ + 1, !.prev[c.head] = t,
                   !.next[t] = c.head, !.prev[t] = Nil, !.head = t]

pull_queue(c) ==
    LET p == c.prev[c.tail]
    IN IF p # Nil
       THEN [c EXCEPT !.size = @ - 1, !.next[p] = Nil, !.tail = p]
       ELSE [c EXCEPT !.size = @ - 1, !.head = Nil, !.tail = Nil]

UnlinkedKeepTail(c, t) ==
    LET p == c.prev[t]
        n == c.next[t]
        before == IF p = Nil THEN c ELSE [c EXCEPT !.next[p] = n]
        after == IF n = Nil THEN before
                 ELSE [before EXCEPT !.prev[n] = p,
                                     !.head = IF t = @ THEN n ELSE @]
    IN IF p = Nil /\ n = Nil THEN [after EXCEPT !.head = Nil, !.tail = Nil]
                             ELSE after
\* The first half of front_queue.
Unlinked(c, t) ==
    LET p == c.prev[t]
        n == c.next[t]
        before == IF p = Nil THEN c
                  ELSE [c EXCEPT !.next[p] = n,
                                 !.tail = IF t = @ THEN p ELSE @]
        after == IF n = Nil THEN before
                 ELSE [before EXCEPT !.prev[n] = p,
                                     !.head = IF t = @ THEN n ELSE @]
    IN IF p = Nil /\ n = Nil THEN [after EXCEPT !.head = Nil, !.tail = Nil]
                             ELSE after

front_queue(c, t) ==
    put_queue([Unlinked(c, t) EXCEPT !.size = @ - 1], t)

\* The queue after load_rom's loop has put n occupied rooms back in front.
Rotated(c, n) ==
    LET turn[i \in 0..n] ==
            IF i = 0 THEN c
            ELSE put_queue(pull_queue(turn[i - 1]), turn[i - 1].tail)
    IN turn[n]

VictimTail(c) == c
VictimHead(c) ==
    LET n == CHOOSE n \in 1..Cardinality(Room) : Rotated(c, n).tail = c.head
    IN Rotated(c, n)
\* The queue with the first unoccupied room at its tail.
Victim(c) ==
    LET busy(n) == Rotated(c, n).tail \in Occupied
        n == CHOOSE n \in 0..Cardinality(Room) :
                ~busy(n) /\ \A i \in 0..(n-1) : busy(i)
    IN Rotated(c, n)

-----------------------------------------------------------------------------
(* load_rom.  An outcome is the cache after the call, the room *rom_ptr    *)
(* points to, and what the call returned.  `bad' tells whether the disk    *)
(* failed.                                                                 *)

Outcome(c, r, ret, bad) == [cache |-> c, ptr |-> r, ret |-> ret, bad |-> bad]

EvictUnsaved(c, r) ==
    LET v == c.tail
    IN {Outcome([pull_queue(c) EXCEPT !.loaded = @ \ {v}, !.freed = @ \cup {v},
                                      !.next[v] = Nil, !.prev[v] = Nil],
                r, 0, FALSE)}
\* The tail of c is written and freed; or its file cannot be opened and
\* stays moved; or the write fails and the `~' file is moved back.
Evict(c, r) ==
    LET v == c.tail
        d == pull_queue(c)
    IN {Outcome([d EXCEPT !.loaded = @ \ {v}, !.freed = @ \cup {v},
                          !.next[v] = Nil, !.prev[v] = Nil,
                          !.file[v] = "current"], r, 0, FALSE),
        Outcome([d EXCEPT !.file[v] = "moved", !.out = @ \cup {v}], r, -1, TRUE),
        Outcome([d EXCEPT !.file[v] = IF @ = "moved" THEN "stale" ELSE @,
                          !.out = @ \cup {v}], r, -1, TRUE)}

load_rom(r) ==
    IF r \in cache.loaded
    THEN {Outcome([front_queue(cache, r) EXCEPT !.torn = r \in cache.out], r, 0, FALSE)}
    ELSE {Outcome(cache, Nil, -1, cache.file[r] # "moved")} \cup
         (IF cache.file[r] = "moved" THEN {}
          ELSE LET c == put_queue([cache EXCEPT !.loaded = @ \cup {r}], r)
               IN IF c.size > RQMAX THEN Evict(Victim(c), r)
                                    ELSE {Outcome(c, r, 0, FALSE)})

\* Every load_rom ends so: pointers to the rooms it freed are left behind.
\* A torn queue has lost tags, and load_rom may turn in a circle, read a null
\* tail or free the room it has just loaded: no call after that is followed.
Took(o) ==
    /\ ~cache.torn
    /\ o.bad => faults < MaxFaults
    /\ faults' = IF o.bad THEN faults + 1 ELSE faults
    /\ cache' = [o.cache EXCEPT !.freed = {}]

Dangle(ptr, F) == [p \in Player |-> IF ptr[p] \in F THEN Freed ELSE ptr[p]]

-----------------------------------------------------------------------------
(* The callers.  Nothing runs between the steps of one init_ply.           *)

\* init_ply: the room the player left the game in, if it can be loaded and
\* lets him in.  Where that is no room to call home, room 1 is loaded too.
Login(p, r) ==
    /\ login = Nil
    /\ at[p] = Nil
    /\ \E o \in load_rom(r) :
         /\ Took(o)
         /\ \/ /\ o.ret = 0
               /\ at' = [Dangle(at, o.cache.freed) EXCEPT ![p] = r]
               /\ \/ /\ home' = [Dangle(home, o.cache.freed) EXCEPT ![p] = r]
                     /\ login' = Nil
                  \/ /\ r \in NoHome
                     /\ home' = Dangle(home, o.cache.freed)
                     /\ login' = [who |-> p, rom |-> o.ptr]
            \/ /\ o.ret = -1 \/ r \in NoHome
               /\ at' = Dangle(at, o.cache.freed)
               /\ home' = Dangle(home, o.cache.freed)
               /\ login' = [who |-> p, rom |-> o.ptr]

\* init_ply, load_rom(1): for the player's room, or only for his home.  Its
\* result is not looked at: a load that fails leaves rom_ptr as it was, at
\* the room he left the game in, and where even that one could not be read
\* the process dies.  For the home of a player put into a room that is none,
\* room 1 is tried once more.  A first try that fails where the code tries
\* again for his room changes nothing and is no step.
LoginStart(p) ==
    /\ login # Nil
    /\ login.who = p
    /\ \E o \in load_rom(Start) :
         LET rom_ptr == IF o.ptr = Nil THEN login.rom ELSE Start
         IN /\ rom_ptr # Nil
            /\ Took(o)
            /\ at' = [Dangle(at, o.cache.freed) EXCEPT
                         ![p] = IF at[p] = Nil THEN rom_ptr ELSE @]
            /\ \/ /\ home' = [Dangle(home, o.cache.freed) EXCEPT ![p] = rom_ptr]
                  /\ login' = Nil
               \/ /\ at[p] = Nil /\ rom_ptr \in NoHome
                  /\ home' = Dangle(home, o.cache.freed)
                  /\ login' = login

\* move, go, the traps and the room-changing spells.  Their result is not
\* looked at either: `rom_ptr == old_rom_ptr' means the map has no such room.
Move(p, r) ==
    /\ login = Nil
    /\ at[p] \in Room \ {r}
    /\ \E o \in load_rom(r) :
         /\ Took(o)
         /\ home' = Dangle(home, o.cache.freed)
         /\ at' = LET d == Dangle(at, o.cache.freed)
                  IN IF o.ptr = Nil THEN d ELSE [d EXCEPT ![p] = r]
    /\ login' = login

\* A room is loaded and nobody enters it: time exits, scouts, links.
Visit(r) ==
    /\ login = Nil
    /\ \E o \in load_rom(r) :
         /\ Took(o)
         /\ home' = Dangle(home, o.cache.freed)
         /\ at' = Dangle(at, o.cache.freed)
    /\ login' = login

\* set home.
SetHome(p) ==
    /\ login = Nil
    /\ at[p] \in Room
    /\ home' = [home EXCEPT ![p] = at[p]]
    /\ UNCHANGED <<cache, at, login, faults>>

\* teleport home, and the room that hurls a player home.
TeleportHome(p) ==
    /\ login = Nil
    /\ at[p] \in Room
    /\ at' = [at EXCEPT ![p] = home[p]]
    /\ UNCHANGED <<cache, home, login, faults>>

\* uninit_ply.
Quit(p) ==
    /\ login = Nil
    /\ at[p] \in Room
    /\ at' = [at EXCEPT ![p] = Nil]
    /\ home' = [home EXCEPT ![p] = Nil]
    /\ UNCHANGED <<cache, login, faults>>

\* A door, a permanent object or a store changes in a room with players.
Change(r) ==
    /\ login = Nil
    /\ r \in Occupied
    /\ cache.file[r] = "current"
    /\ cache' = [cache EXCEPT !.file[r] = "stale"]
    /\ UNCHANGED <<at, home, login, faults>>

\* resave_rom; it fails as the write of load_rom does.
resave_rom(r) ==
    /\ login = Nil
    /\ r \in cache.loaded
    /\ \/ /\ cache' = [cache EXCEPT !.file[r] = "current"]
          /\ faults' = faults
       \/ /\ faults < MaxFaults
          /\ \/ cache' = [cache EXCEPT !.file[r] = "moved"]
             \/ cache' = [cache EXCEPT !.file[r] =
                                           IF @ = "moved" THEN "stale" ELSE @]
          /\ faults' = faults + 1
    /\ UNCHANGED <<at, home, login>>

\* reload_rom: the players are moved to the new copy of the room, the
\* pointers of those who call it home are not.
reload_rom(r) ==
    /\ login = Nil
    /\ r \in cache.loaded \cap Occupied
    /\ cache.file[r] # "moved"
    /\ cache' = [cache EXCEPT !.file[r] = "current"]
    /\ home' = Dangle(home, {r})
    /\ UNCHANGED <<at, login, faults>>

\* The tags from the head on, followed as far as there can be any.
Forward ==
    LET tag[i \in 0..Cardinality(Room)] ==
            IF i = 0 THEN cache.head
            ELSE IF tag[i - 1] = Nil THEN Nil ELSE cache.next[tag[i - 1]]
    IN tag

\* The files after resave_all_rom, which gives up at the first file it
\* cannot open: it has then written the first n rooms of the queue.
Resaved(n) ==
    [r \in Room |-> IF r \in cache.loaded /\ \E i \in 0..(n-1) : Forward[i] = r
                   THEN "current" ELSE cache.file[r]]

resave_all_rom ==
    /\ login = Nil
    /\ \/ /\ cache' = [cache EXCEPT !.file = Resaved(Cardinality(Room))]
          /\ faults' = faults
       \/ /\ faults < MaxFaults
          /\ \E n \in 0..(cache.size - 1) :
               cache' = [cache EXCEPT !.file = Resaved(n)]
          /\ faults' = faults + 1
    /\ UNCHANGED <<at, home, login>>

\* The process ends, after resave_all_rom or without it, and starts again.
\* What memory had and the files have not is gone.
RCCrash ==
    /\ cache' = NewCache([r \in Room |->
                     IF cache.file[r] = "stale" THEN "current" ELSE cache.file[r]])
    /\ at' = [p \in Player |-> Nil]
    /\ home' = [p \in Player |-> Nil]
    /\ login' = Nil
    /\ faults' = faults

RCNext ==
    \/ \E p \in Player, r \in Room : Login(p, r) \/ Move(p, r)
    \/ \E p \in Player : LoginStart(p) \/ SetHome(p) \/ TeleportHome(p) \/ Quit(p)
    \/ \E r \in Room : Visit(r) \/ Change(r) \/ resave_rom(r) \/ reload_rom(r)
    \/ resave_all_rom
    \/ RCCrash

RCSpec == RCInit /\ [][RCNext]_rcvars

-----------------------------------------------------------------------------
(* Properties.                                                             *)

Backward ==
    LET tag[i \in 0..Cardinality(Room)] ==
            IF i = 0 THEN cache.tail
            ELSE IF tag[i - 1] = Nil THEN Nil ELSE cache.prev[tag[i - 1]]
    IN tag

\* The queue read from either end has the same tags, one for each room in
\* memory but those whose eviction failed, and Rsize counts them; it never
\* ends a call above RQMAX.
QueueSound ==
    /\ RCTypeOK
    /\ ~cache.torn =>
        LET n == cache.size
            queued == cache.loaded \ cache.out
        IN /\ n <= RQMAX
           /\ n = Cardinality(queued)
           /\ Forward[n] = Nil /\ Backward[n] = Nil
           /\ {Forward[i] : i \in 0..(n-1)} = queued
           /\ \A i \in 0..(n-1) : Forward[i] = Backward[n - 1 - i]

\* The room a player stands in is in memory, and no load or eviction takes it
\* away under him, also when the disk fails in the middle: only `teleport
\* home' brings somebody into a room that has been freed.
PresentLoaded ==
    [][ \A p \in Player :
          /\ at'[p] \in Room => at'[p] \in cache'.loaded
          /\ at'[p] = Freed => at[p] = Freed \/ home[p] = Freed ]_rcvars

\* A room that left memory left its changes on disk.
EvictedSaved == \A r \in Room \ cache.loaded : cache.file[r] # "stale"

\* The rooms in the queue, from its head, beside what the cache promises.
Abstract ==
    INSTANCE Lru WITH
        queue <- [i \in 1..cache.size |-> Forward[i - 1]],
        busy <- Occupied \ cache.out

\* Until it is torn, the linked queue implements Lru: a room with players is
\* never dropped, and of the others the least recently used is, also when it
\* cannot be saved.
ImplementsLru ==
    Abstract!Init /\ [][~cache'.torn => Abstract!Next]_<<Abstract!lvars, cache.torn>>

\* help 202: a player may teleport to his home room; so that is a room.
HomeIsARoom == \A p \in Player : at[p] # Freed

=============================================================================
