-------------------------------- MODULE Active --------------------------------
(***************************************************************************)
(* The list of active monsters (src/src/update.c): add_active, del_active  *)
(* and the pass update_active makes over it every second; and whatever     *)
(* moves players and monsters between rooms and so changes the list        *)
(* (room.c, command6.c, Creature.c, combat.c, files1.c, magic*.c, dm*.c).  *)
(*                                                                         *)
(* A pass walks the list with a cursor, while what a monster does in it    *)
(* adds and removes tags.  No command runs during a pass.  Dice and flags  *)
(* decide what a monster does: here any of it may happen.  A tag is named  *)
(* by its monster; a list of a room, first_mon or first_ply, is the set of *)
(* those who are there.  Rooms with players are never evicted (RoomCache). *)
(***************************************************************************)
EXTENDS Integers, FiniteSets, Sequences, SequencesExt

CONSTANTS
    Mon,      \* monsters ever loaded, numbered in the order of their names
    Player,
    Room,
    Limbo,    \* room 50, where the dead go
    Nil,
    Freed     \* a pointer to a tag that has been freed

ASSUME ActiveAssumption ==
    /\ Mon \subseteq Nat /\ IsFiniteSet(Mon) /\ IsFiniteSet(Player)
    /\ IsFiniteSet(Room) /\ Limbo \in Room
    /\ Nil \notin Mon \cup Room /\ Freed \notin Mon /\ Nil # Freed
    /\ {"unborn", "gone"} \cap Room = {}

VARIABLES
    where,    \* parent_rom of a monster; "unborn" before load_crt, "gone"
              \* when freed, or in no list any more and never freed
    at,       \* parent_rom of a player, Nil when he is not in the game
    active,   \* first_active
    cp,       \* the cursor of update_active, Nil when it does not run
    acted,    \* monsters not due (LT_ATTCK) in the running pass
    torpid    \* history: put before players by a handler that does not
              \* call add_active

activevars == <<where, at, active, cp, acted, torpid>>

ActiveTypeOK ==
    /\ where \in [Mon -> Room \cup {"unborn", "gone"}]
    /\ at \in [Player -> Room \cup {Nil}]
    /\ active \in Seq(Mon)
    /\ cp \in Mon \cup {Nil, Freed}
    /\ acted \subseteq Mon
    /\ torpid \subseteq Mon

ActiveInit ==
    /\ where = [m \in Mon |-> "unborn"]
    /\ at = [p \in Player |-> Nil]
    /\ active = <<>>
    /\ cp = Nil
    /\ acted = {}
    /\ torpid = {}

-----------------------------------------------------------------------------
(* The functions the handlers are made of take and give a state s of       *)
(* where, at and active.  The variants just before an operator are slips a *)
(* change of the code could introduce; no action uses them.                *)

Now == [where |-> where, at |-> at, active |-> active]

\* T: the monsters the handler put before players without add_active.
Becomes(s, T) ==
    /\ where' = s.where
    /\ at' = s.at
    /\ active' = s.active
    /\ torpid' = (torpid \cup T) \ ToSet(s.active)

In(s, r) == {m \in Mon : s.where[m] = r}
Occupied(s, r) == \E p \in Player : s.at[p] = r
Unborn(s) == {m \in Mon : s.where[m] = "unborn"}

\* The list q without the tags of M.
Unlisted(q, M) ==
    LET rest[i \in 0..Len(q)] ==
            IF i = 0 THEN <<>>
            ELSE IF q[i] \in M THEN rest[i - 1] ELSE Append(rest[i - 1], q[i])
    IN rest[Len(q)]

del_active(s, M) == [s EXCEPT !.active = Unlisted(@, M)]

\* Who comes last in first_mon is put in front last, and so is first.
Descending(M) ==
    CHOOSE q \in [1..Cardinality(M) -> M] :
        \A i, j \in 1..Cardinality(M) : i < j => q[i] > q[j]

\* Each that is not yet on it is put in front, in the order of first_mon.
add_active(s, M) == [s EXCEPT !.active = Descending(M \ ToSet(@)) \o @]

Put(s, M, to) ==
    [s EXCEPT !.where = [m \in Mon |-> IF m \in M THEN to ELSE @[m]]]

\* del_crt_rom from where it is, if anywhere, and add_crt_rom.
add_crt_rom(s, M, r) == Put(s, M, r)

free_crtKeepTag(s, M) == Put(s, M, "gone")
free_crt(s, M) == Put(del_active(s, M), M, "gone")

free_rom(s, R) == free_crt(s, {m \in Mon : s.where[m] \in R})

\* N: the permanent monsters whose time has come.
add_permcrt_rom(s, r, N) ==
    LET t == add_crt_rom(s, N, r)
    IN IF Occupied(s, r) THEN add_active(t, N) ELSE t

add_ply_rom(s, p, r, N) ==
    LET t == add_permcrt_rom(s, r, N)
        u == [t EXCEPT !.at[p] = r]
    IN IF Occupied(s, r) THEN u ELSE add_active(u, In(u, r))

del_ply_rom(s, p) ==
    LET t == [s EXCEPT !.at[p] = Nil]
    IN IF Occupied(t, s.at[p]) THEN t ELSE del_active(t, In(t, s.at[p]))

Enter(s, p, r, N) == add_ply_rom(del_ply_rom(s, p), p, r, N)

\* load_rom of r may drive empty rooms out of memory.
Loaded(s, r) ==
    {free_rom(s, R) : R \in SUBSET {q \in Room \ {r} : ~Occupied(s, q)}}

\* The states after p has gone to r.
Goes(s, p, r) ==
    {Enter(t, p, r, N) : t \in Loaded(s, r), N \in SUBSET Unborn(s)}

FollowAsleep(s, F, r) == add_crt_rom(s, F, r)
\* Monsters that follow a player, and porters.
Follow(s, F, r) == add_active(add_crt_rom(s, F, r), F)

\* The alarm in room r loads room g and calls its guards.
Alarm(s, r, g) ==
    LET Called(t, G) ==
            add_crt_rom(IF Occupied(t, g) THEN t ELSE add_active(t, G), G, r)
        Guarded == {add_permcrt_rom(t, g, N) : t \in Loaded(s, g), N \in SUBSET Unborn(s)}
    IN UNION {{Called(t, G) : G \in SUBSET In(t, g)} : t \in Guarded}

\* A dungeon master takes the monster he possesses along, before himself.
WithAlias(s, p, r) == {s} \cup {add_crt_rom(s, {m}, r) : m \in In(s, s.at[p])}

\* What a trap may do to player p's whereabouts: nothing, a fall, an alarm.
check_traps(s, p) ==
    {s} \cup (UNION {Goes(s, p, r) : r \in Room})
        \cup (UNION {Alarm(s, s.at[p], g) : g \in Room})

-----------------------------------------------------------------------------
(* Between passes: players.                                                *)

Idle == cp = Nil /\ UNCHANGED <<cp, acted>>

\* init_ply.
Login(p, r) ==
    /\ Idle
    /\ at[p] = Nil
    /\ \E N \in SUBSET Unborn(Now) : Becomes(add_ply_rom(Now, p, r, N), {})

\* uninit_ply.
Quit(p) ==
    /\ Idle
    /\ at[p] # Nil
    /\ Becomes(del_ply_rom(Now, p), {})

\* move, go, flee, and the spells and commands that move a player.
\* Monsters he fights may follow; then the traps of the new room are checked.
Move(p, r) ==
    /\ Idle
    /\ at[p] # Nil
    /\ LET Went == UNION {{Follow(t, F, r) : t \in Goes(s, p, r), F \in SUBSET In(s, at[p])} :
                            s \in WithAlias(Now, p, r)}
       IN \E t \in Went : \E u \in check_traps(t, p) : Becomes(u, {})

-----------------------------------------------------------------------------
(* Between passes: monsters.                                               *)

\* update_random, dm_create_crt, conjure.
Arrive(m, r) ==
    /\ Idle
    /\ m \in Unborn(Now) /\ Occupied(Now, r)
    /\ Becomes(add_active(add_crt_rom(Now, {m}, r), {m}), {})

\* dm_add_crt, the clay form.
AddClayForm(m, r) ==
    /\ Idle
    /\ m \in Unborn(Now) /\ Occupied(Now, r)
    /\ Becomes(add_crt_rom(Now, {m}, r), {m})

\* Killed by a player, or bribed; or its talk or its sale ends with CRT_EXITS,
\* and then nobody frees it.
Killed(m) ==
    /\ Idle
    /\ where[m] \in Room /\ Occupied(Now, where[m])
    /\ Becomes(free_crt(Now, {m}), {})

\* dm_purge.
Purge(r) ==
    /\ Idle
    /\ Occupied(Now, r)
    /\ Becomes(free_crt(Now, In(Now, r)), {})

\* check_for_flee, under a player's attack.
Flees(m, r) ==
    /\ Idle
    /\ where[m] \in Room /\ Occupied(Now, where[m])
    /\ Becomes(add_crt_rom(Now, {m}, r), {})

\* load_rom of a room, with the monsters M of its file, that drives others
\* out of memory.
LoadRoom(r, M, R) ==
    /\ Idle
    /\ M \subseteq Unborn(Now)
    /\ \A q \in R \cup {r} : ~Occupied(Now, q)
    /\ In(Now, r) = {} /\ r \notin R
    /\ Becomes(add_crt_rom(free_rom(Now, R), M, r), {})

\* reload_rom: with monsters in the file (M) or due (N), those in memory go.
ReloadRoom(r, M, N) ==
    /\ Idle
    /\ M \cup N \subseteq Unborn(Now) /\ M \cap N = {}
    /\ LET s == IF M \cup N = {} THEN Now ELSE free_rom(Now, {r})
       IN Becomes(add_permcrt_rom(add_crt_rom(s, M, r), r, N),
                  IF Occupied(Now, r) THEN M ELSE {})

-----------------------------------------------------------------------------
(* update_active.                                                          *)

First(s) == IF s.active = <<>> THEN Nil ELSE Head(s.active)

\* cp->next_tag, in the tag that s still has or has freed.
NextTag(s, c) ==
    IF ~ \E i \in DOMAIN s.active : s.active[i] = c THEN Freed
    ELSE LET i == CHOOSE i \in DOMAIN s.active : s.active[i] = c
         IN IF i = Len(s.active) THEN Nil ELSE s.active[i + 1]

GoesOnUnmarked(c, S) ==
    /\ cp' = c
    /\ acted' = IF c = Nil THEN {} ELSE acted
\* The cursor goes on at c; the monsters in S have acted.
GoesOn(c, S) ==
    /\ cp' = c
    /\ acted' = IF c = Nil THEN {} ELSE acted \cup S

StartPass ==
    /\ cp = Nil
    /\ active # <<>>
    /\ cp' = Head(active)
    /\ acted' \in SUBSET ToSet(active)
    /\ UNCHANGED <<where, at, active, torpid>>

\* The list without a monster nobody sees.
Delist(s, c) == del_active(s, {c})

\* No players in the room.
NobodyThere ==
    /\ cp \in Mon
    /\ ~Occupied(Now, where[cp])
    /\ LET s == Delist(Now, cp)
       IN Becomes(s, {}) /\ GoesOn(First(s), {})

NotDue ==
    /\ cp \in acted
    /\ Occupied(Now, where[cp])
    /\ GoesOn(NextTag(Now, cp), {})
    /\ UNCHANGED <<where, at, active, torpid>>

Due ==
    /\ cp \in Mon \ acted
    /\ Occupied(Now, where[cp])

\* It steals, picks something up, gets angry, or does nothing.
Loiter ==
    /\ Due
    /\ GoesOn(NextTag(Now, cp), {cp})
    /\ UNCHANGED <<where, at, active, torpid>>

\* mobile_crt.
Wander ==
    /\ Due
    /\ \E r \in Room : Becomes(add_crt_rom(Now, {cp}, r), {})
    /\ GoesOn(NextTag(Now, cp), {cp})

\* It "just decided to leave".
Leave ==
    /\ Due
    /\ LET s == free_crt(Now, {cp})
       IN Becomes(s, {}) /\ GoesOn(First(s), {cp})

\* The fight may have driven it into another room already (check_for_flee).
Driven == {Now} \cup {add_crt_rom(Now, {cp}, r) : r \in Room}

\* The states after s in which update_combat returns 1: a miss, a death, a
\* player who flees.  The dead player has left his room when Limbo is loaded.
Decided(s) ==
    LET here == {p \in Player : at[p] = where[cp]}
        Fled(p) == UNION {UNION {Goes(t, p, r) : t \in WithAlias(s, p, r)} : r \in Room}
    IN {s}
       \cup {free_crt(s, {m}) : m \in In(Now, where[cp])}
       \cup (UNION {{add_ply_rom(t, p, Limbo, {}) : t \in Loaded(del_ply_rom(s, p), Limbo)} :
                    p \in here})
       \cup (UNION {UNION {check_traps(t, p) : t \in Fled(p)} : p \in here})

\* update_combat returns 1: from the top.
CombatDecided ==
    /\ Due
    /\ \E s \in Driven : \E t \in Decided(s) :
         Becomes(t, {}) /\ GoesOn(First(t), {cp})

\* update_combat returns 0.
CombatGoesOn ==
    /\ Due
    /\ \E s \in Driven : Becomes(s, {}) /\ GoesOn(NextTag(s, cp), {cp})

\* It casts teleport on a player of its room.  Rooms may be driven out of
\* memory while a destination is looked for.  update_combat returns 0, or 1
\* for a miss that follows all the same.
CastTeleport ==
    /\ Due
    /\ \E p \in Player, r \in Room :
         /\ at[p] = where[cp]
         /\ \E s \in Goes(Now, p, r) :
              LET left == del_ply_rom(Now, p)
                  next == IF cp \in ToSet(left.active) THEN NextTag(s, cp) ELSE Freed
              IN /\ Becomes(s, {})
                 /\ \E c \in {next, First(s)} : GoesOn(c, {cp})

\* What a freed tag holds is not defined: the pass ends, it goes on
\* somewhere, or the process dies.
AnyTag ==
    /\ cp = Freed
    /\ \E c \in ToSet(active) \cup {Nil} : GoesOn(c, {})
    /\ UNCHANGED <<where, at, active, torpid>>

\* The process ends and is started again.
ActiveCrash ==
    /\ where' = [m \in Mon |-> IF where[m] = "unborn" THEN "unborn" ELSE "gone"]
    /\ at' = [p \in Player |-> Nil]
    /\ active' = <<>>
    /\ cp' = Nil
    /\ acted' = {}
    /\ torpid' = {}

-----------------------------------------------------------------------------
Pass ==
    \/ NobodyThere \/ NotDue \/ Loiter \/ Wander \/ Leave
    \/ CombatDecided \/ CombatGoesOn \/ CastTeleport \/ AnyTag

ActiveNext ==
    \/ \E p \in Player, r \in Room : Login(p, r) \/ Move(p, r)
    \/ \E p \in Player : Quit(p)
    \/ \E m \in Mon, r \in Room : Arrive(m, r) \/ AddClayForm(m, r) \/ Flees(m, r)
    \/ \E m \in Mon : Killed(m)
    \/ \E r \in Room : Purge(r)
    \/ \E r \in Room, M \in SUBSET Mon :
         \/ \E R \in SUBSET Room : LoadRoom(r, M, R)
         \/ \E N \in SUBSET Mon : ReloadRoom(r, M, N)
    \/ StartPass \/ Pass
    \/ ActiveCrash

ActiveSpec == ActiveInit /\ [][ActiveNext]_activevars

\* A pass that runs goes on: WF_activevars(Pass), in a form TLC need not search the
\* disjuncts of Pass for. Pass is enabled just when cp # Nil, and then any step
\* is one of Pass or an ActiveCrash, which sets cp to Nil.
PassGoesOn == []<>(cp = Nil) \/ []<><<cp # Nil>>_activevars

\* update_game starts a pass every second, and a pass never blocks.
FairSpec == ActiveSpec /\ WF_activevars(StartPass) /\ PassGoesOn

-----------------------------------------------------------------------------
(* Properties.                                                             *)

\* However monsters die, leave, follow and are driven out of memory, those on
\* the list are alive, in a room, and on it once: update_active reads
\* parent_rom of each.
ActiveSound ==
    /\ ActiveTypeOK
    /\ \A m \in ToSet(active) : where[m] \in Room
    /\ IsInjective(active)

\* A monster in a room with players is on the list and so gets its turn, but
\* for what was made or reloaded in front of them.
SeenIsActive ==
    \A m \in Mon \ torpid :
        where[m] \in Room /\ Occupied(Now, where[m]) => m \in ToSet(active)

\* update_active goes back to the top of the list after each death and each
\* decided fight, and comes to its end all the same.
PassEnds == cp # Nil ~> cp = Nil

=============================================================================
