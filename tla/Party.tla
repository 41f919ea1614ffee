-------------------------------- MODULE Party --------------------------------
(***************************************************************************)
(* Who follows whom: follow and lose, a group that moves (command6.c),     *)
(* players who leave (uninit_ply in player.c, disconnect in io.c) and      *)
(* monsters that a dungeon master possesses, loses, purges or saves        *)
(* (dm6.c, dm1.c, dm7.c) or that die, are bribed or unloaded under him     *)
(* (Creature.c, command9.c, files2.c).                                     *)
(*                                                                         *)
(* following is a pointer, first_fol the list that must agree with it.     *)
(* Doors, levels, falls, weight and full rooms decide only whether         *)
(* somebody may go, which is a choice.  A group moves by recursion: walk   *)
(* is the stack of the calls of move (or go).                              *)
(***************************************************************************)
EXTENDS Integers, Sequences, SequencesExt, FiniteSets

CONSTANTS
    Player,
    DM,         \* those of class CARETAKER and above
    Monster,    \* that are not permanent
    Room,
    MaxTags,    \* bound: tags in a list when a monster is possessed
    none

ASSUME PartyAssumption ==
    /\ DM \subseteq Player
    /\ Player \cap Monster = {}
    /\ none \notin Player \cup Monster \cup Room
    /\ MaxTags \in Nat

Creature == Player \cup Monster

VARIABLES
    playing,
    parent_rom,   \* of players and monsters, none when not in the game
    following,
    first_fol,
    alias_crt,    \* with PALIAS
    MDMFOL,       \* the monsters with this flag
    walk,         \* the calls of move that have not returned, innermost first
    old_rom,      \* the room and
    new_rom,      \* the exit they were all called with
    server        \* "up"; "crashed" on a null pointer; "wild" when a list
                  \* names freed memory, which the next walk over it reads,
                  \* or two rooms list one monster

vars == <<playing, parent_rom, following, first_fol, alias_crt, MDMFOL,
          walk, old_rom, new_rom, server>>
follow_vars == <<following, first_fol>>
alias_vars == <<alias_crt, MDMFOL>>
walk_vars == <<walk, old_rom, new_rom>>

Alive == {m \in Monster : parent_rom[m] # none}

TypeOK ==
    /\ playing \subseteq Player
    /\ parent_rom \in [Creature -> Room \cup {none}]
    /\ \A p \in Player : p \in playing <=> parent_rom[p] # none
    /\ following \in [Creature -> Player \cup {none}]
    /\ DOMAIN first_fol = Player
    /\ \A p \in Player : first_fol[p] \in Seq(Creature)
    /\ alias_crt \in [Player -> Monster \cup {none}]
    /\ MDMFOL \subseteq Monster
    /\ walk \in Seq([who : Player, cp : Seq(Creature)])
    /\ {old_rom, new_rom} \subseteq Room \cup {none}
    /\ server \in {"up", "crashed", "wild"}

Init ==
    /\ playing = {}
    /\ parent_rom = [c \in Creature |-> none]
    /\ following = [c \in Creature |-> none]
    /\ first_fol = [p \in Player |-> <<>>]
    /\ alias_crt = [p \in Player |-> none]
    /\ MDMFOL = {}
    /\ walk = <<>>
    /\ old_rom = none /\ new_rom = none
    /\ server = "up"

\* Between two commands.
Idle == server = "up" /\ walk = <<>>

Crash ==
    /\ server' = "crashed"
    /\ UNCHANGED <<playing, parent_rom, follow_vars, alias_vars, walk_vars>>

-----------------------------------------------------------------------------
(* The lists.  The loop that takes a tag out stops at the first that       *)
(* matches.  It reads the first tag without a look whether there is one;   *)
(* for players there always is (FollowAgrees), for monsters Crash stands   *)
(* for that case.                                                          *)

Without(l, c) ==
    IF \E i \in DOMAIN l : l[i] = c
    THEN RemoveAt(l, CHOOSE i \in DOMAIN l : l[i] = c /\ \A j \in 1..i - 1 : l[j] # c)
    ELSE l

Named(fol, alias) == UNION {ToSet(fol[p]) \cup {alias[p]} : p \in Player}

\* Monster m is freed, and the lists are as given.
Freed(m, fol, alias) ==
    /\ parent_rom' = [parent_rom EXCEPT ![m] = none]
    /\ first_fol' = fol
    /\ alias_crt' = alias
    /\ MDMFOL' = MDMFOL \ {m}
    /\ server' = IF m \in Named(fol, alias) THEN "wild" ELSE "up"
    /\ UNCHANGED <<playing, walk_vars>>

-----------------------------------------------------------------------------
(* Players come and go.                                                    *)

init_ply(p, r) ==
    /\ Idle /\ p \notin playing
    /\ playing' = playing \cup {p}
    /\ parent_rom' = [parent_rom EXCEPT ![p] = r]
    /\ UNCHANGED <<follow_vars, alias_vars, walk_vars, server>>

\* del_ply_rom, and the slot is empty.
Gone(p) == playing' = playing \ {p} /\ parent_rom' = [parent_rom EXCEPT ![p] = none]

\* The lists once p has left his leader.
LeftBehind(p) == first_fol
Left(p) ==
    [q \in Player |-> IF q = following[p] THEN Without(first_fol[q], p) ELSE first_fol[q]]

\* His followers stop following, and he leaves the list of his leader.
uninit_ply(p) ==
    /\ following' =
         [c \in Creature |-> IF c = p \/ c \in ToSet(first_fol[p]) THEN none ELSE following[c]]
    /\ first_fol' = [Left(p) EXCEPT ![p] = <<>>]

disconnect(p) ==
    /\ Idle /\ p \in playing
    /\ Gone(p)
    /\ MDMFOL' = MDMFOL \ {alias_crt[p]}
    /\ alias_crt' = [alias_crt EXCEPT ![p] = none]
    /\ uninit_ply(p)
    /\ UNCHANGED <<walk_vars, server>>

-----------------------------------------------------------------------------
(* follow and lose.                                                        *)

\* p follows q, or, with p = q, nobody any more.
follow(p, q) ==
    /\ Idle /\ {p, q} \subseteq playing /\ parent_rom[p] = parent_rom[q]
    /\ p = q => following[p] # none
    /\ following[q] # p
    /\ IF p = q
       THEN following' = [following EXCEPT ![p] = none] /\ first_fol' = Left(p)
       ELSE /\ following' = [following EXCEPT ![p] = q]
            /\ first_fol' = [Left(p) EXCEPT ![q] = <<p>> \o @]
    /\ UNCHANGED <<playing, parent_rom, alias_vars, walk_vars, server>>

\* p leaves his leader, or loses c who follows him, a possessed monster
\* included: its flag and the pointer alias_crt stay.
loseLeader(p) ==
    /\ Idle /\ p \in playing /\ following[p] # none
    /\ first_fol' = Left(p)
    /\ following' = [following EXCEPT ![p] = none]
    /\ UNCHANGED <<playing, parent_rom, alias_vars, walk_vars, server>>

lose(p, c) ==
    /\ Idle /\ p \in playing
    /\ c \in ToSet(first_fol[p]) /\ following[c] = p
    /\ first_fol' = [first_fol EXCEPT ![p] = Without(@, c)]
    /\ following' = [following EXCEPT ![c] = none]
    /\ UNCHANGED <<playing, parent_rom, alias_vars, walk_vars, server>>

-----------------------------------------------------------------------------
(* Ways from room to room.                                                 *)

\* The possessed monster is taken along from the list of the room its
\* possessor is in.  When it is somewhere else the loop over that list finds
\* nothing, or reads the first tag of an empty list, and the monster is then
\* in the lists of two rooms.
AliasAt(p, r) ==
    LET m == alias_crt[p]
    IN CASE m = none -> parent_rom' = [parent_rom EXCEPT ![p] = r] /\ server' = "up"
         [] m # none /\ parent_rom[m] = parent_rom[p] ->
              parent_rom' = [parent_rom EXCEPT ![p] = r, ![m] = r] /\ server' = "up"
         [] OTHER ->
              parent_rom' = parent_rom
              /\ server' = IF \E n \in Monster : parent_rom[n] = parent_rom[p]
                           THEN "wild" ELSE "crashed"

\* One call of move or go gets past its conditions, of which one is that the
\* exit leads to another room.
GoesTo(p, from, r, calls) ==
    /\ r # from
    /\ AliasAt(p, r)
    /\ walk' = <<[who |-> p, cp |-> first_fol[p]]>> \o calls
    /\ UNCHANGED <<playing, follow_vars, alias_vars>>

move(p, r) ==
    /\ Idle /\ p \in playing
    /\ old_rom' = parent_rom[p] /\ new_rom' = r
    /\ GoesTo(p, parent_rom[p], r, <<>>)

\* The loop of move over the followers; a monster in the list is skipped.
Rest == <<[Head(walk) EXCEPT !.cp = Tail(@)]>> \o Tail(walk)

ComesAlongAnyhow(c) == c \in Player
ComesAlong(c) == c \in Player /\ parent_rom[c] = old_rom

NextFollower ==
    /\ server = "up" /\ walk # <<>> /\ Head(walk).cp # <<>>
    /\ UNCHANGED <<old_rom, new_rom>>
    /\ LET c == Head(Head(walk).cp)
       IN \/ ComesAlong(c) /\ GoesTo(c, old_rom, new_rom, Rest)
          \* He may not go, or falls to his death.
          \/ /\ ComesAlong(c)
             /\ walk' = Rest
             /\ \E r \in Room : parent_rom' = [parent_rom EXCEPT ![c] = r]
             /\ UNCHANGED <<playing, follow_vars, alias_vars, server>>
          \/ /\ ~ComesAlong(c)
             /\ walk' = Rest
             /\ UNCHANGED <<playing, parent_rom, follow_vars, alias_vars, server>>

\* The end of one call; check_traps may take the player somewhere else.
Arrived ==
    /\ server = "up" /\ walk # <<>> /\ Head(walk).cp = <<>>
    /\ walk' = Tail(walk)
    /\ IF walk' = <<>> THEN old_rom' = none /\ new_rom' = none
                       ELSE UNCHANGED <<old_rom, new_rom>>
    /\ \E r \in Room : parent_rom' = [parent_rom EXCEPT ![Head(walk).who] = r]
    /\ UNCHANGED <<playing, follow_vars, alias_vars, server>>

\* flee and the teleport of a dungeon master: nobody comes along but the alias.
flee(p, r) ==
    /\ Idle /\ p \in playing
    /\ AliasAt(p, r)
    /\ UNCHANGED <<playing, follow_vars, alias_vars, walk_vars>>

\* Teleport and recall, a summons, a death: the alias stays behind.
Whisked(p, r) ==
    /\ Idle /\ p \in playing
    /\ parent_rom' = [parent_rom EXCEPT ![p] = r]
    /\ UNCHANGED <<playing, follow_vars, alias_vars, walk_vars, server>>

-----------------------------------------------------------------------------
(* Monsters, and the dungeon masters who possess them.  What is done to    *)
(* all monsters of a room is done to one after the other.                  *)

\* A monster comes, from a file or by a copy.
Appear(m, r) ==
    /\ Idle /\ m \notin Alive
    /\ parent_rom' = [parent_rom EXCEPT ![m] = r]
    /\ following' = [following EXCEPT ![m] = none]
    /\ UNCHANGED <<playing, first_fol, alias_vars, walk_vars, server>>

MayPossessTaken(p, m) == alias_crt[p] = none
MayPossess(p, m) == m \notin MDMFOL /\ alias_crt[p] = none

Possess(p, m) ==
    /\ MayPossess(p, m)
    /\ Len(first_fol[p]) < MaxTags
    /\ following' = [following EXCEPT ![m] = p]
    /\ first_fol' = [first_fol EXCEPT ![p] = <<m>> \o @]
    /\ alias_crt' = [alias_crt EXCEPT ![p] = m]
    /\ MDMFOL' = MDMFOL \cup {m}
    /\ UNCHANGED <<playing, parent_rom, walk_vars, server>>

Release(p, m) ==
    /\ m \in MDMFOL /\ alias_crt[p] = m
    /\ IF first_fol[p] = <<>> THEN Crash
       ELSE /\ MDMFOL' = MDMFOL \ {m}
            /\ first_fol' = [first_fol EXCEPT ![p] = Without(@, m)]
            /\ following' = [following EXCEPT ![m] = none]
            /\ alias_crt' = [alias_crt EXCEPT ![p] = none]
            /\ UNCHANGED <<playing, parent_rom, walk_vars, server>>

dm_alias(p, m) ==
    /\ Idle /\ p \in playing \cap DM /\ m \in Alive
    /\ parent_rom[m] = parent_rom[p]
    /\ Possess(p, m) \/ Release(p, m)

\* It dies: a possessed monster that was lost has no leader to read, and the
\* list of a leader is read before it is looked at.
die(m) ==
    /\ Idle /\ m \in Alive
    /\ LET p == following[m]
       IN IF m \notin MDMFOL
          THEN Freed(m, first_fol, alias_crt) /\ UNCHANGED following
          ELSE IF p = none \/ (p # none /\ first_fol[p] = <<>>) THEN Crash
          ELSE /\ Freed(m, [first_fol EXCEPT ![p] = Without(@, m)],
                           [alias_crt EXCEPT ![p] = none])
               /\ following' = [following EXCEPT ![m] = none]

\* A bribe that is taken, and a room that is dropped from memory or read
\* again, free a monster with no look at who possesses it.
bribe(m) ==
    /\ Idle /\ m \in Alive
    /\ \E p \in playing : parent_rom[p] = parent_rom[m]
    /\ Freed(m, first_fol, alias_crt)
    /\ UNCHANGED following

free_rom(m) ==
    /\ Idle /\ m \in Alive
    /\ \A p \in playing : parent_rom[p] # parent_rom[m]
    /\ Freed(m, first_fol, alias_crt)
    /\ UNCHANGED following

\* Purged and saved monsters leave the list only if they are first in it: a
\* purge frees the tag that stays (the assignment is a comparison), and what
\* is saved stays in the game.
dm_purge(m) ==
    /\ Idle /\ m \in Alive
    /\ \E p \in playing \cap DM : parent_rom[p] = parent_rom[m]
    /\ UNCHANGED following
    /\ LET p == following[m]
           fol == [first_fol EXCEPT ![p] = IF Head(@) = m THEN Tail(@) ELSE @]
       IN IF m \notin MDMFOL THEN Freed(m, first_fol, alias_crt)
          ELSE IF p = none \/ (p # none /\ first_fol[p] = <<>>) THEN Crash
          ELSE Freed(m, fol, [alias_crt EXCEPT ![p] = none])

dm_save_crt(m) ==
    /\ Idle /\ m \in Alive \cap MDMFOL
    /\ \E p \in playing \cap DM : parent_rom[p] = parent_rom[m]
    /\ LET p == following[m]
       IN IF p = none \/ (p # none /\ first_fol[p] = <<>>) THEN Crash
          ELSE /\ MDMFOL' = MDMFOL \ {m}
               /\ alias_crt' = [alias_crt EXCEPT ![p] = none]
               /\ first_fol' = [first_fol EXCEPT ![p] = IF Head(@) = m THEN Tail(@) ELSE @]
               /\ UNCHANGED <<playing, parent_rom, following, walk_vars, server>>

-----------------------------------------------------------------------------
Next ==
    \/ \E p \in Player, r \in Room : init_ply(p, r) \/ move(p, r) \/ flee(p, r) \/ Whisked(p, r)
    \/ \E p \in Player : disconnect(p) \/ loseLeader(p)
    \/ \E p, q \in Player : follow(p, q)
    \/ \E p \in Player, c \in Creature : lose(p, c)
    \/ NextFollower \/ Arrived
    \/ \E m \in Monster, r \in Room : Appear(m, r)
    \/ \E p \in Player, m \in Monster : dm_alias(p, m)
    \/ \E m \in Monster : die(m) \/ bribe(m) \/ free_rom(m) \/ dm_purge(m) \/ dm_save_crt(m)

Spec == Init /\ [][Next]_vars

-----------------------------------------------------------------------------
(* Properties.                                                             *)

Times(c, p) == Cardinality({i \in DOMAIN first_fol[p] : first_fol[p][i] = c})

\* follow, lose and uninit_ply use a leader's first_fol without a look whether
\* it is empty: a player is in the list of his leader, once, and in no other,
\* and leaders are in the game.
FollowAgrees ==
    /\ TypeOK
    /\ \A c, p \in Player :
          /\ Times(c, p) = IF following[c] = p THEN 1 ELSE 0
          /\ following[c] = p => {c, p} \subseteq playing

\* Players can follow each other in a ring of three, by follow commands each
\* of which is allowed.  A group that moves still takes nobody along twice,
\* so move comes to an end.
WalkOnce ==
    \A i, j \in DOMAIN walk : i # j => walk[i].who # walk[j].who

\* A dungeon master's possessed monster is possessed by him alone, and it is
\* in his list unless he has lost it.
OnePossessor ==
    server = "up" =>
        \A p \in Player : alias_crt[p] # none =>
            LET m == alias_crt[p]
            IN /\ p \in playing /\ m \in Alive \cap MDMFOL
               /\ \A q \in Player \ {p} : alias_crt[q] # m
               /\ following[m] # none => following[m] = p /\ Times(m, p) >= 1

=============================================================================
