------------------------------- MODULE Effects -------------------------------
(***************************************************************************)
(* What levels and timed effects do to the attributes of the players in    *)
(* the game: up_level, down_level and update_ply (src/src/player.c),       *)
(* haste, pray and berserk (command9.c), super_strength and dispel         *)
(* (magic9.c), the blow that ends super-strength (combat.c), die           *)
(* (Creature.c), train (command10.c) and dm_advance (dm8.c).               *)
(*                                                                         *)
(* An effect is a flag, a timer and a bonus added to attributes: the flag  *)
(* tells the handler that ends it to take the bonus back.  Attributes are  *)
(* counted from what the character was made with.  A timer is reduced to   *)
(* whether it has run out and whether the ten minutes a second attempt has *)
(* to wait are over; dice, magic points and daily limits are choices.      *)
(* Effects that change no attribute are left out, and so are the dungeon   *)
(* masters' set and possess, which write any value into an attribute.      *)
(***************************************************************************)
EXTENDS Integers, FiniteSets, TLC

CONSTANTS
    Player,
    class,          \* the class of each player
    MaxLevel,       \* bound: highest level explored, of each player
    MaxSpoilt,      \* bound: attributes that go wrong in a behaviour
    BerserkLevel    \* 7 in the code

VARIABLES
    on,       \* the flags of each player
    over,     \* timers that have run out: t > LT(p, k)
    rested,   \* timers of attempts set at least 600 seconds ago
    level,
    attr,     \* strength, dexterity, ..., less the value at creation
    spoilt    \* history: attributes an effect has not been taken back from,
              \* or taken back from twice

vars == <<on, over, rested, level, attr, spoilt>>

Attr == {"STR", "DEX", "CON", "INT", "PTY"}
Effect == {"PHASTE", "PBERSK", "PPRAYD", "PSTRNG"}
LT == [PHASTE |-> "LT_HASTE", PBERSK |-> "LT_HASTE",
       PPRAYD |-> "LT_PRAYD", PSTRNG |-> "LT_STRNG"]
Timer == {LT[e] : e \in Effect}
Attempted == {"LT_HASTE", "LT_PRAYD"}

level_cycle ==
    [CLERIC    |-> <<"INT", "CON", "PTY", "STR", "CON", "PTY", "INT", "STR", "PTY", "DEX">>,
     RANGER    |-> <<"CON", "STR", "DEX", "INT", "PTY", "STR", "DEX", "INT", "CON", "PTY">>,
     BARBARIAN |-> <<"CON", "DEX", "STR", "PTY", "CON", "STR", "DEX", "PTY", "STR", "INT">>,
     MONK      |-> <<"STR", "CON", "DEX", "PTY", "STR", "DEX", "PTY", "CON", "DEX", "INT">>]

\* The table has no row for the staff: what is read there names no attribute.
Cycle(c, i) == IF c \in DOMAIN level_cycle THEN level_cycle[c][i + 1] ELSE "none"

ASSUME EffectsAssumption ==
    /\ IsFiniteSet(Player)
    /\ class \in [Player -> DOMAIN level_cycle \cup {"CARETAKER", "DM"}]
    /\ MaxLevel \in [Player -> Nat \ {0}]
    /\ BerserkLevel \in Nat /\ MaxSpoilt \in Nat

TypeOK ==
    /\ on \in [Player -> SUBSET Effect]
    /\ over \in [Player -> SUBSET Timer]
    /\ rested \in [Player -> SUBSET Attempted]
    /\ DOMAIN level = Player /\ \A p \in Player : level[p] \in 1..MaxLevel[p]
    /\ attr \in [Player -> [Attr -> Int]]
    /\ spoilt \in [Player -> SUBSET Attr]

\* A new character: create_ply has called up_level once.
Init ==
    /\ on = [p \in Player |-> {}]
    /\ over = [p \in Player |-> Timer]
    /\ rested = [p \in Player |-> Attempted]
    /\ level = [p \in Player |-> 1]
    /\ attr = [p \in Player |-> [a \in Attr |-> 0]]
    /\ spoilt = [p \in Player |-> {}]

-----------------------------------------------------------------------------
(* Operators on a character c, a record of its flags, level and            *)
(* attributes.  The variants are slips a change of the code could make; no *)
(* action uses them.                                                       *)

Staff(p) == class[p] \in {"CARETAKER", "DM"}

Char(p) == [on |-> on[p], level |-> level[p], attr |-> attr[p]]

Becomes(p, c) ==
    /\ on' = [on EXCEPT ![p] = c.on]
    /\ level' = [level EXCEPT ![p] = c.level]
    /\ attr' = [attr EXCEPT ![p] = c.attr]

Add(c, S, n) == [c EXCEPT !.attr = [a \in Attr |-> IF a \in S THEN @[a] + n ELSE @[a]]]

\* What effect e gives a character of class k to attribute a.
Bonus(k, e, a) ==
    CASE e = "PHASTE" /\ a = "DEX" -> 5
      [] e = "PBERSK" /\ a = "DEX" -> 5
      [] e = "PBERSK" /\ a = "STR" -> 3
      [] e = "PPRAYD" /\ a = "PTY" -> IF k = "CLERIC" THEN 6 ELSE 5
      [] e = "PSTRNG" /\ a = "STR" -> 5
      [] OTHER -> 0

Gain(c, k, e) ==
    [c EXCEPT !.on = @ \cup {e}, !.attr = [a \in Attr |-> @[a] + Bonus(k, e, a)]]
Lose(c, k, e) ==
    [c EXCEPT !.on = @ \ {e}, !.attr = [a \in Attr |-> @[a] - Bonus(k, e, a)]]

up_level(c, k) ==
    Add([c EXCEPT !.level = @ + 1], {Cycle(k, (c.level - 1) % 10)}, 1)

down_levelOldLevel(c, k) ==
    Add([c EXCEPT !.level = @ - 1], {Cycle(k, (c.level - 1) % 10)}, -1)
\* The index is taken after the level has gone down.
down_level(c, k) ==
    Add([c EXCEPT !.level = @ - 1], {Cycle(k, (c.level - 2) % 10)}, -1)

\* The loops that call up_level or down_level until level n is reached.
LevelPath(c, k, n) ==
    LET Down == c.level > n
        times == IF Down THEN c.level - n ELSE n - c.level
        step[i \in 0..times] ==
            IF i = 0 THEN c
            ELSE IF Down THEN down_level(step[i - 1], k) ELSE up_level(step[i - 1], k)
    IN step[times]

\* One test of update_ply: the effect ends when its timer has run out.
Lapse(c, k, e, out) ==
    IF e \in c.on /\ LT[e] \in out THEN Lose(c, k, e) ELSE c

update_plyElse(c, k, out) ==
    LET h == Lapse(c, k, "PHASTE", out)
        y == Lapse(h, k, "PPRAYD", out)
    IN IF "PBERSK" \in c.on THEN y ELSE Lapse(y, k, "PSTRNG", out)
\* In the order of the code.  When super-strength ends update_ply calls itself,
\* with no flag left that has run out.
update_ply(c, k, out) ==
    LET h == Lapse(c, k, "PHASTE", out)
        b == Lapse(h, k, "PBERSK", out)
        y == Lapse(b, k, "PPRAYD", out)
    IN Lapse(y, k, "PSTRNG", out)

-----------------------------------------------------------------------------
(* Time.                                                                   *)

RunOut(p, k) ==
    /\ k \notin over[p]
    /\ over' = [over EXCEPT ![p] = @ \cup {k}]
    /\ UNCHANGED <<on, rested, level, attr, spoilt>>

Rest(p, k) ==
    /\ k \notin rested[p]
    /\ rested' = [rested EXCEPT ![p] = @ \cup {k}]
    /\ UNCHANGED <<on, over, level, attr, spoilt>>

\* update_users, every 20 seconds; it passes by the dungeon masters.
update_users(p) ==
    /\ class[p] # "DM"
    /\ Becomes(p, update_ply(Char(p), class[p], over[p]))
    /\ UNCHANGED <<over, rested, spoilt>>

\* score, health, login and quit call update_ply as well.
Shown(p) ==
    /\ Becomes(p, update_ply(Char(p), class[p], over[p]))
    /\ UNCHANGED <<over, rested, spoilt>>

-----------------------------------------------------------------------------
(* Commands and spells.                                                    *)

Set(p, k) ==
    /\ over' = [over EXCEPT ![p] = @ \ {k}]
    /\ rested' = [rested EXCEPT ![p] = @ \ {k}]

\* An attempt: it takes effect, or may be repeated after ten seconds.
Attempt(p, e) ==
    /\ LT[e] \in rested[p]
    /\ UNCHANGED spoilt
    /\ \/ Becomes(p, Gain(Char(p), class[p], e)) /\ Set(p, LT[e])
       \/ /\ rested' = [rested EXCEPT ![p] = @ \ {LT[e]}]
          /\ UNCHANGED <<on, over, level, attr>>

haste(p) ==
    /\ class[p] = "RANGER" \/ Staff(p)
    /\ on[p] \cap {"PHASTE", "PBERSK", "PSTRNG"} = {}
    /\ Attempt(p, "PHASTE")

pray(p) ==
    /\ class[p] \in {"CLERIC", "MONK"} \/ Staff(p)
    /\ "PPRAYD" \notin on[p]
    /\ Attempt(p, "PPRAYD")

berserkHasted(p) ==
    /\ class[p] = "BARBARIAN" \/ Staff(p)
    /\ level[p] >= BerserkLevel
    /\ on[p] \cap {"PBERSK", "PSTRNG"} = {}
    /\ Attempt(p, "PBERSK")
berserk(p) ==
    /\ class[p] = "BARBARIAN" \/ Staff(p)
    /\ level[p] >= BerserkLevel
    /\ on[p] \cap {"PHASTE", "PBERSK", "PSTRNG"} = {}
    /\ Attempt(p, "PBERSK")

\* The attribute a of the players P goes wrong, within the bound.
Spoil(P, a) ==
    /\ \A p \in P : a \notin spoilt[p]
    /\ Cardinality({x \in Player \X Attr : x[2] \in spoilt[x[1]]} \cup P \X {a}) <= MaxSpoilt
    /\ spoilt' = [p \in Player |-> IF p \in P THEN spoilt[p] \cup {a} ELSE spoilt[p]]

\* The flag is set, the timer started, and the handler returns before it adds
\* the bonus: a potion past the daily limit, which is tested a second time, or
\* a spell cast on somebody who is berserk.
FlagOnly(q) ==
    /\ Becomes(q, [Char(q) EXCEPT !.on = @ \cup {"PSTRNG"}])
    /\ Set(q, "LT_STRNG")
    /\ Spoil({q}, "STR")

\* p on himself or on q.
super_strength(p, q) ==
    /\ on[p] \cap {"PSTRNG", "PBERSK"} = {}
    /\ "PSTRNG" \notin on[q]
    /\ \/ /\ Becomes(q, Gain(Char(q), class[q], "PSTRNG"))
          /\ Set(q, "LT_STRNG")
          /\ UNCHANGED spoilt
       \/ p = q /\ FlagOnly(q)
       \/ "PBERSK" \in on[q] /\ FlagOnly(q)

\* A dispel, by anybody, of what q is under: the bonus stays.
dispel(q) ==
    /\ Becomes(q, [Char(q) EXCEPT !.on = @ \ {"PSTRNG"}])
    /\ IF "PSTRNG" \in on[q] THEN Spoil({q}, "STR") ELSE UNCHANGED spoilt
    /\ UNCHANGED <<over, rested>>

\* A monster's hit may end it.
Fade(q) ==
    /\ "PSTRNG" \in on[q]
    /\ Becomes(q, Lose(Char(q), class[q], "PSTRNG"))
    /\ UNCHANGED <<over, rested, spoilt>>

-----------------------------------------------------------------------------
(* Levels and death.                                                       *)

train(p) ==
    /\ level[p] < MaxLevel[p]
    /\ Becomes(p, up_level(Char(p), class[p]))
    /\ UNCHANGED <<over, rested, spoilt>>

dm_advance(p, n) ==
    /\ n # level[p]
    /\ Becomes(p, LevelPath(Char(p), class[p], n))
    /\ UNCHANGED <<over, rested, spoilt>>

\* The dead loses levels down to n, then the bonuses: all but the dexterity of
\* a berserker.
Dead(p, n) ==
    LET c == LevelPath(Char(p), class[p], n)
        s == IF "PSTRNG" \in c.on THEN Lose(c, class[p], "PSTRNG") ELSE c
    IN IF "PBERSK" \in s.on
       THEN Add([s EXCEPT !.on = @ \ {"PBERSK"}], {"STR"}, -3)
       ELSE s

\* The dexterity is taken from ply_ptr, which die has not set: from nobody,
\* from another player, or from the dead himself.
die(p, n) ==
    /\ n <= level[p]
    /\ UNCHANGED <<over, rested>>
    /\ \/ "PBERSK" \notin on[p] /\ Becomes(p, Dead(p, n)) /\ UNCHANGED spoilt
       \/ "PBERSK" \in on[p] /\ Becomes(p, Dead(p, n)) /\ Spoil({p}, "DEX")
       \/ "PBERSK" \in on[p] /\ Becomes(p, Add(Dead(p, n), {"DEX"}, -5)) /\ UNCHANGED spoilt
       \/ \E q \in Player \ {p} :
            /\ "PBERSK" \in on[p]
            /\ LET c == Dead(p, n)
               IN /\ on' = [on EXCEPT ![p] = c.on]
                  /\ level' = [level EXCEPT ![p] = n]
                  /\ attr' = [attr EXCEPT ![p] = c.attr, ![q]["DEX"] = @ - 5]
            /\ Spoil({p, q}, "DEX")

-----------------------------------------------------------------------------
Next ==
    \/ \E p \in Player, k \in Timer : RunOut(p, k)
    \/ \E p \in Player, k \in Attempted : Rest(p, k)
    \/ \E p \in Player :
         \/ update_users(p) \/ Shown(p)
         \/ haste(p) \/ pray(p) \/ berserk(p)
         \/ \E q \in Player : super_strength(p, q)
         \/ dispel(p) \/ Fade(p) \/ train(p)
         \/ \E n \in 1..MaxLevel[p] : dm_advance(p, n) \/ die(p, n)

Spec == Init /\ [][Next]_vars

\* update_ply has nothing to do.
Served(p) == update_ply(Char(p), class[p], over[p]) = Char(p)

\* Time passes, and update_users serves every player in the game but the
\* dungeon masters: WF_vars(RunOut(p, k)) and WF_vars(update_users(p)), by the
\* states in which they are disabled, to which each of their steps leads.
FairSpec ==
    /\ Spec
    /\ \A p \in Player :
         /\ \A k \in Timer : []<>(k \in over[p])
         /\ class[p] # "DM" => []<>Served(p)

-----------------------------------------------------------------------------
(* Properties.                                                             *)

\* What levels have given: the attributes of the first level[p] - 1 steps of
\* the cycle.
Learnt(p, a) ==
    Cardinality({i \in 0..level[p] - 2 : Cycle(class[p], i % 10) = a})

Lent(p, a) ==
    LET By(e) == IF e \in on[p] THEN Bonus(class[p], e, a) ELSE 0
    IN By("PHASTE") + By("PBERSK") + By("PPRAYD") + By("PSTRNG")

\* However effects, levels, deaths and blows follow each other, an attribute
\* is what the character was made with, what its level gives and what the
\* effects it is under lend: each bonus is taken back once.  Attributes that
\* dispel, a potion past its limit, a spell on a berserker or the death of a
\* berserker have spoilt are exempt: there the code does not keep to it.
Balanced ==
    /\ TypeOK
    /\ \A p \in Player : \A a \in Attr \ spoilt[p] :
          attr[p][a] = Learnt(p, a) + Lent(p, a)

\* Haste and berserk share a timer, super-strength is cast by others: the end
\* of an effect that lasts is never put off by starting another.
NotPutOff ==
    [][\A p \in Player : \A e \in Effect :
           e \in on[p] /\ e \in on'[p] /\ LT[e] \in over[p] => LT[e] \in over'[p]]_vars

\* Every effect on a player that update_users serves comes to its end.
EffectsEnd ==
    \A p \in Player : \A e \in Effect :
        (class[p] # "DM" /\ e \in on[p]) ~> e \notin on[p]

=============================================================================
