---------------------------- MODULE EffectsProofs -----------------------------
(***************************************************************************)
(* The end of an effect that lasts is never put off by starting another    *)
(* (NotPutOff), and every attribute is what its level gave and what the    *)
(* effects that are on lend (Balanced), for any players, classes and       *)
(* levels.                                                                 *)
(*                                                                         *)
(* A timer is started again only by the handlers of the effects that use   *)
(* it, and each of them refuses while one of these effects lasts; PHASTE   *)
(* and PBERSK are the two that share one. For that all there is to know of *)
(* the state is that everybody has timers.                                 *)
(*                                                                         *)
(* Balanced is inductive. Due says it of one player's record, with what    *)
(* the levels gave as the size of a set of levels, to which a level adds   *)
(* one element. Training, advancing and dying climb or fall many levels in *)
(* one handler; these are taken by induction on the levels passed.         *)
(***************************************************************************)
EXTENDS Effects, FiniteSetTheorems, WellFoundedInduction, TLAPS

Timed == DOMAIN over = Player

\* What NotPutOff says of a step.
Punctual ==
    \A p \in Player : \A e \in Effect :
        e \in on[p] /\ e \in on'[p] /\ LT[e] \in over[p] => LT[e] \in over'[p]

-----------------------------------------------------------------------------

\* Haste and berserk are the only effects that share a timer.
LEMMA Timers ==
    \A e \in Effect :
        /\ LT[e] = "LT_HASTE" => e \in {"PHASTE", "PBERSK"}
        /\ LT[e] = "LT_PRAYD" => e = "PPRAYD"
        /\ LT[e] = "LT_STRNG" => e = "PSTRNG"
  BY DEF Effect, LT

\* Haste and berserk share a timer, prayer has its own.
LEMMA OwnTimer ==
    /\ LT["PHASTE"] = "LT_HASTE" /\ LT["PBERSK"] = "LT_HASTE"
    /\ LT["PPRAYD"] = "LT_PRAYD"
  BY DEF Effect, LT

\* A timer may be set when no effect that uses it lasts.
LEMMA SetStep ==
    ASSUME Timed, NEW q \in Player, NEW k,
           \A e \in Effect : LT[e] = k => e \notin on[q],
           Set(q, k) \/ over' = over
    PROVE  Timed' /\ Punctual
<1>1. CASE over' = over
  BY <1>1 DEF Timed, Punctual
<1>2. CASE Set(q, k)
  <2>1. DOMAIN over' = Player
    BY <1>2 DEF Set, Timed
  <2>2. \A p \in Player : over'[p] = IF p = q THEN over[p] \ {k} ELSE over[p]
    BY <1>2 DEF Set, Timed
  <2> QED BY <2>1, <2>2 DEF Timed, Punctual
<1> QED BY <1>1, <1>2

\* An attempt sets the timer of its effect or none.
LEMMA AttemptStep ==
    ASSUME Timed, NEW p \in Player, haste(p) \/ pray(p) \/ berserk(p)
    PROVE  Timed' /\ Punctual
<1>1. ASSUME haste(p) PROVE Timed' /\ Punctual
  <2>1. \A e \in Effect : LT[e] = "LT_HASTE" => e \notin on[p]
    BY <1>1, Timers DEF haste
  <2>2. Set(p, "LT_HASTE") \/ over' = over
    BY <1>1, OwnTimer DEF haste, Attempt
  <2> QED BY <2>1, <2>2, SetStep
<1>2. ASSUME pray(p) PROVE Timed' /\ Punctual
  <2>1. \A e \in Effect : LT[e] = "LT_PRAYD" => e \notin on[p]
    BY <1>2, Timers DEF pray
  <2>2. Set(p, "LT_PRAYD") \/ over' = over
    BY <1>2, OwnTimer DEF pray, Attempt
  <2> QED BY <2>1, <2>2, SetStep
<1>3. ASSUME berserk(p) PROVE Timed' /\ Punctual
  <2>1. \A e \in Effect : LT[e] = "LT_HASTE" => e \notin on[p]
    BY <1>3, Timers DEF berserk
  <2>2. Set(p, "LT_HASTE") \/ over' = over
    BY <1>3, OwnTimer DEF berserk, Attempt
  <2> QED BY <2>1, <2>2, SetStep
<1> QED BY <1>1, <1>2, <1>3

\* Super-strength is not given to who has it, whoever casts it.
LEMMA StrengthStep ==
    ASSUME Timed, NEW p \in Player, NEW q \in Player, super_strength(p, q)
    PROVE  Timed' /\ Punctual
<1>1. \A e \in Effect : LT[e] = "LT_STRNG" => e \notin on[q]
  BY Timers DEF super_strength
<1>2. Set(q, "LT_STRNG")
  BY DEF super_strength, FlagOnly
<1> QED BY <1>1, <1>2, SetStep

\* A timer that runs out stays out.
LEMMA RunOutStep ==
    ASSUME Timed, NEW p \in Player, NEW k, RunOut(p, k) PROVE Timed' /\ Punctual
<1>1. DOMAIN over' = Player
  BY DEF RunOut, Timed
<1>2. \A q \in Player : over[q] \subseteq over'[q]
  BY DEF RunOut, Timed
<1> QED BY <1>1, <1>2 DEF Timed, Punctual

\* Everything else leaves the timers alone.
LEMMA NextPunctual == Timed /\ [Next]_vars => Timed' /\ Punctual
<1> SUFFICES ASSUME Timed, [Next]_vars PROVE Timed' /\ Punctual
  OBVIOUS
<1>1. ASSUME over' = over PROVE Timed' /\ Punctual
  BY <1>1 DEF Timed, Punctual
<1>2. ASSUME NEW p \in Player,
             \/ \E k \in Attempted : Rest(p, k)
             \/ update_users(p) \/ Shown(p) \/ dispel(p) \/ Fade(p) \/ train(p)
             \/ \E n \in 1..MaxLevel[p] : dm_advance(p, n) \/ die(p, n)
      PROVE  over' = over
  BY <1>2 DEF Rest, update_users, Shown, dispel, Fade, train, dm_advance, die
<1>3. CASE UNCHANGED vars
  BY <1>1, <1>3 DEF vars
<1> QED BY <1>1, <1>2, <1>3, AttemptStep, StrengthStep, RunOutStep DEF Next

\* The end of an effect that lasts is never put off by starting another.
THEOREM NeverPutOff == Spec => NotPutOff
<1>1. Init => Timed
  BY DEF Init, Timed
<1>2. Timed /\ [Next]_vars => Timed'
  BY NextPunctual
<1>3. Timed /\ [Next]_vars =>
        [\A p \in Player : \A e \in Effect :
            e \in on[p] /\ e \in on'[p] /\ LT[e] \in over[p] => LT[e] \in over'[p]]_vars
  BY NextPunctual DEF Punctual
<1> QED BY <1>1, <1>2, <1>3, PTL DEF Spec, NotPutOff

-----------------------------------------------------------------------------
(* What a character is due.                                                *)

Chars == [on : SUBSET Effect, level : Nat \ {0}, attr : [Attr -> Int]]

Gives(k, l, a) == Cardinality({i \in 0..l - 2 : Cycle(k, i % 10) = a})

Lends(k, o, a) ==
    LET By(e) == IF e \in o THEN Bonus(k, e, a) ELSE 0
    IN By("PHASTE") + By("PBERSK") + By("PPRAYD") + By("PSTRNG")

Due(k, c, a) == c.attr[a] = Gives(k, c.level, a) + Lends(k, c.on, a)

\* A bonus is a number.
LEMMA BonusType == \A k, e, a : Bonus(k, e, a) \in Int
  BY DEF Bonus

\* One level gives one step of the cycle.
LEMMA GivesNext ==
    ASSUME NEW k, NEW a, NEW l \in Nat \ {0}
    PROVE  /\ Gives(k, l, a) \in Int
           /\ Gives(k, l + 1, a) =
                Gives(k, l, a) + (IF Cycle(k, (l - 1) % 10) = a THEN 1 ELSE 0)
<1> DEFINE A == {i \in 0..l - 2 : Cycle(k, i % 10) = a}
           B == {i \in 0..l - 1 : Cycle(k, i % 10) = a}
<1>1. IsFiniteSet(0..l - 2)
  BY FS_Interval
<1>2. IsFiniteSet(A) /\ Cardinality(A) \in Int
  BY <1>1, FS_Subset, FS_CardinalityType
<1>3. B = IF Cycle(k, (l - 1) % 10) = a THEN A \cup {l - 1} ELSE A
  <2>1. 0..l - 1 = (0..l - 2) \cup {l - 1}
    OBVIOUS
  <2> DEFINE P(i) == Cycle(k, i % 10) = a
  <2>2. A = {i \in 0..l - 2 : P(i)} /\ B = {i \in 0..l - 1 : P(i)}
    OBVIOUS
  <2> HIDE DEF P, A, B
  <2>3. B = IF P(l - 1) THEN A \cup {l - 1} ELSE A
    BY <2>1, <2>2
  <2> QED BY <2>3 DEF P
<1>4. l - 1 \notin A
  OBVIOUS
<1>5. Gives(k, l, a) = Cardinality(A) /\ Gives(k, l + 1, a) = Cardinality(B)
  <2>1. (l + 1) - 2 = l - 1
    OBVIOUS
  <2> QED BY <2>1 DEF Gives
<1> HIDE DEF A, B
<1>6. Cardinality(A \cup {l - 1}) = Cardinality(A) + 1
  BY <1>2, <1>4, FS_AddElement
<1> QED BY <1>2, <1>3, <1>5, <1>6

\* An effect lends its bonus.
LEMMA LendsOne ==
    ASSUME NEW k, NEW a, NEW o, NEW e \in Effect
    PROVE  /\ Lends(k, o, a) \in Int
           /\ e \notin o => Lends(k, o \cup {e}, a) = Lends(k, o, a) + Bonus(k, e, a)
           /\ e \in o => Lends(k, o \ {e}, a) = Lends(k, o, a) - Bonus(k, e, a)
<1>1. /\ Bonus(k, "PHASTE", a) \in Int /\ Bonus(k, "PBERSK", a) \in Int
      /\ Bonus(k, "PPRAYD", a) \in Int /\ Bonus(k, "PSTRNG", a) \in Int
  BY BonusType
<1>2. e \in {"PHASTE", "PBERSK", "PPRAYD", "PSTRNG"}
  BY DEF Effect
<1>3. Lends(k, o, a) \in Int
  BY <1>1 DEF Lends
<1>4. ASSUME e \notin o PROVE Lends(k, o \cup {e}, a) = Lends(k, o, a) + Bonus(k, e, a)
  BY <1>1, <1>2, <1>4 DEF Lends
<1>5. ASSUME e \in o PROVE Lends(k, o \ {e}, a) = Lends(k, o, a) - Bonus(k, e, a)
  BY <1>1, <1>2, <1>5 DEF Lends
<1> QED BY <1>3, <1>4, <1>5

\* What Add does.
LEMMA AddIs ==
    ASSUME NEW c \in Chars, NEW S, NEW n \in Int
    PROVE  /\ Add(c, S, n) \in Chars
           /\ Add(c, S, n).on = c.on /\ Add(c, S, n).level = c.level
           /\ \A a \in Attr : Add(c, S, n).attr[a] = c.attr[a] + (IF a \in S THEN n ELSE 0)
<1> DEFINE at == [a \in Attr |-> IF a \in S THEN c.attr[a] + n ELSE c.attr[a]]
<1>1. c.attr \in [Attr -> Int]
  BY DEF Chars
<1>2. at \in [Attr -> Int] /\ \A a \in Attr : at[a] = c.attr[a] + (IF a \in S THEN n ELSE 0)
  BY <1>1
<1>3. Add(c, S, n) = [c EXCEPT !.attr = at]
  BY DEF Add
<1> HIDE DEF at
<1> QED BY <1>2, <1>3 DEF Chars

\* The beginning of an effect keeps a character in its due, and so does its end.
LEMMA GainDue ==
    ASSUME NEW c \in Chars, NEW k, NEW e \in Effect \ c.on
    PROVE  /\ Gain(c, k, e) \in Chars
           /\ Gain(c, k, e).level = c.level /\ Gain(c, k, e).on = c.on \cup {e}
           /\ \A a \in Attr : Due(k, c, a) => Due(k, Gain(c, k, e), a)
<1> DEFINE at == [a \in Attr |-> c.attr[a] + Bonus(k, e, a)]
           d == Gain(c, k, e)
<1>1. c.attr \in [Attr -> Int] /\ c.on \in SUBSET Effect /\ c.level \in Nat \ {0}
  BY DEF Chars
<1>2. at \in [Attr -> Int] /\ \A a \in Attr : at[a] = c.attr[a] + Bonus(k, e, a)
  BY <1>1, BonusType
<1>3. d = [c EXCEPT !.on = c.on \cup {e}, !.attr = at]
  BY DEF Gain
<1> HIDE DEF at, d
<1>4. d \in Chars /\ d.on = c.on \cup {e} /\ d.level = c.level /\ d.attr = at
  BY <1>1, <1>2, <1>3 DEF Chars
<1>5. ASSUME NEW a \in Attr, Due(k, c, a) PROVE Due(k, d, a)
  <2>1. c.attr[a] = Gives(k, c.level, a) + Lends(k, c.on, a)
    BY <1>5 DEF Due
  <2>2. /\ Lends(k, c.on, a) \in Int
        /\ Lends(k, c.on \cup {e}, a) = Lends(k, c.on, a) + Bonus(k, e, a)
    BY LendsOne
  <2>3. Gives(k, c.level, a) \in Int /\ Bonus(k, e, a) \in Int
    BY <1>1, GivesNext, BonusType
  <2> QED BY <1>2, <1>4, <2>1, <2>2, <2>3 DEF Due
<1> QED BY <1>4, <1>5 DEF d

\* Taking a bonus back with its flag leaves no debt.
LEMMA LoseDue ==
    ASSUME NEW c \in Chars, NEW k, NEW e \in c.on
    PROVE  /\ Lose(c, k, e) \in Chars
           /\ Lose(c, k, e).level = c.level /\ Lose(c, k, e).on = c.on \ {e}
           /\ \A a \in Attr : Due(k, c, a) => Due(k, Lose(c, k, e), a)
<1> DEFINE at == [a \in Attr |-> c.attr[a] - Bonus(k, e, a)]
           d == Lose(c, k, e)
<1>1. c.attr \in [Attr -> Int] /\ c.on \in SUBSET Effect /\ c.level \in Nat \ {0}
      /\ e \in Effect
  BY DEF Chars
<1>2. at \in [Attr -> Int] /\ \A a \in Attr : at[a] = c.attr[a] - Bonus(k, e, a)
  BY <1>1, BonusType
<1>3. d = [c EXCEPT !.on = c.on \ {e}, !.attr = at]
  BY DEF Lose
<1> HIDE DEF at, d
<1>4. d \in Chars /\ d.on = c.on \ {e} /\ d.level = c.level /\ d.attr = at
  BY <1>1, <1>2, <1>3 DEF Chars
<1>5. ASSUME NEW a \in Attr, Due(k, c, a) PROVE Due(k, d, a)
  <2>1. c.attr[a] = Gives(k, c.level, a) + Lends(k, c.on, a)
    BY <1>5 DEF Due
  <2>2. /\ Lends(k, c.on, a) \in Int
        /\ Lends(k, c.on \ {e}, a) = Lends(k, c.on, a) - Bonus(k, e, a)
    BY <1>1, LendsOne
  <2>3. Gives(k, c.level, a) \in Int /\ Bonus(k, e, a) \in Int
    BY <1>1, GivesNext, BonusType
  <2> QED BY <1>2, <1>4, <2>1, <2>2, <2>3 DEF Due
<1> QED BY <1>4, <1>5 DEF d

\* So do a level gained and a level lost.
LEMMA UpDue ==
    ASSUME NEW c \in Chars, NEW k
    PROVE  /\ up_level(c, k) \in Chars
           /\ up_level(c, k).level = c.level + 1 /\ up_level(c, k).on = c.on
           /\ \A a \in Attr : Due(k, c, a) => Due(k, up_level(c, k), a)
<1> DEFINE l == c.level
           s == Cycle(k, (l - 1) % 10)
           b == [c EXCEPT !.level = @ + 1]
           d == up_level(c, k)
<1>1. b \in Chars /\ b.level = l + 1 /\ b.on = c.on /\ b.attr = c.attr /\ l \in Nat \ {0}
      /\ c.attr \in [Attr -> Int]
  BY DEF Chars
<1>2. d = Add(b, {s}, 1)
  BY DEF up_level
<1> HIDE DEF b, d, s
<1>3. /\ d \in Chars /\ d.on = c.on /\ d.level = l + 1
      /\ \A a \in Attr : d.attr[a] = c.attr[a] + (IF a \in {s} THEN 1 ELSE 0)
  BY <1>1, <1>2, AddIs
<1>4. ASSUME NEW a \in Attr, Due(k, c, a) PROVE Due(k, d, a)
  <2>1. c.attr[a] = Gives(k, l, a) + Lends(k, c.on, a)
    BY <1>4 DEF Due
  <2>2. Gives(k, l, a) \in Int
        /\ Gives(k, l + 1, a) = Gives(k, l, a) + (IF s = a THEN 1 ELSE 0)
    BY <1>1, GivesNext DEF s
  <2>3. Lends(k, c.on, a) \in Int
    BY LendsOne DEF Effect
  <2>4. d.attr[a] = c.attr[a] + (IF s = a THEN 1 ELSE 0)
    BY <1>3
  <2> HIDE DEF l
  <2>5. d.attr[a] = Gives(k, d.level, a) + Lends(k, d.on, a)
    BY <1>3, <2>1, <2>2, <2>3, <2>4
  <2> QED BY <2>5 DEF Due
<1> QED BY <1>3, <1>4 DEF d

\* Nor does losing a level, which takes what that level gave.
LEMMA DownDue ==
    ASSUME NEW c \in Chars, NEW k, c.level >= 2
    PROVE  /\ down_level(c, k) \in Chars
           /\ down_level(c, k).level = c.level - 1 /\ down_level(c, k).on = c.on
           /\ \A a \in Attr : Due(k, c, a) => Due(k, down_level(c, k), a)
<1> DEFINE l == c.level - 1
           s == Cycle(k, (l - 1) % 10)
           b == [c EXCEPT !.level = @ - 1]
           d == down_level(c, k)
<1>1. /\ b \in Chars /\ b.level = l /\ b.on = c.on /\ b.attr = c.attr /\ l \in Nat \ {0}
      /\ c.attr \in [Attr -> Int] /\ c.level = l + 1 /\ c.level - 2 = l - 1
  BY DEF Chars
<1>2. d = Add(b, {s}, -1)
  BY <1>1 DEF down_level
<1> HIDE DEF b, d, s, l
<1>3. /\ d \in Chars /\ d.on = c.on /\ d.level = l
      /\ \A a \in Attr : d.attr[a] = c.attr[a] + (IF a \in {s} THEN -1 ELSE 0)
  BY <1>1, <1>2, AddIs
<1>4. ASSUME NEW a \in Attr, Due(k, c, a) PROVE Due(k, d, a)
  <2>1. c.attr[a] = Gives(k, l + 1, a) + Lends(k, c.on, a)
    BY <1>1, <1>4 DEF Due
  <2>2. Gives(k, l, a) \in Int
        /\ Gives(k, l + 1, a) = Gives(k, l, a) + (IF s = a THEN 1 ELSE 0)
    BY <1>1, GivesNext DEF s
  <2>3. Lends(k, c.on, a) \in Int
    BY LendsOne DEF Effect
  <2>4. d.attr[a] = c.attr[a] + (IF s = a THEN -1 ELSE 0)
    BY <1>3
  <2>5. d.attr[a] = Gives(k, d.level, a) + Lends(k, d.on, a)
    BY <1>3, <2>1, <2>2, <2>3, <2>4
  <2> QED BY <2>5 DEF Due
<1> QED BY <1>1, <1>3, <1>4 DEF d, l

-----------------------------------------------------------------------------
(* The loops over levels.                                                  *)

\* A set of natural numbers has a least element.
LEMMA Least ==
    ASSUME NEW T \in SUBSET Nat, T # {}
    PROVE  \E x \in T : \A y \in T : x <= y
<1>1. IsWellFoundedOn(OpToRel(<, Nat), Nat)
  BY NatLessThanWellFounded
<1>2. PICK x \in T : \A y \in T : <<y, x>> \notin OpToRel(<, Nat)
  BY <1>1, WFMin
<1>3. \A y \in T : ~(y < x)
  BY <1>2 DEF OpToRel
<1> QED BY <1>3

Level(c, k, Down) == IF Down THEN down_level(c, k) ELSE up_level(c, k)

\* The function the loop computes, up to m rounds.
Loop(c, k, Down, m, f) ==
    f = [i \in 0..m |-> IF i = 0 THEN c ELSE Level(f[i - 1], k, Down)]

\* m levels are a function of the levels passed, whatever m.
LEMMA LoopExists ==
    ASSUME NEW c, NEW k, NEW Down, NEW m \in Nat
    PROVE  \E f : Loop(c, k, Down, m, f)
<1> DEFINE Bad == {n \in Nat : ~ \E f : Loop(c, k, Down, n, f)}
<1> SUFFICES ASSUME m \in Bad PROVE FALSE
  OBVIOUS
<1>1. PICK n \in Bad : \A j \in Bad : n <= j
  BY Least
<1>2. n # 0
  <2> DEFINE f == [i \in 0..0 |-> c]
  <2>1. Loop(c, k, Down, 0, f)
    BY DEF Loop
  <2> QED BY <2>1
<1>3. n - 1 \in Nat /\ n - 1 \notin Bad
  BY <1>1, <1>2
<1>4. PICK g : Loop(c, k, Down, n - 1, g)
  BY <1>3
<1> DEFINE f == [i \in 0..n |-> IF i = n THEN Level(g[n - 1], k, Down) ELSE g[i]]
<1>5. \A i \in 0..n - 1 : g[i] = IF i = 0 THEN c ELSE Level(g[i - 1], k, Down)
  BY <1>4 DEF Loop
<1>6. ASSUME NEW i \in 0..n
      PROVE  f[i] = IF i = 0 THEN c ELSE Level(f[i - 1], k, Down)
  <2>1. CASE i = n
    BY <2>1, <1>2, <1>3
  <2>2. CASE i = 0
    BY <2>2, <1>2, <1>3, <1>5
  <2>3. CASE i # n /\ i # 0
    <3>1. i \in 0..n - 1 /\ i - 1 \in 0..n /\ i - 1 # n
      BY <2>3, <1>3
    <3>2. f[i] = g[i] /\ f[i - 1] = g[i - 1]
      BY <3>1, <2>3
    <3> HIDE DEF f
    <3> QED BY <3>1, <3>2, <2>3, <1>5
  <2> QED BY <2>1, <2>2, <2>3
<1>7. Loop(c, k, Down, n, f)
  <2>1. f = [i \in 0..n |-> f[i]]
    OBVIOUS
  <2> HIDE DEF f
  <2>2. f = [i \in 0..n |-> IF i = 0 THEN c ELSE Level(f[i - 1], k, Down)]
    BY <2>1, <1>6
  <2> QED BY <2>2 DEF Loop
<1> QED BY <1>1, <1>7

\* The loops reach their level, and keep a character in its due.
LEMMA PathDue ==
    ASSUME NEW c \in Chars, NEW k, NEW n \in Nat \ {0}
    PROVE  /\ LevelPath(c, k, n) \in Chars
           /\ LevelPath(c, k, n).level = n /\ LevelPath(c, k, n).on = c.on
           /\ \A a \in Attr : Due(k, c, a) => Due(k, LevelPath(c, k, n), a)
<1> DEFINE Down == c.level > n
           times == IF Down THEN c.level - n ELSE n - c.level
           step == CHOOSE step : step = [i \in 0..times |->
                     IF i = 0 THEN c
                     ELSE IF Down THEN down_level(step[i - 1], k)
                     ELSE up_level(step[i - 1], k)]
<1>0. c.level \in Nat \ {0} /\ times \in Nat
  BY DEF Chars
<1>1. LevelPath(c, k, n) = step[times]
  BY DEF LevelPath
<1>2. \A i \in 0..times : step[i] = IF i = 0 THEN c ELSE Level(step[i - 1], k, Down)
  <2> HIDE DEF Down, times
  <2>1. \E f : Loop(c, k, Down, times, f)
    BY <1>0, LoopExists
  <2>2. \E f : f = [i \in 0..times |->
                     IF i = 0 THEN c
                     ELSE IF Down THEN down_level(f[i - 1], k)
                     ELSE up_level(f[i - 1], k)]
    BY <2>1 DEF Loop, Level
  <2>3. step = [i \in 0..times |->
                     IF i = 0 THEN c
                     ELSE IF Down THEN down_level(step[i - 1], k)
                     ELSE up_level(step[i - 1], k)]
    BY <2>2
  <2> HIDE DEF step
  <2> QED BY <2>3 DEF Level
<1> DEFINE At(i) == IF Down THEN c.level - i ELSE c.level + i
           Good(i) == /\ step[i] \in Chars
                      /\ step[i].level = At(i) /\ step[i].on = c.on
                      /\ \A a \in Attr : Due(k, c, a) => Due(k, step[i], a)
           Bad == {i \in 0..times : ~Good(i)}
<1> HIDE DEF step
<1>3. ASSUME NEW i \in 1..times, Good(i - 1) PROVE Good(i)
  <2> DEFINE d == step[i - 1]
  <2>1. d \in Chars /\ d.level = At(i - 1) /\ d.on = c.on
        /\ \A a \in Attr : Due(k, c, a) => Due(k, d, a)
    BY <1>3
  <2>2. step[i] = Level(d, k, Down)
    BY <1>2
  <2>3. CASE Down
    <3>1. d.level >= 2 /\ d.level - 1 = At(i)
      BY <1>0, <2>1, <2>3
    <3>2. step[i] = down_level(d, k)
      BY <2>2, <2>3 DEF Level
    <3> HIDE DEF d
    <3>3. /\ step[i] \in Chars /\ step[i].level = d.level - 1 /\ step[i].on = d.on
          /\ \A a \in Attr : Due(k, d, a) => Due(k, step[i], a)
      BY <2>1, <3>1, <3>2, DownDue
    <3> HIDE DEF At
    <3> QED BY <2>1, <3>1, <3>3
  <2>4. CASE ~Down
    <3>1. d.level + 1 = At(i)
      BY <1>0, <2>1, <2>4
    <3>2. step[i] = up_level(d, k)
      BY <2>2, <2>4 DEF Level
    <3> HIDE DEF d
    <3>3. /\ step[i] \in Chars /\ step[i].level = d.level + 1 /\ step[i].on = d.on
          /\ \A a \in Attr : Due(k, d, a) => Due(k, step[i], a)
      BY <2>1, <3>2, UpDue
    <3> HIDE DEF At
    <3> QED BY <2>1, <3>1, <3>3
  <2> QED BY <2>3, <2>4
<1>4. Good(0)
  <2>1. step[0] = c
    BY <1>0, <1>2
  <2> QED BY <1>0, <2>1
<1>5. Bad = {}
  <2> SUFFICES ASSUME Bad # {} PROVE FALSE
    OBVIOUS
  <2>1. Bad \in SUBSET Nat
    BY <1>0
  <2>2. PICK i \in Bad : \A j \in Bad : i <= j
    <3> HIDE DEF Bad
    <3> QED BY <2>1, Least
  <2> HIDE DEF Good
  <2>3. i # 0 /\ i \in 0..times /\ ~Good(i)
    BY <1>4, <2>2
  <2>4. i \in 1..times /\ i - 1 \in 0..times /\ i - 1 \notin Bad
    BY <1>0, <2>2, <2>3
  <2> QED BY <1>3, <2>3, <2>4
<1>6. Good(times)
  <2> HIDE DEF Good
  <2> QED BY <1>0, <1>5
<1>7. At(times) = n
  BY <1>0
<1> QED BY <1>1, <1>6, <1>7

-----------------------------------------------------------------------------
(* The end of effects.                                                     *)

\* The end of an effect whose timer ran out.
LEMMA LapseDue ==
    ASSUME NEW c \in Chars, NEW k, NEW e \in Effect, NEW out
    PROVE  /\ Lapse(c, k, e, out) \in Chars /\ Lapse(c, k, e, out).level = c.level
           /\ \A a \in Attr : Due(k, c, a) => Due(k, Lapse(c, k, e, out), a)
<1>1. CASE e \in c.on /\ LT[e] \in out
  <2>1. Lapse(c, k, e, out) = Lose(c, k, e)
    BY <1>1 DEF Lapse
  <2> QED BY <1>1, <2>1, LoseDue
<1>2. CASE ~(e \in c.on /\ LT[e] \in out)
  <2>1. Lapse(c, k, e, out) = c
    BY <1>2 DEF Lapse
  <2> QED BY <2>1
<1> QED BY <1>1, <1>2

\* update_ply ends them one after another.
LEMMA UpdateDue ==
    ASSUME NEW c \in Chars, NEW k, NEW out
    PROVE  /\ update_ply(c, k, out) \in Chars /\ update_ply(c, k, out).level = c.level
           /\ \A a \in Attr : Due(k, c, a) => Due(k, update_ply(c, k, out), a)
<1> DEFINE h == Lapse(c, k, "PHASTE", out)
           b == Lapse(h, k, "PBERSK", out)
           y == Lapse(b, k, "PPRAYD", out)
           z == Lapse(y, k, "PSTRNG", out)
<1>0. "PHASTE" \in Effect /\ "PBERSK" \in Effect /\ "PPRAYD" \in Effect /\ "PSTRNG" \in Effect
  BY DEF Effect
<1>1. h \in Chars /\ h.level = c.level /\ \A a \in Attr : Due(k, c, a) => Due(k, h, a)
  BY <1>0, LapseDue
<1> HIDE DEF h
<1>2. b \in Chars /\ b.level = h.level /\ \A a \in Attr : Due(k, h, a) => Due(k, b, a)
  BY <1>0, <1>1, LapseDue
<1> HIDE DEF b
<1>3. y \in Chars /\ y.level = b.level /\ \A a \in Attr : Due(k, b, a) => Due(k, y, a)
  BY <1>0, <1>2, LapseDue
<1> HIDE DEF y
<1>4. z \in Chars /\ z.level = y.level /\ \A a \in Attr : Due(k, y, a) => Due(k, z, a)
  BY <1>0, <1>3, LapseDue
<1>5. update_ply(c, k, out) = z
  BY DEF update_ply, h, b, y
<1> HIDE DEF z
<1> QED BY <1>1, <1>2, <1>3, <1>4, <1>5

-----------------------------------------------------------------------------
(* The handlers.                                                           *)

\* Balanced, player by player.
Owed(p) == \A a \in Attr \ spoilt[p] : Due(class[p], Char(p), a)

\* Balanced in terms of what is due.
LEMMA BalancedIs == Balanced <=> TypeOK /\ \A p \in Player : Owed(p)
  BY DEF Balanced, Owed, Due, Char, Learnt, Lent, Gives, Lends

\* A player's record.
LEMMA CharType ==
    ASSUME TypeOK, NEW p \in Player
    PROVE  /\ Char(p) \in Chars /\ Char(p).level \in 1..MaxLevel[p]
           /\ Char(p).on = on[p] /\ Char(p).level = level[p] /\ Char(p).attr = attr[p]
<1>1. level[p] \in 1..MaxLevel[p] /\ MaxLevel[p] \in Nat \ {0}
  BY EffectsAssumption DEF TypeOK
<1>2. level[p] \in Nat \ {0}
  BY <1>1
<1>3. on[p] \in SUBSET Effect /\ attr[p] \in [Attr -> Int]
  BY DEF TypeOK
<1> QED BY <1>1, <1>2, <1>3 DEF Char, Chars

\* One player becomes another character, which is in its due but for what is
\* spoilt.
LEMMA Becoming ==
    ASSUME Balanced, NEW p \in Player, NEW c \in Chars, c.level \in 1..MaxLevel[p],
           Becomes(p, c),
           over' \in [Player -> SUBSET Timer], rested' \in [Player -> SUBSET Attempted],
           spoilt' \in [Player -> SUBSET Attr],
           \A q \in Player : spoilt[q] \subseteq spoilt'[q],
           \A a \in Attr \ spoilt'[p] : Due(class[p], c, a)
    PROVE  Balanced'
<1>1. TypeOK /\ \A q \in Player : Owed(q)
  BY BalancedIs
<1>2. c.on \in SUBSET Effect /\ c.attr \in [Attr -> Int]
  BY DEF Chars
<1>3. /\ on' = [on EXCEPT ![p] = c.on] /\ level' = [level EXCEPT ![p] = c.level]
      /\ attr' = [attr EXCEPT ![p] = c.attr]
  BY DEF Becomes
<1>4. /\ on'[p] = c.on /\ level'[p] = c.level /\ attr'[p] = c.attr
      /\ \A q \in Player \ {p} : on'[q] = on[q] /\ level'[q] = level[q] /\ attr'[q] = attr[q]
  BY <1>1, <1>3 DEF TypeOK
<1>5. TypeOK'
  <2>1. on' \in [Player -> SUBSET Effect] /\ attr' \in [Player -> [Attr -> Int]]
    BY <1>1, <1>2, <1>3 DEF TypeOK
  <2>2. DOMAIN level' = Player /\ \A q \in Player : level'[q] \in 1..MaxLevel[q]
    <3>1. DOMAIN level' = Player
      BY <1>1, <1>3 DEF TypeOK
    <3>2. \A q \in Player \ {p} : level'[q] \in 1..MaxLevel[q]
      BY <1>1, <1>4 DEF TypeOK
    <3> QED BY <1>4, <3>1, <3>2
  <2> QED BY <2>1, <2>2 DEF TypeOK
<1>6. ASSUME NEW q \in Player, NEW a \in Attr \ spoilt'[q]
      PROVE  attr'[q][a] = Gives(class[q], level'[q], a) + Lends(class[q], on'[q], a)
  <2>1. CASE q = p
    BY <1>4, <1>6, <2>1 DEF Due
  <2>2. CASE q # p
    <3>1. a \in Attr \ spoilt[q]
      BY <1>6
    <3>2. Due(class[q], Char(q), a)
      BY <1>1, <3>1 DEF Owed
    <3>3. attr[q][a] = Gives(class[q], level[q], a) + Lends(class[q], on[q], a)
      BY <1>1, <3>2, CharType DEF Due
    <3> QED BY <1>4, <2>2, <3>3
  <2> QED BY <2>1, <2>2
<1> QED BY <1>5, <1>6 DEF Balanced, Learnt, Lent, Gives, Lends

\* Setting one is setting his fields.
LEMMA SetType ==
    ASSUME TypeOK, NEW p \in Player, NEW k, Set(p, k)
    PROVE  over' \in [Player -> SUBSET Timer] /\ rested' \in [Player -> SUBSET Attempted]
  BY DEF Set, TypeOK

\* What is spoilt afterwards.
LEMMA SpoilIs ==
    ASSUME TypeOK, NEW P \in SUBSET Player, NEW a \in Attr, Spoil(P, a)
    PROVE  /\ spoilt' \in [Player -> SUBSET Attr]
           /\ \A q \in Player : spoilt'[q] = IF q \in P THEN spoilt[q] \cup {a} ELSE spoilt[q]
  BY DEF Spoil, TypeOK

\* Nothing is spoilt, and no timer is touched or a timer is set.
LEMMA Quiet ==
    ASSUME Balanced, NEW p \in Player, NEW c \in Chars, c.level \in 1..MaxLevel[p],
           Becomes(p, c), UNCHANGED spoilt,
           UNCHANGED <<over, rested>> \/ \E k : Set(p, k),
           \A a \in Attr : Due(class[p], Char(p), a) => Due(class[p], c, a)
    PROVE  Balanced'
<1>1. TypeOK /\ Owed(p)
  BY BalancedIs
<1>2. over' \in [Player -> SUBSET Timer] /\ rested' \in [Player -> SUBSET Attempted]
  <2>1. CASE UNCHANGED <<over, rested>>
    BY <1>1, <2>1 DEF TypeOK
  <2>2. CASE \E k : Set(p, k)
    BY <1>1, <2>2, SetType
  <2> QED BY <2>1, <2>2
<1>3. spoilt' \in [Player -> SUBSET Attr] /\ \A q \in Player : spoilt[q] \subseteq spoilt'[q]
  BY <1>1 DEF TypeOK
<1>4. \A a \in Attr \ spoilt'[p] : Due(class[p], c, a)
  BY <1>1 DEF Owed
<1> QED BY <1>2, <1>3, <1>4, Becoming

\* update_users and what shows a player to himself.
LEMMA UpdateStep ==
    ASSUME Balanced, NEW p \in Player, update_users(p) \/ Shown(p) PROVE Balanced'
<1> DEFINE c == update_ply(Char(p), class[p], over[p])
<1>1. TypeOK
  BY DEF Balanced
<1>2. c \in Chars /\ c.level \in 1..MaxLevel[p]
      /\ \A a \in Attr : Due(class[p], Char(p), a) => Due(class[p], c, a)
  BY <1>1, CharType, UpdateDue
<1>3. Becomes(p, c) /\ UNCHANGED spoilt /\ UNCHANGED <<over, rested>>
  BY DEF update_users, Shown
<1> QED BY <1>2, <1>3, Quiet

\* haste, pray and berserk.
LEMMA TryStep ==
    ASSUME Balanced, NEW p \in Player, haste(p) \/ pray(p) \/ berserk(p) PROVE Balanced'
<1>1. TypeOK
  BY DEF Balanced
<1>2. PICK e \in Effect : e \notin on[p] /\ Attempt(p, e)
  BY DEF haste, pray, berserk, Effect
<1> DEFINE c == Gain(Char(p), class[p], e)
<1>3. CASE Becomes(p, c) /\ Set(p, LT[e]) /\ UNCHANGED spoilt
  <2>1. Char(p) \in Chars /\ e \in Effect \ Char(p).on /\ Char(p).level \in 1..MaxLevel[p]
    BY <1>1, <1>2, CharType
  <2>2. c \in Chars /\ c.level \in 1..MaxLevel[p]
        /\ \A a \in Attr : Due(class[p], Char(p), a) => Due(class[p], c, a)
    BY <2>1, GainDue
  <2> HIDE DEF c
  <2> QED BY <1>3, <2>2, Quiet
<1>4. CASE /\ rested' = [rested EXCEPT ![p] = @ \ {LT[e]}]
           /\ UNCHANGED <<on, over, level, attr>> /\ UNCHANGED spoilt
  <2>1. rested' \in [Player -> SUBSET Attempted]
    BY <1>1, <1>4 DEF TypeOK
  <2>2. TypeOK'
    BY <1>1, <1>4, <2>1 DEF TypeOK
  <2> QED BY <1>4, <2>2 DEF Balanced, Learnt, Lent
<1> QED BY <1>2, <1>3, <1>4 DEF Attempt

\* The flag without the bonus, and the bonus without the flag.
LEMMA FlagDue ==
    ASSUME NEW c \in Chars, NEW k, NEW o, NEW a \in Attr \ {"STR"}, Due(k, c, a),
           \/ "PSTRNG" \notin c.on /\ o = c.on \cup {"PSTRNG"}
           \/ o = c.on \ {"PSTRNG"}
    PROVE  Due(k, [c EXCEPT !.on = o], a)
<1>1. Bonus(k, "PSTRNG", a) = 0 /\ "PSTRNG" \in Effect
  BY DEF Bonus, Effect
<1>2. Lends(k, c.on, a) \in Int
  BY <1>1, LendsOne
<1>3. Lends(k, o, a) = Lends(k, c.on, a)
  <2>1. CASE "PSTRNG" \notin c.on /\ o = c.on \cup {"PSTRNG"}
    <3>1. Lends(k, c.on \cup {"PSTRNG"}, a) = Lends(k, c.on, a) + Bonus(k, "PSTRNG", a)
      BY <1>1, <2>1, LendsOne
    <3> QED BY <1>1, <1>2, <2>1, <3>1
  <2>2. CASE o = c.on \ {"PSTRNG"} /\ "PSTRNG" \in c.on
    <3>1. Lends(k, c.on \ {"PSTRNG"}, a) = Lends(k, c.on, a) - Bonus(k, "PSTRNG", a)
      BY <1>1, <2>2, LendsOne
    <3> QED BY <1>1, <1>2, <2>2, <3>1
  <2>3. CASE o = c.on \ {"PSTRNG"} /\ "PSTRNG" \notin c.on
    <3>1. o = c.on
      BY <2>3
    <3> QED BY <3>1
  <2> QED BY <2>1, <2>2, <2>3
<1>4. /\ [c EXCEPT !.on = o].on = o /\ [c EXCEPT !.on = o].level = c.level
      /\ [c EXCEPT !.on = o].attr = c.attr
  BY DEF Chars
<1> QED BY <1>3, <1>4 DEF Due

\* Strength by a spell, a potion or a wand.
LEMMA StrongStep ==
    ASSUME Balanced, NEW p \in Player, NEW q \in Player, super_strength(p, q) PROVE Balanced'
<1>1. TypeOK /\ Owed(q) /\ "PSTRNG" \notin on[q] /\ "PSTRNG" \in Effect /\ "STR" \in Attr
  BY BalancedIs DEF super_strength, Effect, Attr
<1>2. Char(q) \in Chars /\ Char(q).on = on[q] /\ Char(q).level \in 1..MaxLevel[q]
  BY <1>1, CharType
<1>3. CASE /\ Becomes(q, Gain(Char(q), class[q], "PSTRNG")) /\ Set(q, "LT_STRNG")
           /\ UNCHANGED spoilt
  <2> DEFINE c == Gain(Char(q), class[q], "PSTRNG")
  <2>1. c \in Chars /\ c.level \in 1..MaxLevel[q]
        /\ \A a \in Attr : Due(class[q], Char(q), a) => Due(class[q], c, a)
    BY <1>1, <1>2, GainDue
  <2> HIDE DEF c
  <2> QED BY <1>3, <2>1, Quiet DEF c
<1>4. CASE FlagOnly(q)
  <2> DEFINE o == Char(q).on \cup {"PSTRNG"}
             c == [Char(q) EXCEPT !.on = o]
  <2>1. Becomes(q, c) /\ Set(q, "LT_STRNG") /\ Spoil({q}, "STR")
    BY <1>4 DEF FlagOnly
  <2>2. c \in Chars /\ c.level \in 1..MaxLevel[q]
    BY <1>1, <1>2 DEF Chars
  <2>3. over' \in [Player -> SUBSET Timer] /\ rested' \in [Player -> SUBSET Attempted]
    BY <1>1, <2>1, SetType
  <2>4. /\ spoilt' \in [Player -> SUBSET Attr]
        /\ \A r \in Player : spoilt'[r] = IF r \in {q} THEN spoilt[r] \cup {"STR"} ELSE spoilt[r]
    BY <1>1, <2>1, SpoilIs
  <2>5. (\A r \in Player : spoilt[r] \subseteq spoilt'[r]) /\ spoilt'[q] = spoilt[q] \cup {"STR"}
    BY <2>4
  <2>6. ASSUME NEW a \in Attr \ spoilt'[q] PROVE Due(class[q], c, a)
    <3>1. a \in Attr \ {"STR"} /\ Due(class[q], Char(q), a)
      BY <1>1, <2>5 DEF Owed
    <3> QED BY <1>1, <1>2, <3>1, FlagDue
  <2> HIDE DEF c
  <2> QED BY <2>1, <2>2, <2>3, <2>4, <2>5, <2>6, Becoming
<1> QED BY <1>3, <1>4 DEF super_strength

\* A dispel spoils what it leaves unbalanced.
LEMMA DispelStep == ASSUME Balanced, NEW q \in Player, dispel(q) PROVE Balanced'
<1>1. TypeOK /\ Owed(q) /\ "STR" \in Attr
  BY BalancedIs DEF Attr
<1>2. Char(q) \in Chars /\ Char(q).on = on[q] /\ Char(q).level \in 1..MaxLevel[q]
  BY <1>1, CharType
<1> DEFINE o == Char(q).on \ {"PSTRNG"}
           c == [Char(q) EXCEPT !.on = o]
<1>3. Becomes(q, c) /\ over' = over /\ rested' = rested
  BY DEF dispel
<1>4. c \in Chars /\ c.level \in 1..MaxLevel[q]
  BY <1>2 DEF Chars
<1>5. over' \in [Player -> SUBSET Timer] /\ rested' \in [Player -> SUBSET Attempted]
  BY <1>1, <1>3 DEF TypeOK
<1>6. CASE "PSTRNG" \in on[q]
  <2>1. Spoil({q}, "STR")
    BY <1>6 DEF dispel
  <2>4. /\ spoilt' \in [Player -> SUBSET Attr]
        /\ \A r \in Player : spoilt'[r] = IF r \in {q} THEN spoilt[r] \cup {"STR"} ELSE spoilt[r]
    BY <1>1, <2>1, SpoilIs
  <2>5. (\A r \in Player : spoilt[r] \subseteq spoilt'[r]) /\ spoilt'[q] = spoilt[q] \cup {"STR"}
    BY <2>4
  <2>6. ASSUME NEW a \in Attr \ spoilt'[q] PROVE Due(class[q], c, a)
    <3>1. a \in Attr \ {"STR"} /\ Due(class[q], Char(q), a)
      BY <1>1, <2>5 DEF Owed
    <3> QED BY <1>1, <1>2, <3>1, FlagDue
  <2> HIDE DEF c
  <2> QED BY <1>3, <1>4, <1>5, <2>4, <2>5, <2>6, Becoming
<1>7. CASE "PSTRNG" \notin on[q]
  <2>1. spoilt' = spoilt
    BY <1>7 DEF dispel
  <2>2. c = Char(q)
    <3>1. o = Char(q).on
      BY <1>2, <1>7
    <3> QED BY <1>2, <3>1 DEF Chars
  <2>3. \A a \in Attr : Due(class[q], Char(q), a) => Due(class[q], c, a)
    BY <2>2
  <2> HIDE DEF c
  <2> QED BY <1>3, <1>4, <2>1, <2>3, Quiet
<1> QED BY <1>6, <1>7

\* A timer runs out.
LEMMA FadeStep == ASSUME Balanced, NEW q \in Player, Fade(q) PROVE Balanced'
<1>1. TypeOK
  BY DEF Balanced
<1> DEFINE c == Lose(Char(q), class[q], "PSTRNG")
<1>2. Char(q) \in Chars /\ "PSTRNG" \in Char(q).on /\ Char(q).level \in 1..MaxLevel[q]
  BY <1>1, CharType DEF Fade
<1>3. c \in Chars /\ c.level \in 1..MaxLevel[q]
      /\ \A a \in Attr : Due(class[q], Char(q), a) => Due(class[q], c, a)
  BY <1>2, LoseDue
<1>4. Becomes(q, c) /\ UNCHANGED spoilt /\ UNCHANGED <<over, rested>>
  BY DEF Fade
<1> HIDE DEF c
<1> QED BY <1>3, <1>4, Quiet

\* Training and the dungeon masters' advance.
LEMMA LevelStep ==
    ASSUME Balanced, NEW p \in Player, NEW n \in 1..MaxLevel[p], train(p) \/ dm_advance(p, n)
    PROVE  Balanced'
<1>1. TypeOK
  BY DEF Balanced
<1>2. Char(p) \in Chars /\ Char(p).level = level[p] /\ level[p] \in 1..MaxLevel[p]
      /\ MaxLevel[p] \in Nat
  BY <1>1, CharType, EffectsAssumption
<1>3. ASSUME train(p) PROVE Balanced'
  <2> DEFINE c == up_level(Char(p), class[p])
  <2>1. c \in Chars /\ c.level = level[p] + 1
        /\ \A a \in Attr : Due(class[p], Char(p), a) => Due(class[p], c, a)
    BY <1>2, UpDue
  <2>2. /\ Becomes(p, c) /\ UNCHANGED spoilt /\ UNCHANGED <<over, rested>>
        /\ level[p] < MaxLevel[p]
    BY <1>3 DEF train
  <2> HIDE DEF c
  <2>3. c.level \in 1..MaxLevel[p]
    BY <1>2, <2>1, <2>2
  <2> QED BY <2>1, <2>2, <2>3, Quiet
<1>4. ASSUME dm_advance(p, n) PROVE Balanced'
  <2> DEFINE c == LevelPath(Char(p), class[p], n)
  <2>1. n \in Nat \ {0} /\ n \in 1..MaxLevel[p]
    BY <1>2
  <2>2. c \in Chars /\ c.level = n
        /\ \A a \in Attr : Due(class[p], Char(p), a) => Due(class[p], c, a)
    BY <1>2, <2>1, PathDue
  <2>3. Becomes(p, c) /\ UNCHANGED spoilt /\ UNCHANGED <<over, rested>>
    BY <1>4 DEF dm_advance
  <2> HIDE DEF c
  <2> QED BY <2>1, <2>2, <2>3, Quiet
<1> QED BY <1>3, <1>4

\* The dead, but for the dexterity of a berserker.
LEMMA DeadDue ==
    ASSUME NEW p \in Player, Char(p) \in Chars, NEW n \in Nat \ {0}
    PROVE  /\ Dead(p, n) \in Chars /\ Dead(p, n).level = n
           /\ \A a \in Attr : Due(class[p], Char(p), a) =>
                 IF "PBERSK" \in Char(p).on /\ a = "DEX"
                 THEN Dead(p, n).attr[a] =
                        Gives(class[p], n, a) + Lends(class[p], Dead(p, n).on, a) + 5
                 ELSE Due(class[p], Dead(p, n), a)
<1> DEFINE k == class[p]
           b == Char(p)
           c == LevelPath(b, k, n)
           s == IF "PSTRNG" \in c.on THEN Lose(c, k, "PSTRNG") ELSE c
           o == s.on \ {"PBERSK"}
           t == [s EXCEPT !.on = o]
           d == Add(t, {"STR"}, -3)
<1>0. Dead(p, n) = IF "PBERSK" \in s.on THEN d ELSE s
  BY DEF Dead
<1>1. /\ c \in Chars /\ c.level = n /\ c.on = b.on
      /\ \A a \in Attr : Due(k, b, a) => Due(k, c, a)
  BY PathDue
<1> HIDE DEF c
<1>2. /\ s \in Chars /\ s.level = n /\ ("PBERSK" \in s.on <=> "PBERSK" \in b.on)
      /\ \A a \in Attr : Due(k, b, a) => Due(k, s, a)
  <2>1. CASE "PSTRNG" \in c.on
    <3>1. s = Lose(c, k, "PSTRNG")
      BY <2>1
    <3> HIDE DEF s
    <3>2. /\ s \in Chars /\ s.level = c.level /\ s.on = c.on \ {"PSTRNG"}
          /\ \A a \in Attr : Due(k, c, a) => Due(k, s, a)
      BY <1>1, <2>1, <3>1, LoseDue
    <3> QED BY <1>1, <3>2
  <2>2. CASE "PSTRNG" \notin c.on
    BY <1>1, <2>2
  <2> QED BY <2>1, <2>2
<1> HIDE DEF s
<1>3. CASE "PBERSK" \notin s.on
  <2>1. Dead(p, n) = s
    BY <1>0, <1>3
  <2> QED BY <1>2, <1>3, <2>1
<1>4. CASE "PBERSK" \in s.on
  <2>1. t \in Chars /\ t.level = n /\ t.on = o /\ t.attr = s.attr /\ s.attr \in [Attr -> Int]
    BY <1>2 DEF Chars
  <2> HIDE DEF t
  <2>2. /\ d \in Chars /\ d.on = o /\ d.level = n
        /\ \A a \in Attr : d.attr[a] = s.attr[a] + (IF a \in {"STR"} THEN -3 ELSE 0)
    BY <2>1, AddIs
  <2> HIDE DEF d
  <2>3. ASSUME NEW a \in Attr, Due(k, b, a)
        PROVE  IF a = "DEX" THEN d.attr[a] = Gives(k, n, a) + Lends(k, d.on, a) + 5
               ELSE Due(k, d, a)
    <3>1. s.attr[a] = Gives(k, n, a) + Lends(k, s.on, a)
      BY <1>2, <2>3 DEF Due
    <3>2. /\ Lends(k, s.on, a) \in Int
          /\ Lends(k, o, a) = Lends(k, s.on, a) - Bonus(k, "PBERSK", a)
      BY <1>4, LendsOne DEF Effect
    <3>3. Bonus(k, "PBERSK", a) = IF a = "DEX" THEN 5 ELSE IF a = "STR" THEN 3 ELSE 0
      BY DEF Bonus
    <3>4. Gives(k, n, a) \in Int
      BY GivesNext
    <3>5. d.attr[a] = s.attr[a] + (IF a = "STR" THEN -3 ELSE 0)
      BY <2>2
    <3>6. d.attr[a] = Gives(k, n, a) + Lends(k, d.on, a) + (IF a = "DEX" THEN 5 ELSE 0)
      <4> HIDE DEF o
      <4> QED BY <2>2, <3>1, <3>2, <3>3, <3>4, <3>5
    <3>7. Lends(k, d.on, a) \in Int
      BY LendsOne DEF Effect
    <3> QED BY <2>2, <3>4, <3>6, <3>7 DEF Due
  <2>4. Dead(p, n) = d
    BY <1>0, <1>4
  <2> HIDE DEF b, k
  <2> QED BY <1>2, <1>4, <2>2, <2>3, <2>4 DEF b, k
<1> QED BY <1>3, <1>4

\* Death, with the dexterity it takes from whoever the pointer names.
LEMMA DieStep ==
    ASSUME Balanced, NEW p \in Player, NEW n \in 1..MaxLevel[p], die(p, n) PROVE Balanced'
<1> DEFINE k == class[p]
           d == Dead(p, n)
<1>1. TypeOK /\ (\A q \in Player : Owed(q)) /\ "DEX" \in Attr
  BY BalancedIs DEF Attr
<1>2. /\ n \in Nat \ {0} /\ n \in 1..MaxLevel[p]
      /\ Char(p) \in Chars /\ Char(p).on = on[p]
  BY <1>1, CharType, EffectsAssumption
<1>3. /\ d \in Chars /\ d.level = n
      /\ \A a \in Attr : Due(k, Char(p), a) =>
            IF "PBERSK" \in on[p] /\ a = "DEX"
            THEN d.attr[a] = Gives(k, n, a) + Lends(k, d.on, a) + 5
            ELSE Due(k, d, a)
  BY <1>2, DeadDue
<1> HIDE DEF d, k
<1>4. /\ over' = over /\ rested' = rested
      /\ over' \in [Player -> SUBSET Timer] /\ rested' \in [Player -> SUBSET Attempted]
  BY <1>1 DEF die, TypeOK
<1>5. CASE "PBERSK" \notin on[p] /\ Becomes(p, d) /\ UNCHANGED spoilt
  <2>1. \A a \in Attr : Due(class[p], Char(p), a) => Due(class[p], d, a)
    BY <1>3, <1>5 DEF k
  <2> QED BY <1>2, <1>3, <1>4, <1>5, <2>1, Quiet
<1>6. CASE "PBERSK" \in on[p] /\ Becomes(p, d) /\ Spoil({p}, "DEX")
  <2>4. /\ spoilt' \in [Player -> SUBSET Attr]
        /\ \A r \in Player : spoilt'[r] = IF r \in {p} THEN spoilt[r] \cup {"DEX"} ELSE spoilt[r]
    BY <1>1, <1>6, SpoilIs, ZenonT(40)
  <2>5. (\A r \in Player : spoilt[r] \subseteq spoilt'[r]) /\ spoilt'[p] = spoilt[p] \cup {"DEX"}
    BY <2>4
  <2>6. ASSUME NEW a \in Attr \ spoilt'[p] PROVE Due(class[p], d, a)
    <3>1. a \in Attr /\ a # "DEX" /\ Due(class[p], Char(p), a)
      BY <1>1, <2>5 DEF Owed
    <3> QED BY <1>3, <3>1 DEF k
  <2> QED BY <1>2, <1>3, <1>4, <1>6, <2>4, <2>5, <2>6, Becoming
<1>7. CASE "PBERSK" \in on[p] /\ Becomes(p, Add(d, {"DEX"}, -5)) /\ UNCHANGED spoilt
  <2> DEFINE e == Add(d, {"DEX"}, -5)
  <2>1. /\ e \in Chars /\ e.on = d.on /\ e.level = n
        /\ \A a \in Attr : e.attr[a] = d.attr[a] + (IF a \in {"DEX"} THEN -5 ELSE 0)
    BY <1>3, AddIs
  <2>2. Becomes(p, e) /\ UNCHANGED spoilt
    BY <1>7
  <2> HIDE DEF e
  <2>3. ASSUME NEW a \in Attr, Due(class[p], Char(p), a) PROVE Due(class[p], e, a)
    <3>1. d.attr[a] \in Int /\ e.attr[a] = d.attr[a] + (IF a = "DEX" THEN -5 ELSE 0)
      BY <1>3, <2>1 DEF Chars
    <3>2. Gives(k, n, a) \in Int /\ Lends(k, d.on, a) \in Int
      BY <1>2, GivesNext, LendsOne DEF Effect
    <3>3. CASE a = "DEX"
      <4>1. d.attr[a] = Gives(k, n, a) + Lends(k, d.on, a) + 5
        BY <1>3, <1>7, <2>3, <3>3 DEF k
      <4>2. e.attr[a] = Gives(k, n, a) + Lends(k, d.on, a)
        BY <3>1, <3>2, <3>3, <4>1
      <4> QED BY <2>1, <4>2 DEF Due, k
    <3>4. CASE a # "DEX"
      <4>1. Due(k, d, a)
        BY <1>3, <2>3, <3>4 DEF k
      <4>2. e.attr[a] = d.attr[a]
        BY <3>1, <3>4
      <4> QED BY <1>3, <2>1, <4>1, <4>2 DEF Due, k
    <3> QED BY <3>3, <3>4
  <2> QED BY <1>2, <1>4, <2>1, <2>2, <2>3, Quiet
<1>8. CASE \E q \in Player \ {p} :
             /\ "PBERSK" \in on[p]
             /\ on' = [on EXCEPT ![p] = d.on]
             /\ level' = [level EXCEPT ![p] = n]
             /\ attr' = [attr EXCEPT ![p] = d.attr, ![q]["DEX"] = @ - 5]
             /\ Spoil({p, q}, "DEX")
  <2>1. PICK q \in Player \ {p} :
             /\ "PBERSK" \in on[p]
             /\ on' = [on EXCEPT ![p] = d.on]
             /\ level' = [level EXCEPT ![p] = n]
             /\ attr' = [attr EXCEPT ![p] = d.attr, ![q]["DEX"] = @ - 5]
             /\ Spoil({p, q}, "DEX")
    BY <1>8
  <2>2. /\ spoilt' \in [Player -> SUBSET Attr]
        /\ \A r \in Player :
             spoilt'[r] = IF r \in {p, q} THEN spoilt[r] \cup {"DEX"} ELSE spoilt[r]
    <3>1. {p, q} \in SUBSET Player /\ Spoil({p, q}, "DEX")
      BY <2>1
    <3> QED BY <1>1, <3>1, SpoilIs
  <2>3. /\ d.on \in SUBSET Effect /\ d.attr \in [Attr -> Int] /\ attr \in [Player -> [Attr -> Int]]
        /\ on \in [Player -> SUBSET Effect]
    BY <1>1, <1>3 DEF Chars, TypeOK
  <2> DEFINE was == [attr[q] EXCEPT !["DEX"] = @ - 5]
  <2>4. was \in [Attr -> Int] /\ \A a \in Attr \ {"DEX"} : was[a] = attr[q][a]
    BY <1>1, <2>3
  <2>5. /\ attr' \in [Player -> [Attr -> Int]]
        /\ attr'[p] = d.attr /\ attr'[q] = was
        /\ \A r \in Player \ {p, q} : attr'[r] = attr[r]
    <3>1. attr' = [attr EXCEPT ![p] = d.attr, ![q] = was]
      BY <2>1, <2>3
    <3> HIDE DEF was
    <3> QED BY <2>3, <2>4, <3>1
  <2> HIDE DEF was
  <2>6. /\ on' \in [Player -> SUBSET Effect] /\ on'[p] = d.on /\ level'[p] = n
        /\ DOMAIN level' = Player
        /\ \A r \in Player \ {p} : on'[r] = on[r] /\ level'[r] = level[r]
    BY <1>1, <2>1, <2>3 DEF TypeOK
  <2>7. TypeOK'
    <3>1. \A r \in Player : level'[r] \in 1..MaxLevel[r]
      <4>1. \A r \in Player : level[r] \in 1..MaxLevel[r]
        BY <1>1 DEF TypeOK
      <4> QED BY <1>2, <2>6, <4>1
    <3> QED BY <1>4, <2>2, <2>5, <2>6, <3>1 DEF TypeOK
  <2>8. ASSUME NEW r \in Player, NEW a \in Attr \ spoilt'[r]
        PROVE  attr'[r][a] = Gives(class[r], level'[r], a) + Lends(class[r], on'[r], a)
    <3>1. a \in Attr \ spoilt[r] /\ (r \in {p, q} => a # "DEX")
      BY <2>2
    <3>2. Due(class[r], Char(r), a)
      BY <1>1, <3>1 DEF Owed
    <3>3. attr[r][a] = Gives(class[r], level[r], a) + Lends(class[r], on[r], a)
      BY <1>1, <3>2, CharType DEF Due
    <3>4. CASE r = p
      <4>1. Due(k, d, a)
        BY <1>3, <3>1, <3>2, <3>4 DEF k
      <4> QED BY <1>3, <2>5, <2>6, <3>4, <4>1 DEF Due, k
    <3>5. CASE r # p
      <4>1. attr'[r][a] = attr[r][a]
        BY <2>4, <2>5, <3>1, <3>5
      <4> QED BY <2>6, <3>3, <3>5, <4>1
    <3> QED BY <3>4, <3>5
  <2> QED BY <2>7, <2>8 DEF Balanced, Learnt, Lent, Gives, Lends
<1> QED BY <1>5, <1>6, <1>7, <1>8 DEF die, d

\* Nothing is due at the start.
LEMMA InitBalanced == Init => Balanced
<1> SUFFICES ASSUME Init PROVE Balanced
  OBVIOUS
<1>1. \A p \in Player : MaxLevel[p] \in Nat \ {0}
  BY EffectsAssumption
<1>2. TypeOK
  <2>1. \A p \in Player : level[p] \in 1..MaxLevel[p]
    BY <1>1 DEF Init
  <2> QED BY <2>1 DEF Init, TypeOK
<1>3. ASSUME NEW p \in Player, NEW a \in Attr PROVE attr[p][a] = Learnt(p, a) + Lent(p, a)
  <2>1. level[p] = 1 /\ on[p] = {} /\ attr[p][a] = 0
    BY DEF Init
  <2>2. Lent(p, a) = 0
    BY <2>1 DEF Lent
  <2>3. Learnt(p, a) = 0
    <3>1. {i \in 0..level[p] - 2 : Cycle(class[p], i % 10) = a} = {}
      BY <2>1
    <3> QED BY <3>1, FS_EmptySet DEF Learnt
  <2> QED BY <2>1, <2>2, <2>3
<1> QED BY <1>2, <1>3 DEF Balanced

\* Every handler keeps the balance.
LEMMA NextBalanced == Balanced /\ [Next]_vars => Balanced'
<1> SUFFICES ASSUME Balanced, [Next]_vars PROVE Balanced'
  OBVIOUS
<1>1. TypeOK
  BY DEF Balanced
<1>2. ASSUME UNCHANGED <<on, level, attr, spoilt>>,
             over' \in [Player -> SUBSET Timer], rested' \in [Player -> SUBSET Attempted]
      PROVE  Balanced'
  BY <1>2 DEF Balanced, TypeOK, Learnt, Lent
<1>3. ASSUME NEW p \in Player, NEW k \in Timer, RunOut(p, k) PROVE Balanced'
  BY <1>1, <1>2, <1>3 DEF RunOut, TypeOK
<1>4. ASSUME NEW p \in Player, NEW k \in Attempted, Rest(p, k) PROVE Balanced'
  BY <1>1, <1>2, <1>4 DEF Rest, TypeOK
<1>5. CASE UNCHANGED vars
  BY <1>1, <1>2, <1>5 DEF vars, TypeOK
<1>6. ASSUME NEW p \in Player, train(p) PROVE Balanced'
  <2>1. 1 \in 1..MaxLevel[p]
    BY EffectsAssumption
  <2> QED BY <1>6, <2>1, LevelStep
<1>7. ASSUME NEW p \in Player,
             update_users(p) \/ Shown(p) \/ haste(p) \/ pray(p) \/ berserk(p)
      PROVE  Balanced'
  BY <1>7, UpdateStep, TryStep
<1>8. ASSUME NEW p \in Player, dispel(p) \/ Fade(p) \/ \E q \in Player : super_strength(p, q)
      PROVE  Balanced'
  BY <1>8, StrongStep, DispelStep, FadeStep
<1>9. ASSUME NEW p \in Player, \E n \in 1..MaxLevel[p] : dm_advance(p, n) \/ die(p, n)
      PROVE  Balanced'
  BY <1>9, LevelStep, DieStep
<1> QED BY <1>3, <1>4, <1>5, <1>6, <1>7, <1>8, <1>9 DEF Next

\* However effects, levels, deaths and blows follow each other, an attribute
\* that is not spoilt is what the character was made with, what its level gives
\* and what the effects it is under lend.
THEOREM BalancedHolds == Spec => []Balanced
BY InitBalanced, NextBalanced, PTL DEF Spec
=============================================================================
