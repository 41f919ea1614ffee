----------------------------- MODULE PartyProofs ------------------------------
(***************************************************************************)
(* For any players, monsters and rooms: following and first_fol agree      *)
(* (FollowAgrees), a group that moves takes nobody along twice (WalkOnce), *)
(* and a possessed monster has one possessor (OnePossessor).               *)
(*                                                                         *)
(* The counts of the properties are too weak to reason with: the proofs    *)
(* say that a list names somebody once or never, and how taking a tag out  *)
(* and putting one in change that.  WalkOnce needs to know that the        *)
(* players of the calls under way have left the room they came from;       *)
(* OnePossessor, that the leader of a possessed monster is its possessor.  *)
(***************************************************************************)
EXTENDS Party, SequenceTheorems, FiniteSetTheorems, WellFoundedInduction, TLAPS

Once(l, c) == \E i \in DOMAIN l : l[i] = c /\ \A j \in DOMAIN l : l[j] = c => j = i
Never(l, c) == \A i \in DOMAIN l : l[i] # c

\* Lists l and k name c alike.
Alike(l, k, c) == (Once(l, c) <=> Once(k, c)) /\ (Never(l, c) <=> Never(k, c))

Agrees ==
    \A c, p \in Player :
        IF following[c] = p THEN Once(first_fol[p], c) /\ {c, p} \subseteq playing
                            ELSE Never(first_fol[p], c)

Walking ==
    /\ walk # <<>> => {old_rom, new_rom} \subseteq Room /\ old_rom # new_rom
    /\ server = "up" => \A i \in DOMAIN walk : parent_rom[walk[i].who] = new_rom
    /\ WalkOnce

Possessed ==
    server = "up" =>
        /\ \A p \in Player : alias_crt[p] # none =>
              /\ p \in playing
              /\ alias_crt[p] \in MDMFOL /\ parent_rom[alias_crt[p]] # none
              /\ \A q \in Player \ {p} : alias_crt[q] # alias_crt[p]
              /\ following[alias_crt[p]] # none =>
                    /\ following[alias_crt[p]] = p
                    /\ ~Never(first_fol[p], alias_crt[p])
        /\ \A m \in MDMFOL : following[m] # none => alias_crt[following[m]] = m

IInv == TypeOK /\ Agrees /\ Walking /\ Possessed

-----------------------------------------------------------------------------
(* Lists.                                                                  *)

\* A set of numbers that is not empty has a least member.
LEMMA Least ==
    ASSUME NEW T \in SUBSET Nat, T # {}
    PROVE  \E x \in T : \A y \in T : x <= y
<1>1. IsWellFoundedOn(OpToRel(<, Nat), Nat)
  BY NatLessThanWellFounded
<1>2. PICK x \in T : \A y \in T : <<y, x>> \notin OpToRel(<, Nat)
  BY <1>1, WFMin
<1>3. \A y \in T : ~(y < x)
  BY <1>2 DEF OpToRel
<1> QED BY <1>3

\* A list without its i-th element.
LEMMA RemoveAtProperties ==
    ASSUME NEW S, NEW l \in Seq(S), NEW i \in 1..Len(l)
    PROVE  /\ RemoveAt(l, i) \in Seq(S)
           /\ Len(RemoveAt(l, i)) = Len(l) - 1
           /\ \A j \in 1..Len(l) - 1 : RemoveAt(l, i)[j] = IF j < i THEN l[j] ELSE l[j + 1]
<1> DEFINE a == SubSeq(l, 1, i - 1)
           b == SubSeq(l, i + 1, Len(l))
<1>1. \A j \in 1..Len(l) : l[j] \in S
  BY ElementOfSeq
<1>2. a \in Seq(S) /\ Len(a) = i - 1 /\ \A j \in 1..i - 1 : a[j] = l[j]
  BY <1>1, LenProperties
<1>3. b \in Seq(S) /\ Len(b) = Len(l) - i /\ \A j \in 1..Len(l) - i : b[j] = l[i + j]
  BY <1>1, LenProperties
<1>4. RemoveAt(l, i) = a \o b
  BY DEF RemoveAt
<1> HIDE DEF a, b
<1>5. /\ a \o b \in Seq(S)
      /\ Len(a \o b) = Len(a) + Len(b)
      /\ \A j \in 1..Len(a) + Len(b) : (a \o b)[j] = IF j <= Len(a) THEN a[j] ELSE b[j - Len(a)]
  BY <1>2, <1>3, ConcatProperties
<1> QED BY <1>2, <1>3, <1>4, <1>5, LenProperties

\* Without takes out what it is asked to and nothing else.
LEMMA Removed ==
    ASSUME NEW l \in Seq(Creature), NEW x \in Creature
    PROVE  /\ Without(l, x) \in Seq(Creature)
           /\ \A c \in Creature \ {x} : Alike(l, Without(l, x), c)
           /\ Once(l, x) => Never(Without(l, x), x)
<1>0. DOMAIN l = 1..Len(l) /\ Len(l) \in Nat
  BY LenProperties
<1>1. CASE \E i \in DOMAIN l : l[i] = x
  <2> DEFINE T == {i \in DOMAIN l : l[i] = x}
             First(i) == i \in DOMAIN l /\ l[i] = x /\ \A j \in 1..i - 1 : l[j] # x
             k == CHOOSE i \in DOMAIN l : l[i] = x /\ \A j \in 1..i - 1 : l[j] # x
  <2>1. T \in SUBSET Nat /\ T # {}
    BY <1>0, <1>1
  <2>2. PICK i \in T : \A y \in T : i <= y
    BY <2>1, Least
  <2>3. i \in DOMAIN l /\ l[i] = x /\ \A j \in 1..i - 1 : l[j] # x
    BY <1>0, <2>2
  <2>4. k \in 1..Len(l) /\ l[k] = x
    BY <1>0, <2>3
  <2>5. Without(l, x) = RemoveAt(l, k)
    BY <1>1 DEF Without
  <2> HIDE DEF k
  <2> DEFINE w == RemoveAt(l, k)
  <2>6. /\ w \in Seq(Creature)
        /\ Len(w) = Len(l) - 1
        /\ \A j \in 1..Len(l) - 1 : w[j] = IF j < k THEN l[j] ELSE l[j + 1]
    BY <2>4, RemoveAtProperties
  <2>7. DOMAIN w = 1..Len(l) - 1
    BY <2>6, LenProperties
  <2> HIDE DEF w
  <2> DEFINE up(j) == IF j < k THEN j ELSE j + 1
             dn(j) == IF j < k THEN j ELSE j - 1
  <2>8. \A j \in DOMAIN w : up(j) \in DOMAIN l /\ up(j) # k /\ l[up(j)] = w[j] /\ dn(up(j)) = j
    BY <1>0, <2>4, <2>6, <2>7
  <2>9. \A j \in DOMAIN l \ {k} : dn(j) \in DOMAIN w /\ w[dn(j)] = l[j] /\ up(dn(j)) = j
    BY <1>0, <2>4, <2>6, <2>7
  <2> HIDE DEF up, dn
  <2>10. ASSUME NEW c \in Creature \ {x} PROVE Alike(l, w, c)
    <3>1. \A j \in DOMAIN l : l[j] = c => j \in DOMAIN l \ {k}
      BY <2>4
    <3>2. Never(l, c) <=> Never(w, c)
      BY <2>8, <2>9, <3>1 DEF Never
    <3>3. ASSUME Once(l, c) PROVE Once(w, c)
      <4>1. PICK j \in DOMAIN l : l[j] = c /\ \A h \in DOMAIN l : l[h] = c => h = j
        BY <3>3 DEF Once
      <4>2. dn(j) \in DOMAIN w /\ w[dn(j)] = c
        BY <2>9, <3>1, <4>1
      <4>3. \A h \in DOMAIN w : w[h] = c => h = dn(j)
        BY <2>8, <4>1
      <4> QED BY <4>2, <4>3 DEF Once
    <3>4. ASSUME Once(w, c) PROVE Once(l, c)
      <4>1. PICK j \in DOMAIN w : w[j] = c /\ \A h \in DOMAIN w : w[h] = c => h = j
        BY <3>4 DEF Once
      <4>2. up(j) \in DOMAIN l /\ l[up(j)] = c
        BY <2>8, <4>1
      <4>3. \A h \in DOMAIN l : l[h] = c => h = up(j)
        BY <2>9, <3>1, <4>1
      <4> QED BY <4>2, <4>3 DEF Once
    <3> QED BY <3>2, <3>3, <3>4 DEF Alike
  <2>11. ASSUME Once(l, x) PROVE Never(w, x)
    <3>1. \A j \in DOMAIN l : l[j] = x => j = k
      BY <1>0, <2>4, <2>11 DEF Once
    <3> QED BY <2>8, <3>1 DEF Never
  <2> QED BY <2>5, <2>6, <2>10, <2>11 DEF w
<1>2. CASE ~ \E i \in DOMAIN l : l[i] = x
  BY <1>2 DEF Without, Alike, Once
<1> QED BY <1>1, <1>2

\* A new tag comes first.
LEMMA Prepended ==
    ASSUME NEW l \in Seq(Creature), NEW x \in Creature
    PROVE  /\ <<x>> \o l \in Seq(Creature)
           /\ \A c \in Creature \ {x} : Alike(l, <<x>> \o l, c)
           /\ ~Never(<<x>> \o l, x)
           /\ Never(l, x) => Once(<<x>> \o l, x)
<1> DEFINE w == <<x>> \o l
<1>0. DOMAIN l = 1..Len(l) /\ Len(l) \in Nat
  BY LenProperties
<1>1. /\ w \in Seq(Creature) /\ Len(w) = Len(l) + 1
      /\ \A i \in 1..Len(l) + 1 : w[i] = IF i <= 1 THEN x ELSE l[i - 1]
  <2>1. <<x>> \in Seq(Creature) /\ Len(<<x>>) = 1 /\ <<x>>[1] = x
    OBVIOUS
  <2>2. /\ w \in Seq(Creature) /\ Len(w) = Len(<<x>>) + Len(l)
        /\ \A i \in 1..Len(<<x>>) + Len(l) :
              w[i] = IF i <= Len(<<x>>) THEN <<x>>[i] ELSE l[i - Len(<<x>>)]
    BY <2>1, ConcatProperties
  <2> QED BY <1>0, <2>1, <2>2
<1>2. DOMAIN w = 1..Len(l) + 1
  BY <1>1, LenProperties
<1> HIDE DEF w
<1>3. w[1] = x /\ 1 \in DOMAIN w
  BY <1>0, <1>1, <1>2
<1>4. \A j \in DOMAIN l : j + 1 \in DOMAIN w /\ w[j + 1] = l[j] /\ j + 1 # 1
  BY <1>0, <1>1, <1>2
<1>5. \A j \in DOMAIN w \ {1} : j - 1 \in DOMAIN l /\ l[j - 1] = w[j] /\ j = (j - 1) + 1
  BY <1>0, <1>1, <1>2
<1>6. ASSUME NEW c \in Creature \ {x} PROVE Alike(l, w, c)
  <2>1. \A j \in DOMAIN w : w[j] = c => j \in DOMAIN w \ {1}
    BY <1>3
  <2>2. Never(l, c) <=> Never(w, c)
    BY <1>4, <1>5, <2>1 DEF Never
  <2>3. ASSUME Once(l, c) PROVE Once(w, c)
    <3>1. PICK j \in DOMAIN l : l[j] = c /\ \A h \in DOMAIN l : l[h] = c => h = j
      BY <2>3 DEF Once
    <3>2. j + 1 \in DOMAIN w /\ w[j + 1] = c
      BY <1>4, <3>1
    <3>3. \A h \in DOMAIN w : w[h] = c => h = j + 1
      BY <1>5, <2>1, <3>1
    <3> QED BY <3>2, <3>3 DEF Once
  <2>4. ASSUME Once(w, c) PROVE Once(l, c)
    <3>1. PICK j \in DOMAIN w : w[j] = c /\ \A h \in DOMAIN w : w[h] = c => h = j
      BY <2>4 DEF Once
    <3>2. j - 1 \in DOMAIN l /\ l[j - 1] = c
      BY <1>5, <2>1, <3>1
    <3>3. \A h \in DOMAIN l : l[h] = c => h = j - 1
      BY <1>0, <1>2, <1>4, <3>1
    <3> QED BY <3>2, <3>3 DEF Once
  <2> QED BY <2>2, <2>3, <2>4 DEF Alike
<1>7. ~Never(w, x)
  BY <1>3 DEF Never
<1>8. ASSUME Never(l, x) PROVE Once(w, x)
  BY <1>3, <1>5, <1>8 DEF Never, Once
<1> QED BY <1>1, <1>6, <1>7, <1>8 DEF w

\* Without its first tag.
LEMMA Beheaded ==
    ASSUME NEW l \in Seq(Creature), l # <<>>
    PROVE  /\ Tail(l) \in Seq(Creature)
           /\ \A c \in Creature \ {Head(l)} : Alike(l, Tail(l), c)
<1> DEFINE w == Tail(l)
<1>0. DOMAIN l = 1..Len(l) /\ Len(l) \in Nat /\ Head(l) = l[1] /\ Head(l) \in Creature
  BY LenProperties, HeadTailProperties
<1>1. /\ w \in Seq(Creature) /\ Len(w) = Len(l) - 1
      /\ \A j \in 1..Len(w) : w[j] = l[j + 1]
  BY HeadTailProperties
<1>2. DOMAIN w = 1..Len(l) - 1
  BY <1>1, LenProperties
<1> HIDE DEF w
<1>3. \A j \in DOMAIN w : j + 1 \in DOMAIN l /\ w[j] = l[j + 1] /\ j + 1 # 1
  BY <1>0, <1>1, <1>2
<1>4. \A j \in DOMAIN l \ {1} : j - 1 \in DOMAIN w /\ w[j - 1] = l[j] /\ j = (j - 1) + 1
  BY <1>0, <1>1, <1>2
<1>5. ASSUME NEW c \in Creature \ {Head(l)} PROVE Alike(l, w, c)
  <2>1. \A j \in DOMAIN l : l[j] = c => j \in DOMAIN l \ {1}
    BY <1>0
  <2>2. Never(l, c) <=> Never(w, c)
    BY <1>3, <1>4, <2>1 DEF Never
  <2>3. ASSUME Once(w, c) PROVE Once(l, c)
    <3>1. PICK j \in DOMAIN w : w[j] = c /\ \A h \in DOMAIN w : w[h] = c => h = j
      BY <2>3 DEF Once
    <3>2. j + 1 \in DOMAIN l /\ l[j + 1] = c
      BY <1>3, <3>1
    <3>3. \A h \in DOMAIN l : l[h] = c => h = j + 1
      BY <1>4, <2>1, <3>1
    <3> QED BY <3>2, <3>3 DEF Once
  <2>4. ASSUME Once(l, c) PROVE Once(w, c)
    <3>1. PICK j \in DOMAIN l : l[j] = c /\ \A h \in DOMAIN l : l[h] = c => h = j
      BY <2>4 DEF Once
    <3>2. j - 1 \in DOMAIN w /\ w[j - 1] = c
      BY <1>4, <2>1, <3>1
    <3>3. \A h \in DOMAIN w : w[h] = c => h = j - 1
      BY <1>0, <1>2, <1>3, <3>1
    <3> QED BY <3>2, <3>3 DEF Once
  <2> QED BY <2>2, <2>3, <2>4 DEF Alike
<1> QED BY <1>1, <1>5 DEF w

\* How often a list names somebody, counted.
LEMMA Counted ==
    ASSUME NEW l \in Seq(Creature), NEW c
    PROVE  LET n == Cardinality({i \in DOMAIN l : l[i] = c})
           IN /\ Never(l, c) => n = 0
              /\ ~Never(l, c) => n >= 1
              /\ Once(l, c) => n = 1
<1> DEFINE T == {i \in DOMAIN l : l[i] = c}
<1>1. IsFiniteSet(T)
  <2>1. DOMAIN l = 1..Len(l) /\ Len(l) \in Nat
    BY LenProperties
  <2>2. IsFiniteSet(1..Len(l))
    BY <2>1, FS_Interval
  <2>3. T \in SUBSET (1..Len(l))
    BY <2>1
  <2> HIDE DEF T
  <2> QED BY <2>2, <2>3, FS_Subset
<1>2. (Never(l, c) <=> T = {}) /\ (Once(l, c) => \E i : T = {i})
  <2>1. Never(l, c) <=> T = {}
    BY DEF Never
  <2>2. ASSUME Once(l, c) PROVE \E i : T = {i}
    <3>1. PICK j \in DOMAIN l : l[j] = c /\ \A h \in DOMAIN l : l[h] = c => h = j
      BY <2>2 DEF Once
    <3>2. T = {j}
      BY <3>1
    <3> QED BY <3>2
  <2> QED BY <2>1, <2>2
<1> HIDE DEF T
<1>3. Cardinality(T) \in Nat /\ (Cardinality(T) = 0 <=> T = {})
  BY <1>1, FS_EmptySet, FS_CardinalityType
<1>4. Once(l, c) => Cardinality(T) = 1
  BY <1>1, <1>2, FS_Singleton
<1>5. ~Never(l, c) => Cardinality(T) >= 1
  BY <1>2, <1>3
<1> QED BY <1>2, <1>3, <1>4, <1>5 DEF T

-----------------------------------------------------------------------------
(* What most steps leave alone.                                            *)

\* The fields of a player.
LEMMA Lists ==
    ASSUME TypeOK, NEW p \in Player
    PROVE  first_fol[p] \in Seq(Creature) /\ p \in Creature /\ following[p] \in Player \cup {none}
  BY DEF TypeOK, Creature

\* Agrees looks at lists only by whom they name.
LEMMA AgreesKept ==
    ASSUME Agrees, playing \subseteq playing',
           \A c \in Player : following'[c] = following[c],
           \A c, p \in Player : Alike(first_fol[p], first_fol'[p], c)
    PROVE  Agrees'
  BY DEF Agrees, Alike

Call == [who : Player, cp : Seq(Creature)]

\* The calls of move under way.
LEMMA Walkers ==
    ASSUME TypeOK
    PROVE  /\ walk \in Seq(Call) /\ DOMAIN walk = 1..Len(walk) /\ Len(walk) \in Nat
           /\ \A i \in DOMAIN walk : walk[i].who \in Player /\ walk[i].cp \in Seq(Creature)
<1>1. walk \in Seq(Call)
  BY DEF TypeOK, Call
<1>2. DOMAIN walk = 1..Len(walk) /\ Len(walk) \in Nat
  BY <1>1, LenProperties
<1>3. \A i \in DOMAIN walk : walk[i] \in Call
  BY <1>1, <1>2, ElementOfSeq
<1> QED BY <1>1, <1>2, <1>3 DEF Call

\* Nobody is put on the stack and no player moves.
LEMMA WalkingKept ==
    ASSUME Walking, TypeOK, UNCHANGED walk_vars, server' = "up" => server = "up",
           walk = <<>> \/ \A p \in Player : parent_rom'[p] = parent_rom[p]
    PROVE  Walking'
  BY Walkers DEF Walking, walk_vars, WalkOnce

\* What leaves aliases alone, and monsters' leaders unless it takes them away.
LEMMA PossessedKept ==
    ASSUME Possessed, PartyAssumption, server' = "up" => server = "up",
           playing \subseteq playing',
           UNCHANGED alias_vars,
           \A m \in Monster : parent_rom[m] # none => parent_rom'[m] # none,
           \A m \in Monster :
              \/ following'[m] = none
              \/ /\ following'[m] = following[m]
                 /\ \A p \in Player : Alike(first_fol[p], first_fol'[p], m),
           TypeOK
    PROVE  Possessed'
<1>1. \A p \in Player : alias_crt[p] \in Monster \cup {none}
  BY DEF TypeOK
<1>2. MDMFOL \subseteq Monster
  BY DEF TypeOK
<1> SUFFICES ASSUME server' = "up"
             PROVE  /\ \A p \in Player : alias_crt[p] # none =>
                          /\ p \in playing'
                          /\ alias_crt[p] \in MDMFOL /\ parent_rom'[alias_crt[p]] # none
                          /\ \A q \in Player \ {p} : alias_crt[q] # alias_crt[p]
                          /\ following'[alias_crt[p]] # none =>
                                /\ following'[alias_crt[p]] = p
                                /\ ~Never(first_fol'[p], alias_crt[p])
                    /\ \A m \in MDMFOL : following'[m] # none => alias_crt[following'[m]] = m
  BY DEF Possessed, alias_vars
<1>3. ASSUME NEW p \in Player, alias_crt[p] # none
      PROVE  /\ p \in playing'
             /\ alias_crt[p] \in MDMFOL /\ parent_rom'[alias_crt[p]] # none
             /\ \A q \in Player \ {p} : alias_crt[q] # alias_crt[p]
             /\ following'[alias_crt[p]] # none =>
                   /\ following'[alias_crt[p]] = p
                   /\ ~Never(first_fol'[p], alias_crt[p])
  BY <1>1, <1>3 DEF Possessed, Alike
<1>4. \A m \in MDMFOL : following'[m] # none => alias_crt[following'[m]] = m
  BY <1>2 DEF Possessed
<1> QED BY <1>3, <1>4

\* Whoever leaves his leader is in no list any more.
LEMMA LeftLists ==
    ASSUME TypeOK, Agrees, NEW p \in Player
    PROVE  /\ DOMAIN Left(p) = Player
           /\ \A q \in Player :
                /\ Left(p)[q] \in Seq(Creature)
                /\ Never(Left(p)[q], p)
                /\ \A c \in Creature \ {p} : Alike(first_fol[q], Left(p)[q], c)
<1>1. DOMAIN Left(p) = Player
  BY DEF Left
<1>2. ASSUME NEW q \in Player
      PROVE  /\ Left(p)[q] \in Seq(Creature)
             /\ Never(Left(p)[q], p)
             /\ \A c \in Creature \ {p} : Alike(first_fol[q], Left(p)[q], c)
  <2>1. first_fol[q] \in Seq(Creature) /\ p \in Creature
    BY Lists
  <2>2. CASE q = following[p]
    <3>1. Left(p)[q] = Without(first_fol[q], p)
      BY <2>2 DEF Left
    <3>2. Once(first_fol[q], p)
      BY <2>2 DEF Agrees
    <3> QED BY <2>1, <3>1, <3>2, Removed
  <2>3. CASE q # following[p]
    <3>1. Left(p)[q] = first_fol[q]
      BY <2>3 DEF Left
    <3> QED BY <2>1, <2>3, <3>1 DEF Agrees, Alike
  <2> QED BY <2>2, <2>3
<1> QED BY <1>1, <1>2

\* Players are not monsters and none is neither.
LEMMA Apart == ASSUME PartyAssumption
               PROVE  /\ Player \cap Monster = {} /\ none \notin Player /\ none \notin Monster
                      /\ none \notin Room /\ Player \subseteq Creature /\ Monster \subseteq Creature
  BY DEF PartyAssumption, Creature

-----------------------------------------------------------------------------
(* The steps.                                                              *)

\* A player enters.
LEMMA Step_init_ply ==
    ASSUME PartyAssumption, IInv, NEW p \in Player, NEW r \in Room, init_ply(p, r)
    PROVE  IInv'
<1> USE PartyAssumption DEF IInv
<1>1. TypeOK'
  BY Apart DEF init_ply, follow_vars, alias_vars, walk_vars, TypeOK, Idle
<1>2. Agrees'
  BY AgreesKept DEF init_ply, follow_vars, Alike
<1>3. Walking'
  BY WalkingKept DEF init_ply, Idle
<1>4. Possessed'
  <2>1. \A m \in Monster : parent_rom[m] # none => parent_rom'[m] # none
    BY Apart DEF init_ply, TypeOK
  <2> QED BY <2>1, PossessedKept DEF init_ply, follow_vars, Alike
<1> QED BY <1>1, <1>2, <1>3, <1>4

\* A player leaves: his followers lose him, he loses his leader.
LEMMA Step_disconnect ==
    ASSUME PartyAssumption, IInv, NEW p \in Player, disconnect(p)
    PROVE  IInv'
<1> USE PartyAssumption DEF IInv
<1>1. /\ server = "up" /\ server' = "up" /\ walk = <<>> /\ UNCHANGED walk_vars
      /\ p \in playing /\ playing' = playing \ {p}
      /\ parent_rom' = [parent_rom EXCEPT ![p] = none]
      /\ MDMFOL' = MDMFOL \ {alias_crt[p]}
      /\ alias_crt' = [alias_crt EXCEPT ![p] = none]
  BY DEF disconnect, Idle, Gone
<1>2. \A c \in Creature :
         following'[c] = IF c = p \/ c \in ToSet(first_fol[p]) THEN none ELSE following[c]
  BY DEF disconnect, uninit_ply
<1>3. /\ DOMAIN first_fol' = Player
      /\ \A q \in Player : first_fol'[q] = IF q = p THEN <<>> ELSE Left(p)[q]
  BY LeftLists DEF disconnect, uninit_ply
<1>4. TypeOK'
  <2>1. following' \in [Creature -> Player \cup {none}]
    BY DEF disconnect, uninit_ply, TypeOK
  <2>2. \A q \in Player : first_fol'[q] \in Seq(Creature)
    BY <1>3, LeftLists, EmptySeq
  <2> QED BY <1>1, <1>3, <2>1, <2>2, Apart DEF TypeOK, walk_vars
<1>5. \A c \in Creature : c \in ToSet(first_fol[p]) <=> ~Never(first_fol[p], c)
  BY DEF ToSet, Never
<1>6. Agrees'
  <2> SUFFICES ASSUME NEW c \in Player, NEW q \in Player
               PROVE  IF following'[c] = q THEN Once(first_fol'[q], c) /\ {c, q} \subseteq playing'
                                           ELSE Never(first_fol'[q], c)
    BY DEF Agrees
  <2>0. c \in Creature
    BY Apart
  <2>1. CASE q = p
    <3>1. following'[c] # p
      BY <1>2, <1>5, <2>0, Apart DEF Agrees, Once, Never
    <3> QED BY <1>3, <2>1, <3>1 DEF Never
  <2>2. CASE q # p /\ c = p
    <3>1. following'[c] = none
      BY <1>2, <2>0, <2>2
    <3> QED BY <1>3, <2>2, <3>1, LeftLists, Apart
  <2>3. CASE q # p /\ c # p
    <3>1. Alike(first_fol[q], first_fol'[q], c)
      BY <1>3, <2>0, <2>3, LeftLists
    <3>2. following'[c] = q <=> following[c] = q
      BY <1>2, <1>5, <2>0, <2>3, Apart DEF Agrees
    <3> QED BY <1>1, <2>3, <3>1, <3>2 DEF Agrees, Alike
  <2> QED BY <2>1, <2>2, <2>3
<1>7. Walking'
  BY <1>1, WalkingKept
<1>8. Possessed'
  <2>1. ASSUME NEW q \in Player, alias_crt'[q] # none
        PROVE  /\ q \in playing'
               /\ alias_crt'[q] \in MDMFOL' /\ parent_rom'[alias_crt'[q]] # none
               /\ \A z \in Player \ {q} : alias_crt'[z] # alias_crt'[q]
               /\ following'[alias_crt'[q]] # none =>
                     /\ following'[alias_crt'[q]] = q
                     /\ ~Never(first_fol'[q], alias_crt'[q])
    <3> DEFINE m == alias_crt[q]
    <3>1. q # p /\ alias_crt'[q] = m /\ m \in Monster
      BY <1>1, <2>1, Apart DEF TypeOK
    <3>2. /\ q \in playing /\ m \in MDMFOL /\ parent_rom[m] # none
          /\ \A z \in Player \ {q} : alias_crt[z] # m
          /\ following[m] # none => following[m] = q /\ ~Never(first_fol[q], m)
      BY <1>1, <2>1, <3>1 DEF Possessed
    <3> HIDE DEF m
    <3>3. /\ q \in playing' /\ m \in MDMFOL' /\ parent_rom'[m] # none
          /\ \A z \in Player \ {q} : alias_crt'[z] # m
      BY <1>1, <3>1, <3>2, Apart DEF TypeOK
    <3>4. m \in Creature \ {p}
      BY <3>1, Apart
    <3>5. following'[m] # none => following'[m] = q /\ ~Never(first_fol'[q], m)
      BY <1>2, <1>3, <3>1, <3>2, <3>4, LeftLists DEF Alike
    <3> QED BY <3>1, <3>3, <3>5
  <2>2. ASSUME NEW m \in MDMFOL', following'[m] # none PROVE alias_crt'[following'[m]] = m
    <3>1. m \in MDMFOL /\ m \in Creature /\ m # alias_crt[p]
      BY <1>1, Apart DEF TypeOK
    <3>2. following'[m] = following[m] /\ following[m] \in Player
      BY <1>2, <2>2, <3>1 DEF TypeOK
    <3>3. alias_crt[following[m]] = m
      BY <1>1, <2>2, <3>1, <3>2 DEF Possessed
    <3> QED BY <1>1, <3>1, <3>2, <3>3 DEF TypeOK
  <2> QED BY <2>1, <2>2 DEF Possessed
<1> QED BY <1>4, <1>6, <1>7, <1>8

\* follow, and the two ways to part.
LEMMA Step_follow ==
    ASSUME PartyAssumption, IInv, NEW p \in Player, NEW q \in Player, follow(p, q)
    PROVE  IInv'
<1> USE PartyAssumption DEF IInv
<1> DEFINE joined == p # q
           l == Left(p)
<1>1. /\ server = "up" /\ walk = <<>> /\ {p, q} \subseteq playing
      /\ UNCHANGED <<playing, parent_rom, alias_vars, walk_vars, server>>
      /\ following' = [following EXCEPT ![p] = IF joined THEN q ELSE none]
  BY DEF follow, Idle
<1>2. /\ DOMAIN first_fol' = Player
      /\ \A z \in Player :
            first_fol'[z] = IF joined /\ z = q THEN <<p>> \o l[z] ELSE l[z]
  BY LeftLists DEF follow
<1> HIDE DEF l
<1>3. \A z \in Player :
         /\ l[z] \in Seq(Creature) /\ Never(l[z], p)
         /\ \A c \in Creature \ {p} : Alike(first_fol[z], l[z], c)
  BY LeftLists DEF l
<1>4. p \in Creature /\ q \in Creature
  BY Apart
<1>5. \A z \in Player :
         /\ first_fol'[z] \in Seq(Creature)
         /\ \A c \in Creature \ {p} : Alike(first_fol[z], first_fol'[z], c)
         /\ IF joined /\ z = q THEN Once(first_fol'[z], p) ELSE Never(first_fol'[z], p)
  <2> TAKE z \in Player
  <2>1. l[z] \in Seq(Creature) /\ Never(l[z], p)
        /\ \A c \in Creature \ {p} : Alike(first_fol[z], l[z], c)
    BY <1>3
  <2>2. CASE joined /\ z = q
    <3>1. first_fol'[z] = <<p>> \o l[z]
      BY <1>2, <2>2
    <3>2. /\ first_fol'[z] \in Seq(Creature) /\ Once(first_fol'[z], p)
          /\ \A c \in Creature \ {p} : Alike(l[z], first_fol'[z], c)
      BY <1>4, <2>1, <3>1, Prepended
    <3>3. \A c \in Creature \ {p} : Alike(first_fol[z], first_fol'[z], c)
      BY <2>1, <3>2 DEF Alike
    <3> QED BY <2>2, <3>2, <3>3
  <2>3. CASE ~(joined /\ z = q)
    <3>1. first_fol'[z] = l[z]
      BY <1>2, <2>3
    <3> QED BY <2>1, <2>3, <3>1
  <2> QED BY <2>2, <2>3
<1>6. TypeOK'
  BY <1>1, <1>2, <1>4, <1>5 DEF TypeOK, alias_vars, walk_vars
<1>7. Agrees'
  <2> SUFFICES ASSUME NEW c \in Player, NEW z \in Player
               PROVE  IF following'[c] = z THEN Once(first_fol'[z], c) /\ {c, z} \subseteq playing'
                                           ELSE Never(first_fol'[z], c)
    BY DEF Agrees
  <2>1. c \in Creature
    BY Apart
  <2>2. CASE c = p
    <3>1. following'[c] = z <=> joined /\ z = q
      BY <1>1, <1>4, <2>2, Apart DEF TypeOK
    <3> QED BY <1>1, <1>5, <2>2, <3>1
  <2>3. CASE c # p
    <3>1. following'[c] = following[c]
      BY <1>1, <2>1, <2>3 DEF TypeOK
    <3> QED BY <1>1, <1>5, <2>1, <2>3, <3>1 DEF Agrees, Alike
  <2> QED BY <2>2, <2>3
<1>8. Walking'
  BY <1>1, WalkingKept
<1>9. Possessed'
  <2>1. \A m \in Monster : following'[m] = following[m] /\ m \in Creature \ {p}
    BY <1>1, Apart DEF TypeOK
  <2> QED BY <1>1, <1>5, <2>1, PossessedKept
<1> QED BY <1>6, <1>7, <1>8, <1>9

\* He loses his leader.
LEMMA Step_loseLeader ==
    ASSUME PartyAssumption, IInv, NEW p \in Player, loseLeader(p)
    PROVE  IInv'
<1> USE PartyAssumption DEF IInv
<1>1. /\ server = "up" /\ walk = <<>>
      /\ UNCHANGED <<playing, parent_rom, alias_vars, walk_vars, server>>
      /\ following' = [following EXCEPT ![p] = none]
      /\ first_fol' = Left(p)
  BY DEF loseLeader, Idle
<1>2. p \in Creature
  BY Apart
<1>3. TypeOK'
  BY <1>1, <1>2, LeftLists DEF TypeOK, alias_vars, walk_vars
<1>4. Agrees'
  <2> SUFFICES ASSUME NEW c \in Player, NEW z \in Player
               PROVE  IF following'[c] = z THEN Once(first_fol'[z], c) /\ {c, z} \subseteq playing'
                                           ELSE Never(first_fol'[z], c)
    BY DEF Agrees
  <2>1. c \in Creature
    BY Apart
  <2>2. CASE c = p
    <3>1. following'[c] # z
      BY <1>1, <1>2, <2>2, Apart DEF TypeOK
    <3> QED BY <1>1, <2>2, <3>1, LeftLists
  <2>3. CASE c # p
    <3>1. following'[c] = following[c]
      BY <1>1, <2>1, <2>3 DEF TypeOK
    <3> QED BY <1>1, <2>1, <2>3, <3>1, LeftLists DEF Agrees, Alike
  <2> QED BY <2>2, <2>3
<1>5. Walking'
  BY <1>1, WalkingKept
<1>6. Possessed'
  <2>1. \A m \in Monster : following'[m] = following[m] /\ m \in Creature \ {p}
    BY <1>1, Apart DEF TypeOK
  <2> QED BY <1>1, <2>1, LeftLists, PossessedKept
<1> QED BY <1>3, <1>4, <1>5, <1>6

\* What lose and Release do to the lists: c leaves the list of p.
LEMMA Parted ==
    ASSUME PartyAssumption, TypeOK, Agrees, NEW p \in Player, NEW c \in Creature,
           c \in Player => following[c] = p,
           first_fol' = [first_fol EXCEPT ![p] = Without(@, c)],
           following' = [following EXCEPT ![c] = none],
           playing' = playing
    PROVE  /\ Agrees' /\ DOMAIN first_fol' = Player
           /\ \A q \in Player : first_fol'[q] \in Seq(Creature)
           /\ \A q \in Player : \A d \in Creature \ {c} : Alike(first_fol[q], first_fol'[q], d)
           /\ following' \in [Creature -> Player \cup {none}]
<1>1. \A q \in Player : first_fol'[q] = IF q = p THEN Without(first_fol[q], c) ELSE first_fol[q]
  BY DEF TypeOK
<1>2. \A q \in Player :
         /\ first_fol'[q] \in Seq(Creature)
         /\ \A d \in Creature \ {c} : Alike(first_fol[q], first_fol'[q], d)
  <2> TAKE q \in Player
  <2>1. first_fol[q] \in Seq(Creature)
    BY Lists
  <2>2. CASE q = p
    <3>1. first_fol'[q] = Without(first_fol[q], c)
      BY <1>1, <2>2
    <3> QED BY <2>1, <3>1, Removed
  <2>3. CASE q # p
    BY <1>1, <2>1, <2>3 DEF Alike
  <2> QED BY <2>2, <2>3
<1>3. DOMAIN first_fol' = Player /\ following' \in [Creature -> Player \cup {none}]
  BY DEF TypeOK
<1>4. Agrees'
  <2> SUFFICES ASSUME NEW d \in Player, NEW q \in Player
               PROVE  IF following'[d] = q THEN Once(first_fol'[q], d) /\ {d, q} \subseteq playing'
                                           ELSE Never(first_fol'[q], d)
    BY DEF Agrees
  <2>1. d \in Creature
    BY Apart
  <2>2. CASE d = c
    <3>1. following'[d] # q /\ following[d] = p
      BY <2>2, Apart DEF TypeOK
    <3>2. Never(first_fol'[q], d)
      <4>1. CASE q = p
        <5>1. Once(first_fol[p], d) /\ first_fol[p] \in Seq(Creature)
          BY <3>1, Lists DEF Agrees
        <5> QED BY <1>1, <2>2, <4>1, <5>1, Removed
      <4>2. CASE q # p
        BY <1>1, <3>1, <4>2 DEF Agrees
      <4> QED BY <4>1, <4>2
    <3> QED BY <3>1, <3>2
  <2>3. CASE d # c
    <3>1. following'[d] = following[d]
      BY <2>1, <2>3 DEF TypeOK
    <3> QED BY <1>2, <2>1, <2>3, <3>1 DEF Agrees, Alike
  <2> QED BY <2>2, <2>3
<1> QED BY <1>2, <1>3, <1>4

\* He makes somebody lose him.
LEMMA Step_lose ==
    ASSUME PartyAssumption, IInv, NEW p \in Player, NEW c \in Creature, lose(p, c)
    PROVE  IInv'
<1> USE PartyAssumption DEF IInv
<1>1. /\ server = "up" /\ walk = <<>> /\ following[c] = p
      /\ UNCHANGED <<playing, parent_rom, alias_vars, walk_vars, server>>
      /\ following' = [following EXCEPT ![c] = none]
      /\ first_fol' = [first_fol EXCEPT ![p] = Without(@, c)]
  BY DEF lose, Idle
<1>2. /\ Agrees' /\ DOMAIN first_fol' = Player
      /\ \A q \in Player : first_fol'[q] \in Seq(Creature)
      /\ \A q \in Player : \A d \in Creature \ {c} : Alike(first_fol[q], first_fol'[q], d)
      /\ following' \in [Creature -> Player \cup {none}]
  BY <1>1, Parted
<1>3. TypeOK'
  BY <1>1, <1>2 DEF TypeOK, alias_vars, walk_vars
<1>4. Walking'
  BY <1>1, WalkingKept
<1>5. Possessed'
  <2>1. \A m \in Monster : m \in Creature
                          /\ following'[m] = IF m = c THEN none ELSE following[m]
    BY <1>1, Apart DEF TypeOK
  <2>2. \A m \in Monster :
           \/ following'[m] = none
           \/ /\ following'[m] = following[m]
              /\ \A q \in Player : Alike(first_fol[q], first_fol'[q], m)
    BY <1>2, <2>1
  <2> QED BY <1>1, <2>2, PossessedKept
<1> QED BY <1>2, <1>3, <1>4, <1>5

\* Where a player and the monster he possesses are after he has gone.
LEMMA AliasMoves ==
    ASSUME PartyAssumption, TypeOK, NEW p \in Player, p \in playing, NEW r \in Room,
           AliasAt(p, r)
    PROVE  /\ parent_rom' \in [Creature -> Room \cup {none}]
           /\ server' \in {"up", "crashed", "wild"}
           /\ \A q \in Player \ {p} : parent_rom'[q] = parent_rom[q]
           /\ parent_rom'[p] # none
           /\ server' = "up" => parent_rom'[p] = r
           /\ \A m \in Monster : parent_rom[m] # none => parent_rom'[m] # none
<1> DEFINE m == alias_crt[p]
<1>1. m \in Monster \cup {none} /\ p \in Creature /\ parent_rom[p] # none
      /\ Player \subseteq Creature /\ Monster \subseteq Creature
  BY Apart DEF TypeOK
<1>2. \/ m = none /\ parent_rom' = [parent_rom EXCEPT ![p] = r] /\ server' = "up"
      \/ m # none /\ parent_rom' = [parent_rom EXCEPT ![p] = r, ![m] = r] /\ server' = "up"
      \/ parent_rom' = parent_rom /\ server' \in {"wild", "crashed"}
  BY DEF AliasAt
<1> HIDE DEF m
<1>3. parent_rom \in [Creature -> Room \cup {none}]
  BY DEF TypeOK
<1>4. CASE m = none /\ parent_rom' = [parent_rom EXCEPT ![p] = r] /\ server' = "up"
  BY <1>1, <1>3, <1>4, Apart
<1>5. CASE m # none /\ parent_rom' = [parent_rom EXCEPT ![p] = r, ![m] = r] /\ server' = "up"
  BY <1>1, <1>3, <1>5, Apart
<1>6. CASE parent_rom' = parent_rom /\ server' \in {"wild", "crashed"}
  BY <1>1, <1>3, <1>6, Apart
<1> QED BY <1>2, <1>4, <1>5, <1>6

\* Players have moved, with or without the monsters they possess.
LEMMA MovedTypes ==
    ASSUME PartyAssumption, TypeOK, NEW p \in Player, p \in playing,
           UNCHANGED <<playing, follow_vars, alias_vars>>,
           parent_rom' \in [Creature -> Room \cup {none}],
           server' \in {"up", "crashed", "wild"},
           \A q \in Player \ {p} : parent_rom'[q] = parent_rom[q],
           parent_rom'[p] # none,
           walk' \in Seq(Call), {old_rom', new_rom'} \subseteq Room \cup {none}
    PROVE  TypeOK'
  BY DEF TypeOK, follow_vars, alias_vars, Call

\* He goes alone.
LEMMA Step_flee ==
    ASSUME PartyAssumption, IInv, NEW p \in Player, NEW r \in Room, flee(p, r) \/ Whisked(p, r)
    PROVE  IInv'
<1> USE PartyAssumption DEF IInv
<1>1. /\ server = "up" /\ walk = <<>> /\ p \in playing
      /\ UNCHANGED <<playing, follow_vars, alias_vars, walk_vars>>
  BY DEF flee, Whisked, Idle
<1>2. /\ parent_rom' \in [Creature -> Room \cup {none}]
      /\ server' \in {"up", "crashed", "wild"}
      /\ \A q \in Player \ {p} : parent_rom'[q] = parent_rom[q]
      /\ parent_rom'[p] # none
      /\ \A m \in Monster : parent_rom[m] # none => parent_rom'[m] # none
  <2>1. CASE flee(p, r)
    BY <1>1, <2>1, AliasMoves DEF flee
  <2>2. CASE Whisked(p, r)
    BY <1>1, <2>2, Apart DEF Whisked, TypeOK
  <2> QED BY <2>1, <2>2
<1>3. TypeOK'
  <2>1. walk' \in Seq(Call) /\ {old_rom', new_rom'} \subseteq Room \cup {none}
    BY <1>1 DEF walk_vars, TypeOK, Call
  <2> QED BY <1>1, <1>2, <2>1, MovedTypes
<1>4. Agrees'
  BY <1>1, AgreesKept DEF follow_vars, Alike
<1>5. Walking'
  BY <1>1, WalkingKept
<1>6. Possessed'
  BY <1>1, <1>2, PossessedKept DEF follow_vars, Alike
<1> QED BY <1>3, <1>4, <1>5, <1>6

\* A call of move begins, on top of the calls under way.
LEMMA Step_GoesTo ==
    ASSUME PartyAssumption, IInv, server = "up", NEW p \in Player, NEW r \in Room,
           NEW from \in Room, parent_rom[p] = from, NEW calls \in Seq(Call),
           \A i \in DOMAIN calls : parent_rom[calls[i].who] = r,
           \A i, j \in DOMAIN calls : i # j => calls[i].who # calls[j].who,
           GoesTo(p, from, r, calls), old_rom' = from, new_rom' = r
    PROVE  IInv'
<1> USE PartyAssumption DEF IInv
<1> DEFINE top == [who |-> p, cp |-> first_fol[p]]
<1>1. /\ r # from /\ AliasAt(p, r) /\ walk' = <<top>> \o calls
      /\ UNCHANGED <<playing, follow_vars, alias_vars>>
  BY DEF GoesTo
<1>2. p \in playing /\ top \in Call /\ top.who = p
  BY Apart, Lists DEF TypeOK, Call
<1> HIDE DEF top
<1>3. /\ parent_rom' \in [Creature -> Room \cup {none}]
      /\ server' \in {"up", "crashed", "wild"}
      /\ \A q \in Player \ {p} : parent_rom'[q] = parent_rom[q]
      /\ parent_rom'[p] # none
      /\ server' = "up" => parent_rom'[p] = r
      /\ \A m \in Monster : parent_rom[m] # none => parent_rom'[m] # none
  BY <1>1, <1>2, AliasMoves
<1>4. /\ walk' \in Seq(Call)
      /\ DOMAIN calls = 1..Len(calls) /\ Len(calls) \in Nat
      /\ DOMAIN walk' = 1..Len(calls) + 1
      /\ \A i \in DOMAIN walk' : walk'[i] = IF i = 1 THEN top ELSE calls[i - 1]
      /\ \A i \in DOMAIN calls : calls[i].who \in Player
  <2>1. <<top>> \in Seq(Call) /\ Len(<<top>>) = 1 /\ <<top>>[1] = top
    BY <1>2
  <2>2. /\ walk' \in Seq(Call) /\ Len(walk') = Len(<<top>>) + Len(calls)
        /\ \A i \in 1..Len(<<top>>) + Len(calls) :
              walk'[i] = IF i <= Len(<<top>>) THEN <<top>>[i] ELSE calls[i - Len(<<top>>)]
    BY <1>1, <2>1, ConcatProperties
  <2>3. DOMAIN calls = 1..Len(calls) /\ Len(calls) \in Nat
    BY LenProperties
  <2>4. \A i \in DOMAIN calls : calls[i].who \in Player
    <3>1. \A i \in DOMAIN calls : calls[i] \in Call
      BY <2>3, ElementOfSeq
    <3> QED BY <3>1 DEF Call
  <2>5. DOMAIN walk' = 1..Len(walk')
    BY <2>2, LenProperties
  <2> QED BY <2>1, <2>2, <2>3, <2>4, <2>5
<1>5. \A i \in DOMAIN walk' \ {1} : i - 1 \in DOMAIN calls /\ walk'[i] = calls[i - 1]
  BY <1>4
<1>6. TypeOK'
  BY <1>1, <1>2, <1>3, <1>4, MovedTypes
<1>7. Agrees'
  BY <1>1, AgreesKept DEF follow_vars, Alike
<1>8. \A i \in DOMAIN calls : calls[i].who # p
  BY <1>1
<1>9. Walking'
  <2>1. WalkOnce'
    <3> SUFFICES ASSUME NEW i \in DOMAIN walk', NEW j \in DOMAIN walk', i # j
                 PROVE  walk'[i].who # walk'[j].who
      BY DEF WalkOnce
    <3>1. CASE i = 1
      BY <1>2, <1>4, <1>5, <1>8, <3>1
    <3>2. CASE j = 1
      BY <1>2, <1>4, <1>5, <1>8, <3>2
    <3>3. CASE i # 1 /\ j # 1
      <4>1. i - 1 # j - 1
        BY <1>4
      <4> QED BY <1>5, <3>3, <4>1
    <3> QED BY <3>1, <3>2, <3>3
  <2>2. ASSUME server' = "up", NEW i \in DOMAIN walk' PROVE parent_rom'[walk'[i].who] = r
    <3>1. CASE i = 1
      BY <1>2, <1>3, <1>4, <2>2, <3>1
    <3>2. CASE i # 1
      BY <1>3, <1>4, <1>5, <1>8, <3>2
    <3> QED BY <3>1, <3>2
  <2> QED BY <1>1, <2>1, <2>2 DEF Walking
<1>10. Possessed'
  BY <1>1, <1>3, PossessedKept DEF follow_vars, Alike
<1> QED BY <1>6, <1>7, <1>9, <1>10

\* He goes, and his followers will be called for.
LEMMA Step_move ==
    ASSUME PartyAssumption, IInv, NEW p \in Player, NEW r \in Room, move(p, r)
    PROVE  IInv'
<1>1. server = "up" /\ p \in playing /\ GoesTo(p, parent_rom[p], r, <<>>)
      /\ old_rom' = parent_rom[p] /\ new_rom' = r
  BY DEF move, Idle
<1>2. parent_rom[p] \in Room
  BY <1>1, Apart DEF IInv, TypeOK
<1>3. <<>> \in Seq(Call) /\ DOMAIN <<>> = {}
  BY EmptySeq
<1> QED BY <1>1, <1>2, <1>3, Step_GoesTo

\* The follower is off the list of the call: the callers are the same.
LEMMA RestProperties ==
    ASSUME TypeOK, walk # <<>>, Head(walk).cp # <<>>
    PROVE  /\ Rest \in Seq(Call) /\ DOMAIN Rest = DOMAIN walk
           /\ \A i \in DOMAIN walk : Rest[i].who = walk[i].who
<1> DEFINE top == [Head(walk) EXCEPT !.cp = Tail(@)]
<1>1. /\ walk \in Seq(Call) /\ DOMAIN walk = 1..Len(walk) /\ Len(walk) \in Nat \ {0}
      /\ \A i \in DOMAIN walk : walk[i].who \in Player /\ walk[i].cp \in Seq(Creature)
  BY Walkers, EmptySeq
<1>2. Head(walk) = walk[1] /\ Head(walk) \in Call
  BY <1>1, HeadTailProperties
<1>3. top \in Call /\ top.who = walk[1].who
  <2>1. Tail(Head(walk).cp) \in Seq(Creature)
    <3>1. Head(walk).cp \in Seq(Creature)
      BY <1>2 DEF Call
    <3> QED BY <3>1, HeadTailProperties
  <2> QED BY <1>2, <2>1 DEF Call
<1>4. Rest = <<top>> \o Tail(walk)
  BY DEF Rest
<1> HIDE DEF top
<1>5. /\ Tail(walk) \in Seq(Call) /\ Len(Tail(walk)) = Len(walk) - 1
      /\ \A i \in 1..Len(walk) - 1 : Tail(walk)[i] = walk[i + 1]
  BY <1>1, HeadTailProperties
<1>6. <<top>> \in Seq(Call) /\ Len(<<top>>) = 1 /\ <<top>>[1] = top
  BY <1>3
<1>7. /\ Rest \in Seq(Call) /\ Len(Rest) = Len(walk)
      /\ \A i \in 1..Len(walk) : Rest[i] = IF i <= 1 THEN top ELSE Tail(walk)[i - 1]
  BY <1>1, <1>4, <1>5, <1>6, ConcatProperties
<1>8. DOMAIN Rest = 1..Len(walk)
  BY <1>7, LenProperties
<1>9. \A i \in 1..Len(walk) : Rest[i] = IF i <= 1 THEN top ELSE walk[i]
  BY <1>1, <1>5, <1>7
<1> QED BY <1>1, <1>3, <1>7, <1>8, <1>9

\* A player moves while a group does, and the stack is as given.
LEMMA MovedAlone ==
    ASSUME PartyAssumption, IInv, server = "up", NEW c \in Player, NEW r \in Room,
           parent_rom[c] # none,
           parent_rom' = [parent_rom EXCEPT ![c] = r],
           UNCHANGED <<playing, follow_vars, alias_vars, server>>,
           walk' \in Seq(Call), {old_rom', new_rom'} \subseteq Room \cup {none},
           Walking'
    PROVE  IInv'
<1> USE PartyAssumption DEF IInv
<1>1. /\ parent_rom' \in [Creature -> Room \cup {none}]
      /\ \A q \in Player \ {c} : parent_rom'[q] = parent_rom[q]
      /\ parent_rom'[c] # none
      /\ \A m \in Monster : parent_rom[m] # none => parent_rom'[m] # none
      /\ c \in playing /\ server' \in {"up", "crashed", "wild"}
  BY Apart DEF TypeOK
<1>2. TypeOK'
  BY <1>1, MovedTypes
<1>3. Agrees'
  BY AgreesKept DEF follow_vars, Alike
<1>4. Possessed'
  BY <1>1, PossessedKept DEF follow_vars, Alike
<1> QED BY <1>2, <1>3, <1>4

\* The next follower who is still in the old room is called.
LEMMA Step_NextFollower ==
    ASSUME PartyAssumption, IInv, NextFollower
    PROVE  IInv'
<1> USE PartyAssumption DEF IInv
<1> DEFINE c == Head(Head(walk).cp)
<1>1. server = "up" /\ walk # <<>> /\ Head(walk).cp # <<>> /\ UNCHANGED <<old_rom, new_rom>>
  BY DEF NextFollower
<1>2. /\ Rest \in Seq(Call) /\ DOMAIN Rest = DOMAIN walk
      /\ \A i \in DOMAIN walk : Rest[i].who = walk[i].who /\ walk[i].who \in Player
  BY <1>1, RestProperties, Walkers
<1>3. /\ old_rom \in Room /\ new_rom \in Room /\ old_rom # new_rom
      /\ \A i \in DOMAIN walk : parent_rom[walk[i].who] = new_rom
      /\ \A i, j \in DOMAIN walk : i # j => walk[i].who # walk[j].who
  BY <1>1 DEF Walking, WalkOnce
<1>4. \/ ComesAlong(c) /\ GoesTo(c, old_rom, new_rom, Rest)
      \/ /\ ComesAlong(c) /\ walk' = Rest
         /\ \E r \in Room : parent_rom' = [parent_rom EXCEPT ![c] = r]
         /\ UNCHANGED <<playing, follow_vars, alias_vars, server>>
      \/ /\ walk' = Rest
         /\ UNCHANGED <<playing, parent_rom, follow_vars, alias_vars, server>>
  BY DEF NextFollower
<1> HIDE DEF c
<1>5. CASE ComesAlong(c) /\ GoesTo(c, old_rom, new_rom, Rest)
  <2>1. c \in Player /\ parent_rom[c] = old_rom
    BY <1>5 DEF ComesAlong
  <2> QED BY <1>1, <1>2, <1>3, <1>5, <2>1, Step_GoesTo
<1>6. CASE /\ ComesAlong(c) /\ walk' = Rest
           /\ \E r \in Room : parent_rom' = [parent_rom EXCEPT ![c] = r]
           /\ UNCHANGED <<playing, follow_vars, alias_vars, server>>
  <2>1. c \in Player /\ parent_rom[c] = old_rom /\ old_rom # none
    BY <1>3, <1>6, Apart DEF ComesAlong
  <2>2. PICK r \in Room : parent_rom' = [parent_rom EXCEPT ![c] = r]
    BY <1>6
  <2>3. \A i \in DOMAIN walk : parent_rom'[walk[i].who] = new_rom
    <3> TAKE i \in DOMAIN walk
    <3>1. walk[i].who # c /\ walk[i].who \in Creature
      BY <1>2, <1>3, <2>1, Apart
    <3> QED BY <1>3, <2>2, <3>1 DEF TypeOK
  <2>4. Walking'
    BY <1>1, <1>2, <1>3, <1>6, <2>3 DEF Walking, WalkOnce
  <2>5. {old_rom', new_rom'} \subseteq Room \cup {none}
    BY <1>1, <1>3
  <2> QED BY <1>1, <1>2, <1>6, <2>1, <2>2, <2>4, <2>5, MovedAlone
<1>7. CASE /\ walk' = Rest
           /\ UNCHANGED <<playing, parent_rom, follow_vars, alias_vars, server>>
  <2>1. TypeOK'
    BY <1>1, <1>2, <1>7 DEF TypeOK, follow_vars, alias_vars, Call
  <2>2. Agrees'
    BY <1>7, AgreesKept DEF follow_vars, Alike
  <2>3. Walking'
    BY <1>1, <1>2, <1>3, <1>7 DEF Walking, WalkOnce
  <2>4. Possessed'
    BY <1>7, PossessedKept DEF follow_vars, Alike
  <2> QED BY <2>1, <2>2, <2>3, <2>4
<1> QED BY <1>4, <1>5, <1>6, <1>7

\* Nobody is left to call.
LEMMA Step_Arrived ==
    ASSUME PartyAssumption, IInv, Arrived
    PROVE  IInv'
<1> USE PartyAssumption DEF IInv
<1> DEFINE c == Head(walk).who
<1>1. /\ server = "up" /\ walk # <<>> /\ walk' = Tail(walk)
      /\ UNCHANGED <<playing, follow_vars, alias_vars, server>>
      /\ IF walk' = <<>> THEN old_rom' = none /\ new_rom' = none
                         ELSE UNCHANGED <<old_rom, new_rom>>
  BY DEF Arrived
<1>2. PICK r \in Room : parent_rom' = [parent_rom EXCEPT ![c] = r]
  BY DEF Arrived
<1>3. /\ walk \in Seq(Call) /\ DOMAIN walk = 1..Len(walk) /\ Len(walk) \in Nat \ {0}
      /\ \A i \in DOMAIN walk : walk[i].who \in Player
  BY <1>1, Walkers, EmptySeq
<1>4. /\ old_rom \in Room /\ new_rom \in Room /\ old_rom # new_rom
      /\ \A i \in DOMAIN walk : parent_rom[walk[i].who] = new_rom
      /\ \A i, j \in DOMAIN walk : i # j => walk[i].who # walk[j].who
  BY <1>1 DEF Walking, WalkOnce
<1>5. /\ Tail(walk) \in Seq(Call) /\ Len(Tail(walk)) = Len(walk) - 1
      /\ \A i \in 1..Len(Tail(walk)) : Tail(walk)[i] = walk[i + 1]
  BY <1>1, <1>3, HeadTailProperties
<1>6. DOMAIN Tail(walk) = 1..Len(walk) - 1
  BY <1>5, LenProperties
<1>7. c = walk[1].who /\ c \in Player /\ parent_rom[c] # none
  BY <1>1, <1>3, <1>4, HeadTailProperties, Apart
<1> HIDE DEF c
<1>8. \A i \in DOMAIN walk' :
         /\ i + 1 \in DOMAIN walk /\ walk'[i] = walk[i + 1]
         /\ walk[i + 1].who # c /\ walk[i + 1].who \in Creature
  BY <1>1, <1>3, <1>4, <1>5, <1>6, <1>7, Apart
<1>9. \A i \in DOMAIN walk' : parent_rom'[walk'[i].who] = new_rom
  <2> TAKE i \in DOMAIN walk'
  <2>1. parent_rom'[walk[i + 1].who] = parent_rom[walk[i + 1].who]
    BY <1>2, <1>8 DEF TypeOK
  <2> QED BY <1>4, <1>8, <2>1
<1>10. \A i, j \in DOMAIN walk' : i # j => walk'[i].who # walk'[j].who
  <2> TAKE i, j \in DOMAIN walk'
  <2>1. i # j => i + 1 # j + 1
    BY <1>1, <1>6
  <2> QED BY <1>4, <1>8, <2>1
<1>11. walk' = <<>> => DOMAIN walk' = {}
  OBVIOUS
<1>12. Walking'
  BY <1>1, <1>4, <1>9, <1>10, <1>11 DEF Walking, WalkOnce
<1>13. {old_rom', new_rom'} \subseteq Room \cup {none}
  BY <1>1, <1>4
<1> QED BY <1>1, <1>2, <1>5, <1>7, <1>12, <1>13, MovedAlone

\* A monster loses its flag and whoever possessed it, whatever becomes of it
\* otherwise: a release, a death, a bribe, a purge, an unloaded room, a save.
LEMMA Dispossessed ==
    ASSUME PartyAssumption, IInv, NEW m \in Monster, server = "up", walk = <<>>,
           playing' = playing, UNCHANGED walk_vars,
           parent_rom' \in [Creature -> Room \cup {none}],
           \A c \in Creature \ {m} : parent_rom'[c] = parent_rom[c],
           following' \in [Creature -> Player \cup {none}],
           \A c \in Creature \ {m} : following'[c] = following[c],
           DOMAIN first_fol' = Player,
           \A p \in Player :
              /\ first_fol'[p] \in Seq(Creature)
              /\ \A c \in Creature \ {m} : Alike(first_fol[p], first_fol'[p], c),
           alias_crt' \in [Player -> Monster \cup {none}],
           \A p \in Player : \/ alias_crt'[p] = alias_crt[p]
                             \/ alias_crt'[p] = none /\ alias_crt[p] = m,
           MDMFOL' = MDMFOL \ {m},
           server' \in {"up", "crashed", "wild"},
           server' = "up" => \A p \in Player : alias_crt'[p] # m
    PROVE  IInv'
<1> USE PartyAssumption DEF IInv
<1>1. \A p \in Player : p \in Creature \ {m}
  BY Apart
<1>2. \A p \in Player : alias_crt'[p] \in Monster \cup {none}
  OBVIOUS
<1>3. TypeOK'
  BY <1>1 DEF TypeOK, walk_vars
<1>4. Agrees'
  BY <1>1, AgreesKept
<1>5. Walking'
  BY WalkingKept
<1>6. Possessed'
  <2>1. ASSUME server' = "up", NEW q \in Player, alias_crt'[q] # none
        PROVE  /\ q \in playing'
               /\ alias_crt'[q] \in MDMFOL' /\ parent_rom'[alias_crt'[q]] # none
               /\ \A z \in Player \ {q} : alias_crt'[z] # alias_crt'[q]
               /\ following'[alias_crt'[q]] # none =>
                     /\ following'[alias_crt'[q]] = q
                     /\ ~Never(first_fol'[q], alias_crt'[q])
    <3> DEFINE k == alias_crt[q]
    <3>1. alias_crt'[q] = k /\ k # m /\ k \in Creature \ {m} /\ k # none
      BY <1>2, <2>1, Apart
    <3>2. /\ q \in playing /\ k \in MDMFOL /\ parent_rom[k] # none
          /\ \A z \in Player \ {q} : alias_crt[z] # k
          /\ following[k] # none => following[k] = q /\ ~Never(first_fol[q], k)
      BY <3>1 DEF Possessed
    <3> HIDE DEF k
    <3>3. \A z \in Player \ {q} : alias_crt'[z] # k
      BY <3>1, <3>2
    <3>4. following'[k] # none => following'[k] = q /\ ~Never(first_fol'[q], k)
      BY <3>1, <3>2 DEF Alike
    <3> QED BY <3>1, <3>2, <3>3, <3>4
  <2>2. ASSUME NEW k \in MDMFOL', following'[k] # none PROVE alias_crt'[following'[k]] = k
    <3>1. k \in MDMFOL /\ k # m /\ k \in Creature
      BY Apart DEF TypeOK
    <3>2. following'[k] = following[k] /\ following[k] \in Player
      BY <2>2, <3>1 DEF TypeOK
    <3>3. alias_crt[following[k]] = k
      BY <2>2, <3>1, <3>2 DEF Possessed
    <3> QED BY <3>1, <3>2, <3>3
  <2> QED BY <2>1, <2>2 DEF Possessed
<1> QED BY <1>3, <1>4, <1>5, <1>6

\* A list whose first tag is m may lose it.
LEMMA FirstTag ==
    ASSUME TypeOK, NEW p \in Player, NEW m \in Monster, first_fol[p] # <<>>,
           NEW k, k = IF Head(first_fol[p]) = m THEN Tail(first_fol[p]) ELSE first_fol[p]
    PROVE  /\ k \in Seq(Creature)
           /\ \A c \in Creature \ {m} : Alike(first_fol[p], k, c)
<1>1. first_fol[p] \in Seq(Creature)
  BY Lists
<1>2. CASE Head(first_fol[p]) = m
  BY <1>1, <1>2, Beheaded
<1>3. CASE Head(first_fol[p]) # m
  BY <1>1, <1>3 DEF Alike
<1> QED BY <1>2, <1>3

\* A null pointer is read.
LEMMA Step_Crash ==
    ASSUME PartyAssumption, IInv, Crash
    PROVE  IInv'
<1> USE PartyAssumption DEF IInv, Crash
<1>1. TypeOK'
  BY DEF TypeOK, follow_vars, alias_vars, walk_vars
<1>2. Agrees'
  BY AgreesKept DEF follow_vars, Alike
<1>3. Walking'
  BY WalkingKept
<1>4. Possessed'
  BY DEF Possessed
<1> QED BY <1>1, <1>2, <1>3, <1>4

\* A monster appears.
LEMMA Step_Appear ==
    ASSUME PartyAssumption, IInv, NEW m \in Monster, NEW r \in Room, Appear(m, r)
    PROVE  IInv'
<1> USE PartyAssumption DEF IInv
<1>1. /\ server = "up" /\ walk = <<>> /\ m \in Creature
      /\ parent_rom' = [parent_rom EXCEPT ![m] = r]
      /\ following' = [following EXCEPT ![m] = none]
      /\ UNCHANGED <<playing, first_fol, alias_vars, walk_vars, server>>
  BY Apart DEF Appear, Idle
<1>2. \A p \in Player : p \in Creature /\ following'[p] = following[p]
                      /\ parent_rom'[p] = parent_rom[p]
  BY <1>1, Apart DEF TypeOK
<1>3. TypeOK'
  BY <1>1, <1>2, Apart DEF TypeOK, alias_vars, walk_vars
<1>4. Agrees'
  BY <1>1, <1>2, AgreesKept DEF Alike
<1>5. Walking'
  BY <1>1, WalkingKept
<1>6. Possessed'
  <2>1. \A k \in Monster : parent_rom[k] # none => parent_rom'[k] # none
    BY <1>1, Apart DEF TypeOK
  <2>2. \A k \in Monster :
           \/ following'[k] = none
           \/ /\ following'[k] = following[k]
              /\ \A p \in Player : Alike(first_fol[p], first_fol'[p], k)
    BY <1>1, Apart DEF TypeOK, Alike
  <2> QED BY <1>1, <2>1, <2>2, PossessedKept
<1> QED BY <1>3, <1>4, <1>5, <1>6

\* What the steps that end a possession know of its possessor.
LEMMA Leader ==
    ASSUME PartyAssumption, IInv, server = "up", NEW m \in MDMFOL, following[m] # none
    PROVE  following[m] \in Player /\ alias_crt[following[m]] = m
  BY Apart DEF IInv, TypeOK, Possessed

\* A monster is freed: without a look at its possessor, or off the list of its
\* leader, who possesses it.
LEMMA Step_Freed ==
    ASSUME PartyAssumption, IInv, NEW m \in Monster, server = "up", walk = <<>>,
           NEW fol, NEW alias, Freed(m, fol, alias),
           \/ UNCHANGED following
           \/ following' = [following EXCEPT ![m] = none],
           DOMAIN fol = Player,
           \A p \in Player : /\ fol[p] \in Seq(Creature)
                             /\ \A c \in Creature \ {m} : Alike(first_fol[p], fol[p], c),
           \/ alias = alias_crt
           \/ \E p \in Player : alias_crt[p] = m /\ alias = [alias_crt EXCEPT ![p] = none]
    PROVE  IInv'
<1> USE PartyAssumption DEF IInv
<1>1. m \in Creature /\ m # none
  BY Apart
<1>2. /\ parent_rom' = [parent_rom EXCEPT ![m] = none]
      /\ first_fol' = fol /\ alias_crt' = alias /\ MDMFOL' = MDMFOL \ {m}
      /\ server' = IF m \in Named(fol, alias) THEN "wild" ELSE "up"
      /\ UNCHANGED <<playing, walk_vars>>
  BY DEF Freed
<1>3. /\ parent_rom' \in [Creature -> Room \cup {none}]
      /\ \A c \in Creature \ {m} : parent_rom'[c] = parent_rom[c]
  BY <1>1, <1>2 DEF TypeOK
<1>4. /\ following' \in [Creature -> Player \cup {none}]
      /\ \A c \in Creature \ {m} : following'[c] = following[c]
  BY <1>1 DEF TypeOK
<1>5. /\ alias_crt' \in [Player -> Monster \cup {none}]
      /\ \A p \in Player : \/ alias_crt'[p] = alias_crt[p]
                           \/ alias_crt'[p] = none /\ alias_crt[p] = m
  BY <1>2 DEF TypeOK
<1>6. server' = "up" => \A p \in Player : alias_crt'[p] # m
  <2>1. \A p \in Player : alias[p] = m => m \in Named(fol, alias)
    BY DEF Named
  <2> QED BY <1>2, <2>1
<1>7. server' \in {"up", "crashed", "wild"}
  BY <1>2
<1>8. /\ DOMAIN first_fol' = Player
      /\ \A p \in Player :
            /\ first_fol'[p] \in Seq(Creature)
            /\ \A c \in Creature \ {m} : Alike(first_fol[p], first_fol'[p], c)
  BY <1>2
<1>9. playing' = playing /\ UNCHANGED walk_vars /\ MDMFOL' = MDMFOL \ {m}
  BY <1>2
<1> QED BY <1>3, <1>4, <1>5, <1>6, <1>7, <1>8, <1>9, Dispossessed

\* One list changes, and only for a monster.
LEMMA WithoutMonster ==
    ASSUME TypeOK, NEW p \in Player, NEW m \in Monster, NEW k \in Seq(Creature),
           \A c \in Creature \ {m} : Alike(first_fol[p], k, c),
           NEW fol, fol = [first_fol EXCEPT ![p] = k]
    PROVE  /\ DOMAIN fol = Player
           /\ \A q \in Player : /\ fol[q] \in Seq(Creature)
                                /\ \A c \in Creature \ {m} : Alike(first_fol[q], fol[q], c)
<1>2. DOMAIN fol = Player /\ \A q \in Player : fol[q] = IF q = p THEN k ELSE first_fol[q]
  BY DEF TypeOK
<1>3. ASSUME NEW q \in Player
      PROVE  /\ fol[q] \in Seq(Creature)
             /\ \A c \in Creature \ {m} : Alike(first_fol[q], fol[q], c)
  <2>1. CASE q = p
    BY <1>2, <2>1
  <2>2. CASE q # p
    BY <1>2, <2>2, Lists DEF Alike
  <2> QED BY <2>1, <2>2
<1> QED BY <1>2, <1>3

\* Lists that stay name whom they named.
LEMMA SameLists ==
    ASSUME TypeOK
    PROVE  /\ DOMAIN first_fol = Player
           /\ \A q \in Player : /\ first_fol[q] \in Seq(Creature)
                                /\ \A c : Alike(first_fol[q], first_fol[q], c)
  BY DEF TypeOK, Alike

\* A monster dies.
LEMMA Step_die ==
    ASSUME PartyAssumption, IInv, NEW m \in Monster, die(m)
    PROVE  IInv'
<1> USE PartyAssumption DEF IInv
<1> DEFINE p == following[m]
           fol == [first_fol EXCEPT ![p] = Without(@, m)]
<1>1. /\ server = "up" /\ walk = <<>>
      /\ \/ Freed(m, first_fol, alias_crt) /\ UNCHANGED following
         \/ Crash
         \/ /\ m \in MDMFOL /\ p # none
            /\ Freed(m, fol, [alias_crt EXCEPT ![p] = none])
            /\ following' = [following EXCEPT ![m] = none]
  BY DEF die, Idle
<1>2. CASE Freed(m, first_fol, alias_crt) /\ UNCHANGED following
  BY <1>1, <1>2, SameLists, Step_Freed
<1>3. CASE Crash
  BY <1>3, Step_Crash
<1>4. CASE /\ m \in MDMFOL /\ p # none
           /\ Freed(m, fol, [alias_crt EXCEPT ![p] = none])
           /\ following' = [following EXCEPT ![m] = none]
  <2>1. p \in Player /\ alias_crt[p] = m
    BY <1>1, <1>4, Leader
  <2> DEFINE k == Without(first_fol[p], m)
  <2>2. fol = [first_fol EXCEPT ![p] = k]
    BY DEF TypeOK
  <2> HIDE DEF p, fol
  <2>9. k \in Seq(Creature) /\ \A c \in Creature \ {m} : Alike(first_fol[p], k, c)
    BY <2>1, Lists, Apart, Removed
  <2> HIDE DEF k
  <2>3. /\ DOMAIN fol = Player
        /\ \A q \in Player : /\ fol[q] \in Seq(Creature)
                             /\ \A c \in Creature \ {m} : Alike(first_fol[q], fol[q], c)
    BY <2>1, <2>2, <2>9, WithoutMonster
  <2> QED BY <1>1, <1>4, <2>1, <2>3, Step_Freed
<1> QED BY <1>1, <1>2, <1>3, <1>4

\* A monster is bribed, or goes with its room.
LEMMA Step_bribe ==
    ASSUME PartyAssumption, IInv, NEW m \in Monster, bribe(m) \/ free_rom(m)
    PROVE  IInv'
<1>1. server = "up" /\ walk = <<>> /\ Freed(m, first_fol, alias_crt) /\ UNCHANGED following
  BY DEF bribe, free_rom, Idle
<1> QED BY <1>1, SameLists, Step_Freed DEF IInv

\* A monster is purged.
LEMMA Step_dm_purge ==
    ASSUME PartyAssumption, IInv, NEW m \in Monster, dm_purge(m)
    PROVE  IInv'
<1> USE PartyAssumption DEF IInv
<1> DEFINE p == following[m]
           fol == [first_fol EXCEPT ![p] = IF Head(@) = m THEN Tail(@) ELSE @]
<1>1. /\ server = "up" /\ walk = <<>> /\ UNCHANGED following
      /\ \/ Freed(m, first_fol, alias_crt)
         \/ Crash
         \/ /\ m \in MDMFOL /\ p # none /\ first_fol[p] # <<>>
            /\ Freed(m, fol, [alias_crt EXCEPT ![p] = none])
  BY DEF dm_purge, Idle
<1>2. CASE Freed(m, first_fol, alias_crt)
  BY <1>1, <1>2, SameLists, Step_Freed
<1>3. CASE Crash
  BY <1>3, Step_Crash
<1>4. CASE /\ m \in MDMFOL /\ p # none /\ first_fol[p] # <<>>
           /\ Freed(m, fol, [alias_crt EXCEPT ![p] = none])
  <2>1. p \in Player /\ alias_crt[p] = m
    BY <1>1, <1>4, Leader
  <2> DEFINE k == IF Head(first_fol[p]) = m THEN Tail(first_fol[p]) ELSE first_fol[p]
  <2>2. fol = [first_fol EXCEPT ![p] = k]
    BY DEF TypeOK
  <2>9. k \in Seq(Creature) /\ \A c \in Creature \ {m} : Alike(first_fol[p], k, c)
    BY <1>4, <2>1, FirstTag
  <2> HIDE DEF p, fol, k
  <2>3. /\ DOMAIN fol = Player
        /\ \A q \in Player : /\ fol[q] \in Seq(Creature)
                             /\ \A c \in Creature \ {m} : Alike(first_fol[q], fol[q], c)
    BY <2>1, <2>2, <2>9, WithoutMonster
  <2> QED BY <1>1, <1>4, <2>1, <2>3, Step_Freed
<1> QED BY <1>1, <1>2, <1>3, <1>4

\* A monster is saved to its prototype and goes.
LEMMA Step_dm_save_crt ==
    ASSUME PartyAssumption, IInv, NEW m \in Monster, dm_save_crt(m)
    PROVE  IInv'
<1> USE PartyAssumption DEF IInv
<1> DEFINE p == following[m]
<1>1. /\ server = "up" /\ walk = <<>> /\ m \in MDMFOL
      /\ \/ Crash
         \/ /\ p # none /\ first_fol[p] # <<>>
            /\ MDMFOL' = MDMFOL \ {m}
            /\ alias_crt' = [alias_crt EXCEPT ![p] = none]
            /\ first_fol' = [first_fol EXCEPT ![p] = IF Head(@) = m THEN Tail(@) ELSE @]
            /\ UNCHANGED <<playing, parent_rom, following, walk_vars, server>>
  BY DEF dm_save_crt, Idle
<1>2. CASE Crash
  BY <1>2, Step_Crash
<1>3. CASE ~Crash
  <2>1. p \in Player /\ alias_crt[p] = m
    BY <1>1, <1>3, Leader
  <2> DEFINE k == IF Head(first_fol[p]) = m THEN Tail(first_fol[p]) ELSE first_fol[p]
  <2>2. first_fol' = [first_fol EXCEPT ![p] = k]
    BY <1>1, <1>3 DEF TypeOK
  <2>9. k \in Seq(Creature) /\ \A c \in Creature \ {m} : Alike(first_fol[p], k, c)
    BY <1>1, <1>3, <2>1, FirstTag
  <2> HIDE DEF p, k
  <2>3. /\ DOMAIN first_fol' = Player
        /\ \A q \in Player :
              /\ first_fol'[q] \in Seq(Creature)
              /\ \A c \in Creature \ {m} : Alike(first_fol[q], first_fol'[q], c)
    BY <2>1, <2>2, <2>9, WithoutMonster
  <2>4. /\ alias_crt' \in [Player -> Monster \cup {none}]
        /\ \A q \in Player : \/ alias_crt'[q] = alias_crt[q] /\ q # p
                             \/ alias_crt'[q] = none /\ alias_crt[q] = m
    BY <1>1, <1>3, <2>1 DEF TypeOK
  <2>5. \A q \in Player : alias_crt'[q] # m
    BY <1>1, <2>1, <2>4, Apart DEF Possessed
  <2>6. parent_rom' \in [Creature -> Room \cup {none}]
        /\ following' \in [Creature -> Player \cup {none}] /\ server' \in {"up", "crashed", "wild"}
    BY <1>1, <1>3 DEF TypeOK
  <2> QED BY <1>1, <1>3, <2>3, <2>4, <2>5, <2>6, Dispossessed
<1> QED BY <1>2, <1>3

\* A dungeon master leaves the monster he possesses.
LEMMA Step_Release ==
    ASSUME PartyAssumption, IInv, server = "up", walk = <<>>,
           NEW p \in Player, NEW m \in Monster, Release(p, m)
    PROVE  IInv'
<1> USE PartyAssumption DEF IInv
<1>1. /\ m \in MDMFOL /\ alias_crt[p] = m
      /\ \/ Crash
         \/ /\ MDMFOL' = MDMFOL \ {m}
            /\ first_fol' = [first_fol EXCEPT ![p] = Without(@, m)]
            /\ following' = [following EXCEPT ![m] = none]
            /\ alias_crt' = [alias_crt EXCEPT ![p] = none]
            /\ UNCHANGED <<playing, parent_rom, walk_vars, server>>
  BY DEF Release
<1>2. CASE Crash
  BY <1>2, Step_Crash
<1>3. CASE ~Crash
  <2>1. m \in Creature /\ m \notin Player
    BY Apart
  <2>2. /\ DOMAIN first_fol' = Player
        /\ \A q \in Player :
              /\ first_fol'[q] \in Seq(Creature)
              /\ \A c \in Creature \ {m} : Alike(first_fol[q], first_fol'[q], c)
        /\ following' \in [Creature -> Player \cup {none}]
    BY <1>1, <1>3, <2>1, Parted
  <2>3. /\ alias_crt' \in [Player -> Monster \cup {none}]
        /\ \A q \in Player : \/ alias_crt'[q] = alias_crt[q] /\ q # p
                             \/ alias_crt'[q] = none /\ alias_crt[q] = m
    BY <1>1, <1>3 DEF TypeOK
  <2>4. \A q \in Player : alias_crt'[q] # m
    BY <1>1, <2>3, Apart DEF Possessed
  <2>5. /\ parent_rom' \in [Creature -> Room \cup {none}] /\ server' \in {"up", "crashed", "wild"}
        /\ \A c \in Creature \ {m} : following'[c] = following[c]
    BY <1>1, <1>3 DEF TypeOK
  <2> QED BY <1>1, <1>3, <2>2, <2>3, <2>4, <2>5, Dispossessed
<1> QED BY <1>2, <1>3

\* A dungeon master enters a monster.
LEMMA Step_Possess ==
    ASSUME PartyAssumption, IInv, server = "up", walk = <<>>,
           NEW p \in Player, NEW m \in Monster, p \in playing, m \in Alive, Possess(p, m)
    PROVE  IInv'
<1> USE PartyAssumption DEF IInv
<1>1. /\ m \notin MDMFOL /\ alias_crt[p] = none /\ parent_rom[m] # none
      /\ following' = [following EXCEPT ![m] = p]
      /\ first_fol' = [first_fol EXCEPT ![p] = <<m>> \o first_fol[p]]
      /\ alias_crt' = [alias_crt EXCEPT ![p] = m]
      /\ MDMFOL' = MDMFOL \cup {m}
      /\ UNCHANGED <<playing, parent_rom, walk_vars, server>>
  BY DEF Possess, MayPossess, Alive, TypeOK
<1>2. m \in Creature /\ m \notin Player /\ m # none
  BY Apart
<1>3. /\ DOMAIN first_fol' = Player
      /\ \A q \in Player : first_fol'[q] = IF q = p THEN <<m>> \o first_fol[q] ELSE first_fol[q]
  BY <1>1 DEF TypeOK
<1>4. ASSUME NEW q \in Player
      PROVE  /\ first_fol'[q] \in Seq(Creature)
             /\ \A c \in Creature \ {m} : Alike(first_fol[q], first_fol'[q], c)
             /\ q = p => ~Never(first_fol'[q], m)
  <2>1. first_fol[q] \in Seq(Creature)
    BY Lists
  <2>2. CASE q = p
    <3>1. first_fol'[q] = <<m>> \o first_fol[q]
      BY <1>3, <2>2
    <3> QED BY <1>2, <2>1, <3>1, Prepended
  <2>3. CASE q # p
    BY <1>3, <2>1, <2>3 DEF Alike
  <2> QED BY <2>2, <2>3
<1>5. \A c \in Creature \ {m} : following'[c] = following[c]
  BY <1>1 DEF TypeOK
<1>6. TypeOK'
  BY <1>1, <1>2, <1>3, <1>4 DEF TypeOK, walk_vars
<1>7. Agrees'
  <2>1. \A q \in Player : q \in Creature \ {m}
    BY <1>2, Apart
  <2> QED BY <1>1, <1>4, <1>5, <2>1, AgreesKept
<1>8. Walking'
  BY <1>1, WalkingKept
<1>9. Possessed'
  <2>0. following'[m] = p /\ alias_crt'[p] = m /\ \A q \in Player \ {p} : alias_crt'[q] = alias_crt[q]
    BY <1>1, <1>2 DEF TypeOK
  <2>1. ASSUME NEW q \in Player, alias_crt'[q] # none
        PROVE  /\ q \in playing'
               /\ alias_crt'[q] \in MDMFOL' /\ parent_rom'[alias_crt'[q]] # none
               /\ \A z \in Player \ {q} : alias_crt'[z] # alias_crt'[q]
               /\ following'[alias_crt'[q]] # none =>
                     /\ following'[alias_crt'[q]] = q
                     /\ ~Never(first_fol'[q], alias_crt'[q])
    <3>0. \A z \in Player : alias_crt[z] # m
      BY <1>1, <1>2 DEF Possessed
    <3>1. CASE q = p
      BY <1>1, <1>4, <2>0, <3>0, <3>1
    <3>2. CASE q # p
      <4> DEFINE k == alias_crt[q]
      <4>1. alias_crt'[q] = k /\ k # m /\ k # none /\ k \in Creature \ {m}
        BY <2>0, <2>1, <3>0, <3>2, Apart DEF TypeOK
      <4>2. /\ q \in playing /\ k \in MDMFOL /\ parent_rom[k] # none
            /\ \A z \in Player \ {q} : alias_crt[z] # k
            /\ following[k] # none => following[k] = q /\ ~Never(first_fol[q], k)
        BY <4>1 DEF Possessed
      <4> HIDE DEF k
      <4>3. \A z \in Player \ {q} : alias_crt'[z] # k
        BY <2>0, <4>1, <4>2
      <4>4. following'[k] # none => following'[k] = q /\ ~Never(first_fol'[q], k)
        BY <1>4, <1>5, <4>1, <4>2 DEF Alike
      <4> QED BY <1>1, <4>1, <4>2, <4>3, <4>4
    <3> QED BY <3>1, <3>2
  <2>2. ASSUME NEW k \in MDMFOL', following'[k] # none PROVE alias_crt'[following'[k]] = k
    <3>1. CASE k = m
      BY <2>0, <3>1
    <3>2. CASE k # m
      <4>1. k \in MDMFOL /\ k \in Creature /\ k # none
        BY <1>1, <3>2, Apart DEF TypeOK
      <4>2. following'[k] = following[k] /\ following[k] \in Player
        BY <1>5, <2>2, <3>2, <4>1 DEF TypeOK
      <4>3. alias_crt[following[k]] = k
        BY <2>2, <4>1, <4>2 DEF Possessed
      <4> QED BY <1>1, <2>0, <4>1, <4>2, <4>3
    <3> QED BY <3>1, <3>2
  <2> QED BY <2>1, <2>2 DEF Possessed
<1> QED BY <1>6, <1>7, <1>8, <1>9

-----------------------------------------------------------------------------
(* The theorems.                                                           *)

\* Nobody follows at the start.
LEMMA Initial == PartyAssumption /\ Init => IInv
<1> SUFFICES ASSUME PartyAssumption, Init PROVE IInv
  OBVIOUS
<1> USE DEF Init
<1>1. TypeOK
  <2>1. <<>> \in Seq(Creature) /\ <<>> \in Seq([who : Player, cp : Seq(Creature)])
    BY EmptySeq
  <2> QED BY <2>1, Apart DEF TypeOK
<1>2. Agrees
  <2>1. \A c \in Player : following[c] = none /\ first_fol[c] = <<>>
    BY Apart
  <2> QED BY <2>1, Apart DEF Agrees, Never
<1>3. Walking
  BY DEF Walking, WalkOnce
<1>4. Possessed
  BY DEF Possessed
<1> QED BY <1>1, <1>2, <1>3, <1>4 DEF IInv

\* Every step keeps the invariant.
LEMMA Inductive == PartyAssumption /\ IInv /\ [Next]_vars => IInv'
<1> SUFFICES ASSUME PartyAssumption, IInv, [Next]_vars PROVE IInv'
  OBVIOUS
<1>1. ASSUME NEW p \in Player, NEW r \in Room,
             init_ply(p, r) \/ move(p, r) \/ flee(p, r) \/ Whisked(p, r)
      PROVE  IInv'
  BY <1>1, Step_init_ply, Step_move, Step_flee
<1>2. ASSUME NEW p \in Player, disconnect(p) \/ loseLeader(p) PROVE IInv'
  BY <1>2, Step_disconnect, Step_loseLeader
<1>3. ASSUME NEW p \in Player, NEW q \in Player, follow(p, q) PROVE IInv'
  BY <1>3, Step_follow
<1>4. ASSUME NEW p \in Player, NEW c \in Creature, lose(p, c) PROVE IInv'
  BY <1>4, Step_lose
<1>5. ASSUME NextFollower \/ Arrived PROVE IInv'
  BY <1>5, Step_NextFollower, Step_Arrived
<1>6. ASSUME NEW m \in Monster, NEW r \in Room, Appear(m, r) PROVE IInv'
  BY <1>6, Step_Appear
<1>7. ASSUME NEW p \in Player, NEW m \in Monster, dm_alias(p, m) PROVE IInv'
  <2>1. server = "up" /\ walk = <<>> /\ p \in playing /\ m \in Alive
        /\ (Possess(p, m) \/ Release(p, m))
    BY <1>7 DEF dm_alias, Idle
  <2> QED BY <2>1, Step_Possess, Step_Release
<1>8. ASSUME NEW m \in Monster,
             die(m) \/ bribe(m) \/ free_rom(m) \/ dm_purge(m) \/ dm_save_crt(m)
      PROVE  IInv'
  BY <1>8, Step_die, Step_bribe, Step_dm_purge, Step_dm_save_crt
<1>9. CASE UNCHANGED vars
  BY <1>9 DEF vars, follow_vars, alias_vars, walk_vars, IInv, TypeOK, Agrees, Walking, WalkOnce,
              Possessed
<1> QED BY <1>1, <1>2, <1>3, <1>4, <1>5, <1>6, <1>7, <1>8, <1>9 DEF Next

\* So it always holds.
LEMMA Invariant == Spec => []IInv
<1>1. Init => IInv
  BY PartyAssumption, Initial
<1>2. IInv /\ [Next]_vars => IInv'
  BY PartyAssumption, Inductive
<1> QED BY <1>1, <1>2, PTL DEF Spec

\* A player is in the list of his leader once and in no other, and leaders
\* are in the game: follow, lose and uninit_ply may read a leader's first_fol
\* without a look whether it is empty.
THEOREM FollowAgreesHolds == Spec => []FollowAgrees
<1>1. IInv => FollowAgrees
  <2> SUFFICES ASSUME IInv PROVE FollowAgrees
    OBVIOUS
  <2>1. \A c, p \in Player : /\ Times(c, p) = IF following[c] = p THEN 1 ELSE 0
                             /\ following[c] = p => {c, p} \subseteq playing
    <3> TAKE c, p \in Player
    <3>1. first_fol[p] \in Seq(Creature)
      BY Lists DEF IInv
    <3>2. IF following[c] = p THEN Once(first_fol[p], c) /\ {c, p} \subseteq playing
                              ELSE Never(first_fol[p], c)
      BY DEF IInv, Agrees
    <3>3. /\ Never(first_fol[p], c) => Times(c, p) = 0
          /\ Once(first_fol[p], c) => Times(c, p) = 1
      BY <3>1, Counted DEF Times
    <3> QED BY <3>2, <3>3
  <2> QED BY <2>1 DEF IInv, FollowAgrees
<1> QED BY <1>1, Invariant, PTL

\* A group that moves takes nobody along twice, whatever rings of followers
\* the follow command has made: the calls of move under way are of different
\* players, for each has left the room of those who are still to come.
THEOREM WalkOnceHolds == Spec => []WalkOnce
<1>1. IInv => WalkOnce
  BY DEF IInv, Walking
<1> QED BY <1>1, Invariant, PTL

\* A possessed monster is in the game, possessed by one player in the game,
\* and in the list of its possessor unless he has lost it.
THEOREM OnePossessorHolds == Spec => []OnePossessor
<1>1. IInv => OnePossessor
  <2> SUFFICES ASSUME IInv, server = "up", NEW p \in Player, alias_crt[p] # none,
                      NEW m, m = alias_crt[p]
               PROVE  /\ p \in playing /\ m \in Alive \cap MDMFOL
                      /\ \A q \in Player \ {p} : alias_crt[q] # m
                      /\ following[m] # none => following[m] = p /\ Times(m, p) >= 1
    BY DEF OnePossessor
  <2>1. /\ p \in playing /\ m \in MDMFOL /\ parent_rom[m] # none
        /\ \A q \in Player \ {p} : alias_crt[q] # m
        /\ following[m] # none => following[m] = p /\ ~Never(first_fol[p], m)
    BY DEF IInv, Possessed
  <2>2. m \in Monster /\ first_fol[p] \in Seq(Creature)
    BY <2>1, Lists DEF IInv, TypeOK
  <2>3. ~Never(first_fol[p], m) => Times(m, p) >= 1
    BY <2>2, Counted DEF Times
  <2> QED BY <2>1, <2>2, <2>3 DEF Alive
<1> QED BY <1>1, Invariant, PTL
=============================================================================
