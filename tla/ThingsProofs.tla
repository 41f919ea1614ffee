----------------------------- MODULE ThingsProofs -----------------------------
(***************************************************************************)
(* Every object of module Things is in one list (OnePlace, NoLeak), the    *)
(* one parent_crt tells of (ParentSound), its container counts it          *)
(* (BoxCount), it is not also in the file of a player who no longer has it *)
(* (FilesFollow), and quit leaves nothing behind (QuitKeepsAll). All this  *)
(* for any number of players, things, containers and slots.                *)
(*                                                                         *)
(* OnePlace is not inductive. Sound says it of the memory in the middle of *)
(* a handler, when some things are in no list but in the handler's hands:  *)
(* each thing has a place (PlacedAt, with k, w and s for its kind, owner   *)
(* and slot) and is in the list of that place and in no other. The lemmas  *)
(* on the lists say how each call moves things between a place and the     *)
(* hands; a handler takes things, lays them down and ends with empty       *)
(* hands. Follows is what is known of the files of those who play,         *)
(* FileSound what Login must know of the file it loads.                    *)
(***************************************************************************)
EXTENDS Things, FiniteSetTheorems, TLAPS

\* A file holds a thing once, and no container is in a container.
FileSound(f) ==
    /\ \A b \in Box : f.inside[b] \cap (Box \cup f.inv) = {}
    /\ \A b, c \in Box : b # c => f.inside[b] \cap f.inside[c] = {}
    /\ \A b \in Box \ f.inv : f.inside[b] = {}

KindsOfPlace == {"inv", "ready", "inside", "file", "floor", "fresh", "dead", "hand"}

\* The lists of memory m say what k, w and s say: thing o is in a place of
\* kind k[o], of owner w[o], in slot s[o].  Players of P are in the game, and
\* the handler has the things of H in its hands.
PlacedAt(m, P, H, k, w, s, o) ==
    /\ k[o] \in KindsOfPlace
    /\ k[o] = "inv" => w[o] \in P \cup {Mon}
    /\ k[o] = "ready" => w[o] \in P /\ s[o] \in Slot /\ wearflag[o] \in Slot
    /\ k[o] = "inside" => w[o] \in Box /\ o \notin Box /\ k[w[o]] # "file"
    /\ k[o] = "file" => w[o] \in Player \ P
    /\ \A h \in Holder : o \in m.inv[h] <=> k[o] = "inv" /\ w[o] = h
    /\ \A p \in Player, t \in Slot :
         m.ready[p][t] = o <=> k[o] = "ready" /\ w[o] = p /\ s[o] = t
    /\ \A b \in Box : o \in m.inside[b] <=> k[o] = "inside" /\ w[o] = b
    /\ \A p \in Player \ P : o \in Kept(m.file[p]) <=> k[o] = "file" /\ w[o] = p
    /\ o \in m.floor <=> k[o] = "floor"
    /\ o \in m.carried <=> k[o] = "inv"
    /\ o \in m.fresh <=> k[o] = "fresh"
    /\ o \in m.freed \cup m.lost <=> k[o] = "dead"
    /\ o \in H <=> k[o] = "hand"

Placed(m, P, H, k, w, s) == \A o \in Thing : PlacedAt(m, P, H, k, w, s, o)

\* The containers of m are counted.
Counted(m) == \A b \in Box : m.shots[b] = Cardinality(m.inside[b])

\* What a handler may rely on, and restores: each thing in one place.
Sound(m, P, H) ==
    /\ m \in Memory
    /\ P \subseteq Player
    /\ H \subseteq Thing
    /\ Counted(m)
    /\ \A p \in Player : FileSound(m.file[p])
    /\ \E k, w, s : Placed(m, P, H, k, w, s)

-----------------------------------------------------------------------------
(* The lists.                                                              *)

\* Things and all that is in a place are finite in number.
LEMMA FiniteThings ==
    ASSUME NEW S \in SUBSET Thing
    PROVE  IsFiniteSet(S) /\ Cardinality(S) \in Nat
  BY ThingsAssumption, FS_Subset, FS_CardinalityType

\* Out of an inventory.
LEMMA UncarrySound ==
    ASSUME NEW m, NEW P, NEW H, Sound(m, P, H),
           NEW h \in Holder, NEW S \in SUBSET m.inv[h]
    PROVE  Sound(Uncarry(m, S, h), P, H \cup S)
<1> DEFINE t == Uncarry(m, S, h)
<1>1. /\ t \in Memory
      /\ t.inv = [m.inv EXCEPT ![h] = @ \ S] /\ t.carried = m.carried \ S
      /\ t.ready = m.ready /\ t.floor = m.floor /\ t.inside = m.inside
      /\ t.shots = m.shots /\ t.fresh = m.fresh /\ t.freed = m.freed
      /\ t.lost = m.lost /\ t.file = m.file
  BY DEF Sound, Uncarry, Memory
<1>2. m \in Memory /\ S \in SUBSET Thing
  BY DEF Sound, Memory
<1> HIDE DEF t
<1>3. PICK k, w, s : Placed(m, P, H, k, w, s)
  BY DEF Sound
<1> DEFINE l == [o \in Thing |-> IF o \in S THEN "hand" ELSE k[o]]
<1>4. \A o \in Thing : l[o] = IF o \in S THEN "hand" ELSE k[o]
  OBVIOUS
<1>5. \A o \in S : o \in Thing /\ k[o] = "inv" /\ w[o] = h
  BY <1>2, <1>3 DEF Placed, PlacedAt
<1>6. \A g \in Holder : t.inv[g] = IF g = h THEN m.inv[h] \ S ELSE m.inv[g]
  BY <1>1, <1>2 DEF Memory
<1> HIDE DEF l
<1>7. Placed(t, P, H \cup S, l, w, s)
  <2> SUFFICES ASSUME NEW o \in Thing PROVE PlacedAt(t, P, H \cup S, l, w, s, o)
    BY DEF Placed
  <2> QED BY <1>1, <1>3, <1>4, <1>5, <1>6, ThingsAssumption
     DEF Placed, PlacedAt, KindsOfPlace
<1>8. \E a, b, c : Placed(t, P, H \cup S, a, b, c)
  BY <1>7
<1>9. Counted(t) /\ P \subseteq Player /\ H \cup S \subseteq Thing
  BY <1>1, <1>2 DEF Sound, Counted
<1>10. \A p \in Player : FileSound(t.file[p])
  BY <1>1 DEF Sound
<1> QED BY <1>1, <1>8, <1>9, <1>10 DEF Sound, t

\* Into an inventory.
LEMMA CarrySound ==
    ASSUME NEW m, NEW P, NEW H, Sound(m, P, H),
           NEW S \in SUBSET H, NEW h \in P \cup {Mon}
    PROVE  Sound(add_obj_crt(m, S, h), P, H \ S)
<1> DEFINE t == add_obj_crt(m, S, h)
<1>1. /\ t \in Memory
      /\ t.inv = [m.inv EXCEPT ![h] = @ \cup S]
      /\ t.carried = m.carried \cup S
      /\ t.ready = m.ready /\ t.floor = m.floor /\ t.inside = m.inside
      /\ t.shots = m.shots /\ t.fresh = m.fresh /\ t.freed = m.freed
      /\ t.lost = m.lost /\ t.file = m.file
  BY DEF Sound, add_obj_crt, Memory
<1>2. m \in Memory /\ S \in SUBSET Thing /\ H \in SUBSET Thing
  BY DEF Sound, Memory
<1> HIDE DEF t
<1>3. PICK k, w, s : Placed(m, P, H, k, w, s)
  BY DEF Sound
<1> DEFINE l == [o \in Thing |-> IF o \in S THEN "inv" ELSE k[o]]
<1> DEFINE v == [o \in Thing |-> IF o \in S THEN h ELSE w[o]]
<1>11. \A o \in Thing : v[o] = IF o \in S THEN h ELSE w[o]
  OBVIOUS
<1> HIDE DEF v
<1>4. \A o \in Thing : l[o] = IF o \in S THEN "inv" ELSE k[o]
  OBVIOUS
<1>5. \A o \in S : o \in Thing /\ k[o] = "hand"
  BY <1>2, <1>3 DEF Placed, PlacedAt
<1> HIDE DEF l
<1>6. /\ h \in Holder /\ P \subseteq Player
      /\ \A g \in Holder : t.inv[g] = IF g = h THEN m.inv[h] \cup S ELSE m.inv[g]
  BY <1>1, <1>2 DEF Memory, Holder, Sound
<1>7. Placed(t, P, H \ S, l, v, s)
  <2> SUFFICES ASSUME NEW o \in Thing PROVE PlacedAt(t, P, H \ S, l, v, s, o)
    BY DEF Placed
  <2> QED
    BY <1>1, <1>3, <1>4, <1>5, <1>6, <1>11, ThingsAssumption DEF Placed, PlacedAt, KindsOfPlace
<1>8. \E a, b, c : Placed(t, P, H \ S, a, b, c)
  BY <1>7
<1>9. Counted(t) /\ P \subseteq Player /\ H \ S \subseteq Thing
  BY <1>1, <1>2 DEF Sound, Counted
<1>10. \A p \in Player : FileSound(t.file[p])
  BY <1>1 DEF Sound
<1> QED BY <1>1, <1>8, <1>9, <1>10 DEF Sound, t

\* From the floor.
LEMMA LiftSound ==
    ASSUME NEW m, NEW P, NEW H, Sound(m, P, H),
           NEW S \in SUBSET m.floor
    PROVE  Sound(del_obj_rom(m, S), P, H \cup S)
<1> DEFINE t == del_obj_rom(m, S)
<1>1. /\ t \in Memory
      /\ t.floor = m.floor \ S
      /\ t.inv = m.inv /\ t.carried = m.carried /\ t.ready = m.ready
      /\ t.inside = m.inside /\ t.shots = m.shots /\ t.fresh = m.fresh
      /\ t.freed = m.freed /\ t.lost = m.lost /\ t.file = m.file
  BY DEF Sound, del_obj_rom, Memory
<1>2. m \in Memory /\ S \in SUBSET Thing /\ H \in SUBSET Thing
  BY DEF Sound, Memory
<1> HIDE DEF t
<1>3. PICK k, w, s : Placed(m, P, H, k, w, s)
  BY DEF Sound
<1> DEFINE l == [o \in Thing |-> IF o \in S THEN "hand" ELSE k[o]]
<1>4. \A o \in Thing : l[o] = IF o \in S THEN "hand" ELSE k[o]
  OBVIOUS
<1>5. \A o \in S : o \in Thing /\ k[o] = "floor"
  BY <1>2, <1>3 DEF Placed, PlacedAt
<1> HIDE DEF l
<1>7. Placed(t, P, H \cup S, l, w, s)
  <2> SUFFICES ASSUME NEW o \in Thing PROVE PlacedAt(t, P, H \cup S, l, w, s, o)
    BY DEF Placed
  <2> QED
    BY <1>1, <1>3, <1>4, <1>5, ThingsAssumption DEF Placed, PlacedAt, KindsOfPlace
<1>8. \E a, b, c : Placed(t, P, H \cup S, a, b, c)
  BY <1>7
<1>9. Counted(t) /\ P \subseteq Player /\ H \cup S \subseteq Thing
  BY <1>1, <1>2 DEF Sound, Counted
<1>10. \A p \in Player : FileSound(t.file[p])
  BY <1>1 DEF Sound
<1> QED BY <1>1, <1>8, <1>9, <1>10 DEF Sound, t

\* To the floor.
LEMMA FloorSound ==
    ASSUME NEW m, NEW P, NEW H, Sound(m, P, H),
           NEW S \in SUBSET H
    PROVE  Sound(add_obj_rom(m, S), P, H \ S)
<1> DEFINE t == add_obj_rom(m, S)
<1>1. /\ t \in Memory
      /\ t.floor = m.floor \cup S
      /\ t.inv = m.inv /\ t.carried = m.carried /\ t.ready = m.ready
      /\ t.inside = m.inside /\ t.shots = m.shots /\ t.fresh = m.fresh
      /\ t.freed = m.freed /\ t.lost = m.lost /\ t.file = m.file
  BY DEF Sound, add_obj_rom, Memory
<1>2. m \in Memory /\ S \in SUBSET Thing /\ H \in SUBSET Thing
  BY DEF Sound, Memory
<1> HIDE DEF t
<1>3. PICK k, w, s : Placed(m, P, H, k, w, s)
  BY DEF Sound
<1> DEFINE l == [o \in Thing |-> IF o \in S THEN "floor" ELSE k[o]]
<1>4. \A o \in Thing : l[o] = IF o \in S THEN "floor" ELSE k[o]
  OBVIOUS
<1>5. \A o \in S : o \in Thing /\ k[o] = "hand"
  BY <1>2, <1>3 DEF Placed, PlacedAt
<1> HIDE DEF l
<1>7. Placed(t, P, H \ S, l, w, s)
  <2> SUFFICES ASSUME NEW o \in Thing PROVE PlacedAt(t, P, H \ S, l, w, s, o)
    BY DEF Placed
  <2> QED
    BY <1>1, <1>3, <1>4, <1>5, ThingsAssumption DEF Placed, PlacedAt, KindsOfPlace
<1>8. \E a, b, c : Placed(t, P, H \ S, a, b, c)
  BY <1>7
<1>9. Counted(t) /\ P \subseteq Player /\ H \ S \subseteq Thing
  BY <1>1, <1>2 DEF Sound, Counted
<1>10. \A p \in Player : FileSound(t.file[p])
  BY <1>1 DEF Sound
<1> QED BY <1>1, <1>8, <1>9, <1>10 DEF Sound, t

\* Forgotten.
LEMMA ForgetSound ==
    ASSUME NEW m, NEW P, NEW H, Sound(m, P, H),
           NEW S \in SUBSET H
    PROVE  Sound(Forget(m, S), P, H \ S)
<1> DEFINE t == Forget(m, S)
<1>1. /\ t \in Memory
      /\ t.lost = m.lost \cup S
      /\ t.inv = m.inv /\ t.carried = m.carried /\ t.ready = m.ready
      /\ t.floor = m.floor /\ t.inside = m.inside /\ t.shots = m.shots
      /\ t.fresh = m.fresh /\ t.freed = m.freed /\ t.file = m.file
  BY DEF Sound, Forget, Memory
<1>2. m \in Memory /\ S \in SUBSET Thing /\ H \in SUBSET Thing
  BY DEF Sound, Memory
<1> HIDE DEF t
<1>3. PICK k, w, s : Placed(m, P, H, k, w, s)
  BY DEF Sound
<1> DEFINE l == [o \in Thing |-> IF o \in S THEN "dead" ELSE k[o]]
<1>4. \A o \in Thing : l[o] = IF o \in S THEN "dead" ELSE k[o]
  OBVIOUS
<1>5. \A o \in S : o \in Thing /\ k[o] = "hand"
  BY <1>2, <1>3 DEF Placed, PlacedAt
<1> HIDE DEF l
<1>7. Placed(t, P, H \ S, l, w, s)
  <2> SUFFICES ASSUME NEW o \in Thing PROVE PlacedAt(t, P, H \ S, l, w, s, o)
    BY DEF Placed
  <2> QED
    BY <1>1, <1>3, <1>4, <1>5, ThingsAssumption DEF Placed, PlacedAt, KindsOfPlace
<1>8. \E a, b, c : Placed(t, P, H \ S, a, b, c)
  BY <1>7
<1>9. Counted(t) /\ P \subseteq Player /\ H \ S \subseteq Thing
  BY <1>1, <1>2 DEF Sound, Counted
<1>10. \A p \in Player : FileSound(t.file[p])
  BY <1>1 DEF Sound
<1> QED BY <1>1, <1>8, <1>9, <1>10 DEF Sound, t

\* Into memory.
LEMMA LoadSound ==
    ASSUME NEW m, NEW P, NEW H, Sound(m, P, H),
           NEW S \in SUBSET m.fresh
    PROVE  Sound(load_obj(m, S), P, H \cup S)
<1> DEFINE t == load_obj(m, S)
<1>1. /\ t \in Memory
      /\ t.fresh = m.fresh \ S
      /\ t.inv = m.inv /\ t.carried = m.carried /\ t.ready = m.ready
      /\ t.floor = m.floor /\ t.inside = m.inside /\ t.shots = m.shots
      /\ t.freed = m.freed /\ t.lost = m.lost /\ t.file = m.file
  BY DEF Sound, load_obj, Memory
<1>2. m \in Memory /\ S \in SUBSET Thing /\ H \in SUBSET Thing
  BY DEF Sound, Memory
<1> HIDE DEF t
<1>3. PICK k, w, s : Placed(m, P, H, k, w, s)
  BY DEF Sound
<1> DEFINE l == [o \in Thing |-> IF o \in S THEN "hand" ELSE k[o]]
<1>4. \A o \in Thing : l[o] = IF o \in S THEN "hand" ELSE k[o]
  OBVIOUS
<1>5. \A o \in S : o \in Thing /\ k[o] = "fresh"
  BY <1>2, <1>3 DEF Placed, PlacedAt
<1> HIDE DEF l
<1>7. Placed(t, P, H \cup S, l, w, s)
  <2> SUFFICES ASSUME NEW o \in Thing PROVE PlacedAt(t, P, H \cup S, l, w, s, o)
    BY DEF Placed
  <2> QED
    BY <1>1, <1>3, <1>4, <1>5, ThingsAssumption DEF Placed, PlacedAt, KindsOfPlace
<1>8. \E a, b, c : Placed(t, P, H \cup S, a, b, c)
  BY <1>7
<1>9. Counted(t) /\ P \subseteq Player /\ H \cup S \subseteq Thing
  BY <1>1, <1>2 DEF Sound, Counted
<1>10. \A p \in Player : FileSound(t.file[p])
  BY <1>1 DEF Sound
<1> QED BY <1>1, <1>8, <1>9, <1>10 DEF Sound, t

\* Off the body.
LEMMA UnreadySound ==
    ASSUME NEW m, NEW P, NEW H, Sound(m, P, H),
           NEW p \in Player, NEW S \in SUBSET worn(m, p)
    PROVE  Sound(Unready(m, p, S), P, H \cup S)
<1> DEFINE t == Unready(m, p, S)
           r == [i \in Slot |-> IF m.ready[p][i] \in S THEN Nil ELSE m.ready[p][i]]
<1>0. /\ m \in Memory /\ t = [m EXCEPT !.ready[p] = r]
      /\ r \in [Slot -> Thing \cup {Nil}]
      /\ \A i \in Slot : r[i] = IF m.ready[p][i] \in S THEN Nil ELSE m.ready[p][i]
  <2>1. m \in Memory
    BY DEF Sound
  <2>2. t = [m EXCEPT !.ready[p] = r]
    BY <2>1 DEF Unready
  <2>3. r \in [Slot -> Thing \cup {Nil}]
    BY <2>1 DEF Memory
  <2> QED BY <2>1, <2>2, <2>3
<1> HIDE DEF t, r
<1>1. /\ t \in Memory
      /\ t.ready = [m.ready EXCEPT ![p] = r]
      /\ t.inv = m.inv /\ t.carried = m.carried /\ t.floor = m.floor
      /\ t.inside = m.inside /\ t.shots = m.shots /\ t.fresh = m.fresh
      /\ t.freed = m.freed /\ t.lost = m.lost /\ t.file = m.file
  BY <1>0 DEF Memory
<1>2. m \in Memory /\ S \in SUBSET Thing /\ H \in SUBSET Thing
  BY DEF Sound, Memory, worn
<1> HIDE DEF t
<1>3. PICK k, w, s : Placed(m, P, H, k, w, s)
  BY DEF Sound
<1> DEFINE l == [o \in Thing |-> IF o \in S THEN "hand" ELSE k[o]]
<1>4. \A o \in Thing : l[o] = IF o \in S THEN "hand" ELSE k[o]
  OBVIOUS
<1>5. \A o \in S : o \in Thing /\ k[o] = "ready" /\ w[o] = p /\ m.ready[p][s[o]] = o
  BY <1>2, <1>3 DEF Placed, PlacedAt, worn
<1> HIDE DEF l
<1>6. \A q \in Player, i \in Slot :
          t.ready[q][i] = IF q = p /\ m.ready[p][i] \in S THEN Nil ELSE m.ready[q][i]
  BY <1>0, <1>1 DEF Memory
<1>7. Placed(t, P, H \cup S, l, w, s)
  <2> SUFFICES ASSUME NEW o \in Thing PROVE PlacedAt(t, P, H \cup S, l, w, s, o)
    BY DEF Placed
  <2> QED
    BY <1>1, <1>2, <1>3, <1>4, <1>5, <1>6, ThingsAssumption DEF Placed, PlacedAt, KindsOfPlace
<1>8. \E a, b, c : Placed(t, P, H \cup S, a, b, c)
  BY <1>7
<1>9. Counted(t) /\ P \subseteq Player /\ H \cup S \subseteq Thing
  BY <1>1, <1>2 DEF Sound, Counted
<1>10. \A q \in Player : FileSound(t.file[q])
  BY <1>1 DEF Sound
<1> QED BY <1>1, <1>8, <1>9, <1>10 DEF Sound, t

\* The things of S on the body, each in its slot.
Dressed(m, p, S) ==
    [m EXCEPT !.ready[p] =
        [s \in Slot |-> IF \E o \in S : wearflag[o] = s
                       THEN CHOOSE o \in S : wearflag[o] = s ELSE @[s]]]

\* Onto the body, each thing in its slot.
LEMMA DressSound ==
    ASSUME NEW m, NEW P, NEW H, Sound(m, P, H),
           NEW p \in P, NEW S \in SUBSET H,
           \A o \in S : wearflag[o] # Nil /\ m.ready[p][wearflag[o]] = Nil,
           \A o, q \in S : wearflag[o] = wearflag[q] => o = q
    PROVE  Sound(Dressed(m, p, S), P, H \ S)
<1> DEFINE t == Dressed(m, p, S)
           In(i) == \E o \in S : wearflag[o] = i
           r == [i \in Slot |-> IF In(i) THEN CHOOSE o \in S : wearflag[o] = i
                                ELSE m.ready[p][i]]
<1>0. /\ m \in Memory /\ t = [m EXCEPT !.ready[p] = r]
      /\ r \in [Slot -> Thing \cup {Nil}]
      /\ \A i \in Slot : r[i] = IF In(i) THEN CHOOSE o \in S : wearflag[o] = i
                                ELSE m.ready[p][i]
  <2>1. m \in Memory /\ p \in Player
    BY DEF Sound
  <2>2. t = [m EXCEPT !.ready[p] = r]
    BY <2>1 DEF Dressed
  <2>3. r \in [Slot -> Thing \cup {Nil}]
    <3> SUFFICES ASSUME NEW i \in Slot
                 PROVE  (IF In(i) THEN CHOOSE o \in S : wearflag[o] = i
                         ELSE m.ready[p][i]) \in Thing \cup {Nil}
      OBVIOUS
    <3>1. CASE In(i)
      BY <3>1 DEF Sound
    <3>2. CASE ~In(i)
      BY <2>1, <3>2 DEF Memory
    <3> QED BY <3>1, <3>2
  <2> QED BY <2>1, <2>2, <2>3
<1> HIDE DEF t, r
<1>1. /\ t \in Memory
      /\ t.ready = [m.ready EXCEPT ![p] = r]
      /\ t.inv = m.inv /\ t.carried = m.carried /\ t.floor = m.floor
      /\ t.inside = m.inside /\ t.shots = m.shots /\ t.fresh = m.fresh
      /\ t.freed = m.freed /\ t.lost = m.lost /\ t.file = m.file
  BY <1>0 DEF Memory, Sound
<1>2. m \in Memory /\ S \in SUBSET Thing /\ H \in SUBSET Thing
  BY DEF Sound, Memory
<1> HIDE DEF t
<1>3. PICK k, w, s : Placed(m, P, H, k, w, s)
  BY DEF Sound
<1> DEFINE l == [o \in Thing |-> IF o \in S THEN "ready" ELSE k[o]]
<1> DEFINE v == [o \in Thing |-> IF o \in S THEN p ELSE w[o]]
           z == [o \in Thing |-> IF o \in S THEN wearflag[o] ELSE s[o]]
<1>11. \A o \in Thing : v[o] = IF o \in S THEN p ELSE w[o]
  OBVIOUS
<1>18. \A o \in Thing : z[o] = IF o \in S THEN wearflag[o] ELSE s[o]
  OBVIOUS
<1> HIDE DEF v, z
<1>4. \A o \in Thing : l[o] = IF o \in S THEN "ready" ELSE k[o]
  OBVIOUS
<1>5. \A o \in S : o \in Thing /\ k[o] = "hand"
  BY <1>2, <1>3 DEF Placed, PlacedAt
<1> HIDE DEF l
<1>6. \A q \in Player, i \in Slot :
          t.ready[q][i] = IF q = p THEN r[i] ELSE m.ready[q][i]
  BY <1>0, <1>1 DEF Memory
<1>12. \A o \in S : /\ wearflag[o] \in Slot /\ m.ready[p][wearflag[o]] = Nil
                    /\ o = CHOOSE q \in S : wearflag[q] = wearflag[o]
  BY <1>2, ThingsAssumption
<1>13. P \subseteq Player
  BY DEF Sound
<1>14. ASSUME NEW i \in Slot, In(i)
       PROVE  r[i] \in S /\ wearflag[r[i]] = i /\ m.ready[p][i] = Nil
  BY <1>0, <1>12, <1>14
<1>15. \A i \in Slot : ~In(i) => r[i] = m.ready[p][i]
  BY <1>0
<1>16. \A o \in S : r[wearflag[o]] = o
  BY <1>0, <1>12
<1> HIDE DEF In
<1>17. \A o \in S : In(wearflag[o])
  BY DEF In
<1>7. Placed(t, P, H \ S, l, v, z)
  <2> SUFFICES ASSUME NEW o \in Thing PROVE PlacedAt(t, P, H \ S, l, v, z, o)
    BY DEF Placed
  <2>0. PlacedAt(m, P, H, k, w, s, o) /\ o # Nil /\ p \in Player
    BY <1>3, <1>13, ThingsAssumption DEF Placed
  <2>1. CASE o \in S
    <3>1. l[o] = "ready" /\ v[o] = p /\ z[o] = wearflag[o] /\ k[o] = "hand"
      BY <1>4, <1>5, <1>11, <1>18, <2>1
    <3>2. \A q \in Player, i \in Slot :
            t.ready[q][i] = o <=> q = p /\ i = wearflag[o]
      BY <1>6, <1>12, <1>14, <1>15, <1>16, <1>17, <2>0, <2>1, <3>1 DEF PlacedAt
    <3> QED
      BY <1>1, <1>12, <2>0, <2>1, <3>1, <3>2 DEF PlacedAt, KindsOfPlace
  <2>2. CASE o \notin S
    <3>1. l[o] = k[o] /\ v[o] = w[o] /\ z[o] = s[o]
      BY <1>4, <1>11, <1>18, <2>2
    <3>2. \A q \in Player, i \in Slot :
            t.ready[q][i] = o <=> m.ready[q][i] = o
      BY <1>6, <1>14, <1>15, <2>0, <2>2
    <3>3. k[o] = "inside" /\ l[w[o]] = "file" => k[w[o]] = "file"
      BY <1>4, <2>0, ThingsAssumption DEF PlacedAt
    <3> QED
      BY <1>1, <2>0, <2>2, <3>1, <3>2, <3>3 DEF PlacedAt, KindsOfPlace
  <2> QED BY <2>1, <2>2
<1>8. \E a, b, c : Placed(t, P, H \ S, a, b, c)
  BY <1>7
<1>9. Counted(t) /\ P \subseteq Player /\ H \ S \subseteq Thing
  BY <1>1, <1>2 DEF Sound, Counted
<1>10. \A q \in Player : FileSound(t.file[q])
  BY <1>1 DEF Sound
<1> QED BY <1>1, <1>8, <1>9, <1>10 DEF Sound, t

\* Into a free slot.
LEMMA HoldSound ==
    ASSUME NEW m, NEW P, NEW H, Sound(m, P, H),
           NEW p \in P, NEW q \in H, NEW i \in Slot,
           wearflag[q] # Nil, m.ready[p][i] = Nil
    PROVE  Sound([m EXCEPT !.ready[p][i] = q], P, H \ {q})
<1> DEFINE t == [m EXCEPT !.ready[p][i] = q]
<1>1. /\ t \in Memory
      /\ t.ready = [m.ready EXCEPT ![p][i] = q]
      /\ t.inv = m.inv /\ t.carried = m.carried /\ t.floor = m.floor
      /\ t.inside = m.inside /\ t.shots = m.shots /\ t.fresh = m.fresh
      /\ t.freed = m.freed /\ t.lost = m.lost /\ t.file = m.file
  BY DEF Sound, Memory
<1>2. m \in Memory /\ q \in Thing /\ H \in SUBSET Thing /\ p \in Player
  BY DEF Sound, Memory
<1> HIDE DEF t
<1>3. PICK k, w, s : Placed(m, P, H, k, w, s)
  BY DEF Sound
<1> DEFINE l == [o \in Thing |-> IF o = q THEN "ready" ELSE k[o]]
           v == [o \in Thing |-> IF o = q THEN p ELSE w[o]]
           z == [o \in Thing |-> IF o = q THEN i ELSE s[o]]
<1>4. \A o \in Thing : l[o] = IF o = q THEN "ready" ELSE k[o]
  OBVIOUS
<1>11. \A o \in Thing : v[o] = IF o = q THEN p ELSE w[o]
  OBVIOUS
<1>12. \A o \in Thing : z[o] = IF o = q THEN i ELSE s[o]
  OBVIOUS
<1>5. k[q] = "hand" /\ wearflag[q] \in Slot
  BY <1>2, <1>3, ThingsAssumption DEF Placed, PlacedAt
<1>6. \A g \in Player, j \in Slot :
          t.ready[g][j] = IF g = p /\ j = i THEN q ELSE m.ready[g][j]
  BY <1>1, <1>2 DEF Memory
<1> HIDE DEF l, v, z
<1>7. Placed(t, P, H \ {q}, l, v, z)
  <2> SUFFICES ASSUME NEW o \in Thing PROVE PlacedAt(t, P, H \ {q}, l, v, z, o)
    BY DEF Placed
  <2>0. PlacedAt(m, P, H, k, w, s, o) /\ o # Nil
    BY <1>3, ThingsAssumption DEF Placed
  <2>1. CASE o = q
    <3>1. l[o] = "ready" /\ v[o] = p /\ z[o] = i /\ k[o] = "hand"
      BY <1>4, <1>5, <1>11, <1>12, <2>1
    <3>2. \A g \in Player, j \in Slot : t.ready[g][j] = o <=> g = p /\ j = i
      BY <1>6, <2>0, <2>1, <3>1 DEF PlacedAt
    <3> QED BY <1>1, <1>5, <2>0, <2>1, <3>1, <3>2 DEF PlacedAt, KindsOfPlace
  <2>2. CASE o # q
    <3>1. l[o] = k[o] /\ v[o] = w[o] /\ z[o] = s[o]
      BY <1>4, <1>11, <1>12, <2>2
    <3>2. \A g \in Player, j \in Slot : t.ready[g][j] = o <=> m.ready[g][j] = o
      BY <1>6, <2>0, <2>2
    <3>3. k[o] = "inside" /\ l[w[o]] = "file" => k[w[o]] = "file"
      BY <1>4, <2>0, ThingsAssumption DEF PlacedAt
    <3> QED BY <1>1, <2>0, <2>2, <3>1, <3>2, <3>3 DEF PlacedAt, KindsOfPlace
  <2> QED BY <2>1, <2>2
<1>8. \E a, b, c : Placed(t, P, H \ {q}, a, b, c)
  BY <1>7
<1>9. Counted(t) /\ P \subseteq Player /\ H \ {q} \subseteq Thing
  BY <1>1, <1>2 DEF Sound, Counted
<1>10. \A g \in Player : FileSound(t.file[g])
  BY <1>1 DEF Sound
<1> QED BY <1>1, <1>8, <1>9, <1>10 DEF Sound, t

\* Into a container, which counts it.
LEMMA BoxSound ==
    ASSUME NEW m, NEW P, NEW H, Sound(m, P, H),
           NEW S \in SUBSET H, NEW b \in Box, S \cap Box = {},
           \A q \in Player \ P : b \notin Kept(m.file[q])
    PROVE  Sound(add_obj_obj(m, S, b), P, H \ S)
<1> DEFINE t == add_obj_obj(m, S, b)
<1>0. /\ m \in Memory /\ S \in SUBSET Thing /\ H \in SUBSET Thing /\ b \in Thing
      /\ m.shots[b] \in Nat /\ Cardinality(S) \in Nat /\ m.inside[b] \in SUBSET Thing
  <2>1. m \in Memory /\ S \in SUBSET Thing
    BY DEF Sound
  <2> QED BY <2>1, FiniteThings, ThingsAssumption DEF Memory, Sound
<1> DEFINE n == m.shots[b] + Cardinality(S)
<1>2. /\ n \in Nat /\ m.inside[b] \cup S \in SUBSET Thing
      /\ t = [m EXCEPT !.inside[b] = m.inside[b] \cup S, !.shots[b] = n]
  BY <1>0 DEF add_obj_obj, Memory
<1> HIDE DEF t, n
<1>1. /\ t \in Memory
      /\ t.inside = [m.inside EXCEPT ![b] = m.inside[b] \cup S]
      /\ t.shots = [m.shots EXCEPT ![b] = n]
      /\ t.ready = m.ready /\ t.inv = m.inv /\ t.carried = m.carried
      /\ t.floor = m.floor /\ t.fresh = m.fresh /\ t.freed = m.freed
      /\ t.lost = m.lost /\ t.file = m.file
  BY <1>0, <1>2 DEF Memory
<1>3. PICK k, w, s : Placed(m, P, H, k, w, s)
  BY DEF Sound
<1> DEFINE l == [o \in Thing |-> IF o \in S THEN "inside" ELSE k[o]]
           v == [o \in Thing |-> IF o \in S THEN b ELSE w[o]]
<1>4. \A o \in Thing : l[o] = IF o \in S THEN "inside" ELSE k[o]
  OBVIOUS
<1>11. \A o \in Thing : v[o] = IF o \in S THEN b ELSE w[o]
  OBVIOUS
<1>5. \A o \in S : o \in Thing /\ k[o] = "hand" /\ o \notin Box
  BY <1>0, <1>3 DEF Placed, PlacedAt
<1>6. /\ \A c \in Box : t.inside[c] = IF c = b THEN m.inside[b] \cup S ELSE m.inside[c]
      /\ k[b] # "file"
  <2>1. PlacedAt(m, P, H, k, w, s, b)
    BY <1>0, <1>3 DEF Placed
  <2> QED BY <1>0, <1>1, <2>1 DEF Memory, PlacedAt
<1> HIDE DEF l, v
<1>7. Placed(t, P, H \ S, l, v, s)
  <2> SUFFICES ASSUME NEW o \in Thing PROVE PlacedAt(t, P, H \ S, l, v, s, o)
    BY DEF Placed
  <2>0. PlacedAt(m, P, H, k, w, s, o)
    BY <1>3 DEF Placed
  <2>1. CASE o \in S
    <3>1. l[o] = "inside" /\ v[o] = b /\ l[b] # "file"
      BY <1>0, <1>4, <1>6, <1>11, <2>1
    <3> QED BY <1>1, <1>5, <1>6, <2>0, <2>1, <3>1 DEF PlacedAt, KindsOfPlace
  <2>2. CASE o \notin S
    <3>1. l[o] = k[o] /\ v[o] = w[o]
      BY <1>4, <1>11, <2>2
    <3>2. k[o] = "inside" /\ l[w[o]] = "file" => k[w[o]] = "file"
      BY <1>4, <2>0, ThingsAssumption DEF PlacedAt
    <3> QED BY <1>1, <1>6, <2>0, <2>2, <3>1, <3>2 DEF PlacedAt, KindsOfPlace
  <2> QED BY <2>1, <2>2
<1>8. \E x, y, z : Placed(t, P, H \ S, x, y, z)
  BY <1>7
<1>9. Counted(t)
  <2>1. m.inside[b] \cap S = {}
    BY <1>3, <1>5 DEF Placed, PlacedAt
  <2>2. Cardinality(m.inside[b] \cup S) = Cardinality(m.inside[b]) + Cardinality(S)
    <3>1. IsFiniteSet(m.inside[b]) /\ IsFiniteSet(S)
      BY <1>0, FiniteThings
    <3>2. /\ Cardinality(m.inside[b] \cup S) =
               Cardinality(m.inside[b]) + Cardinality(S) - Cardinality(m.inside[b] \cap S)
          /\ Cardinality(m.inside[b] \cap S) = 0
      BY <2>1, <3>1, FS_Union, FS_EmptySet
    <3>3. Cardinality(m.inside[b]) \in Nat
      BY <3>1, FS_CardinalityType
    <3> QED BY <1>0, <3>2, <3>3
  <2>3. \A c \in Box : t.shots[c] = IF c = b THEN m.shots[b] + Cardinality(S)
                                    ELSE m.shots[c]
    BY <1>0, <1>1 DEF Memory, n
  <2> QED BY <1>6, <2>2, <2>3 DEF Counted, Sound
<1>10. \A p \in Player : FileSound(t.file[p])
  BY <1>1 DEF Sound
<1>12. P \subseteq Player /\ H \ S \subseteq Thing
  BY <1>0 DEF Sound
<1> QED BY <1>1, <1>8, <1>9, <1>10, <1>12 DEF Sound, t

\* Out of a container.
LEMMA UnboxSound ==
    ASSUME NEW m, NEW P, NEW H, Sound(m, P, H),
           NEW b \in Box, NEW S \in SUBSET m.inside[b]
    PROVE  Sound(del_obj_obj(m, S, b), P, H \cup S)
<1> DEFINE t == del_obj_obj(m, S, b)
<1>0. /\ m \in Memory /\ S \in SUBSET Thing /\ H \in SUBSET Thing /\ b \in Thing
      /\ m.inside[b] \in SUBSET Thing
      /\ m.shots[b] = Cardinality(m.inside[b])
  <2>1. m \in Memory
    BY DEF Sound
  <2> QED BY <2>1, ThingsAssumption DEF Memory, Sound, Counted
<1>2. /\ Cardinality(m.inside[b]) - Cardinality(S) = Cardinality(m.inside[b] \ S)
      /\ Cardinality(m.inside[b] \ S) \in Nat
  <2>1. IsFiniteSet(m.inside[b]) /\ IsFiniteSet(S)
    BY <1>0, FiniteThings
  <2>2. m.inside[b] \cap S = S
    OBVIOUS
  <2>3. Cardinality(m.inside[b] \ S) =
          Cardinality(m.inside[b]) - Cardinality(m.inside[b] \cap S)
    BY <2>1, FS_Difference
  <2>4. m.inside[b] \ S \in SUBSET Thing
    BY <1>0
  <2> QED BY <2>2, <2>3, <2>4, FiniteThings
<1>1. /\ t \in Memory
      /\ t.inside = [m.inside EXCEPT ![b] = @ \ S]
      /\ t.shots = [m.shots EXCEPT ![b] = @ - Cardinality(S)]
      /\ t.ready = m.ready /\ t.inv = m.inv /\ t.carried = m.carried
      /\ t.floor = m.floor /\ t.fresh = m.fresh /\ t.freed = m.freed
      /\ t.lost = m.lost /\ t.file = m.file
  BY <1>0, <1>2 DEF del_obj_obj, Memory
<1> HIDE DEF t
<1>3. PICK k, w, s : Placed(m, P, H, k, w, s)
  BY DEF Sound
<1> DEFINE l == [o \in Thing |-> IF o \in S THEN "hand" ELSE k[o]]
<1>4. \A o \in Thing : l[o] = IF o \in S THEN "hand" ELSE k[o]
  OBVIOUS
<1>5. \A o \in S : o \in Thing /\ k[o] = "inside" /\ w[o] = b
  BY <1>0, <1>3 DEF Placed, PlacedAt
<1>6. \A c \in Box : t.inside[c] = IF c = b THEN m.inside[b] \ S ELSE m.inside[c]
  BY <1>0, <1>1 DEF Memory
<1> HIDE DEF l
<1>7. Placed(t, P, H \cup S, l, w, s)
  <2> SUFFICES ASSUME NEW o \in Thing PROVE PlacedAt(t, P, H \cup S, l, w, s, o)
    BY DEF Placed
  <2> QED
    BY <1>1, <1>3, <1>4, <1>5, <1>6, ThingsAssumption DEF Placed, PlacedAt, KindsOfPlace
<1>8. \E x, y, z : Placed(t, P, H \cup S, x, y, z)
  BY <1>7
<1>9. Counted(t)
  <2>1. \A c \in Box : t.shots[c] = IF c = b THEN m.shots[b] - Cardinality(S)
                                    ELSE m.shots[c]
    BY <1>0, <1>1 DEF Memory
  <2> QED BY <1>0, <1>2, <1>6, <2>1 DEF Counted, Sound
<1>10. \A p \in Player : FileSound(t.file[p])
  BY <1>1 DEF Sound
<1>12. P \subseteq Player /\ H \cup S \subseteq Thing
  BY <1>0 DEF Sound
<1> QED BY <1>1, <1>8, <1>9, <1>10, <1>12 DEF Sound, t

\* Freed, with what is in it.
LEMMA FreeSound ==
    ASSUME NEW m, NEW P, NEW H, Sound(m, P, H), NEW S \in SUBSET H
    PROVE  Sound(free_obj(m, S), P, H \ S)
<1> DEFINE t == free_obj(m, S)
<1>0. /\ m \in Memory /\ S \in SUBSET Thing /\ H \in SUBSET Thing
      /\ Contents(m, S) \in SUBSET Thing
      /\ \A o \in Thing : o \in Contents(m, S) <=> \E b \in S \cap Box : o \in m.inside[b]
  BY DEF Sound, Memory, Contents
<1> DEFINE in == [b \in Box |-> IF b \in S THEN {} ELSE m.inside[b]]
           sh == [b \in Box |-> IF b \in S THEN 0 ELSE m.shots[b]]
<1>20. /\ t = [m EXCEPT !.freed = m.freed \cup S \cup Contents(m, S),
                       !.inside = in, !.shots = sh]
       /\ in \in [Box -> SUBSET Thing] /\ sh \in [Box -> Nat]
  BY <1>0 DEF Memory, free_obj
<1>6. \A c \in Box : /\ in[c] = IF c \in S THEN {} ELSE m.inside[c]
                     /\ sh[c] = IF c \in S THEN 0 ELSE m.shots[c]
  OBVIOUS
<1> HIDE DEF t, in, sh
<1>1. /\ t \in Memory
      /\ t.inside = in /\ t.shots = sh
      /\ t.freed = m.freed \cup S \cup Contents(m, S)
      /\ t.ready = m.ready /\ t.inv = m.inv /\ t.carried = m.carried
      /\ t.floor = m.floor /\ t.fresh = m.fresh
      /\ t.lost = m.lost /\ t.file = m.file
  BY <1>0, <1>20 DEF Memory
<1>3. PICK k, w, s : Placed(m, P, H, k, w, s)
  BY DEF Sound
<1> DEFINE D == S \cup Contents(m, S)
           l == [o \in Thing |-> IF o \in D THEN "dead" ELSE k[o]]
<1>4. \A o \in Thing : l[o] = IF o \in D THEN "dead" ELSE k[o]
  OBVIOUS
<1>5. \A o \in S : o \in Thing /\ k[o] = "hand"
  BY <1>0, <1>3 DEF Placed, PlacedAt
<1>13. \A o \in Thing : o \in Contents(m, S) <=>
         k[o] = "inside" /\ w[o] \in Box /\ w[o] \in S
  BY <1>0, <1>3 DEF Placed, PlacedAt
<1>14. t.freed \cup t.lost = (m.freed \cup m.lost) \cup D
  BY <1>1
<1> HIDE DEF l
<1>7. Placed(t, P, H \ S, l, w, s)
  <2> SUFFICES ASSUME NEW o \in Thing PROVE PlacedAt(t, P, H \ S, l, w, s, o)
    BY DEF Placed
  <2>0. PlacedAt(m, P, H, k, w, s, o)
    BY <1>3 DEF Placed
  <2>1. CASE o \in D
    <3>1. l[o] = "dead" /\ k[o] \in {"hand", "inside"}
      BY <1>4, <1>5, <1>13, <2>1
    <3>2. \A b \in Box : o \notin in[b]
      BY <1>5, <1>6, <1>13, <2>0, <2>1 DEF PlacedAt
    <3>3. o \notin H \ S
      BY <1>13, <2>0, <2>1 DEF PlacedAt
    <3> HIDE DEF D
    <3> QED BY <1>1, <1>14, <2>0, <2>1, <3>1, <3>2, <3>3 DEF PlacedAt, KindsOfPlace
  <2>2. CASE o \notin D
    <3>1. l[o] = k[o]
      BY <1>4, <2>2
    <3>2. \A b \in Box : o \in in[b] <=> o \in m.inside[b]
      BY <1>0, <1>6, <2>2
    <3>3. k[o] = "inside" /\ l[w[o]] = "file" => k[w[o]] = "file"
      BY <1>4, <2>0, ThingsAssumption DEF PlacedAt
    <3>4. o \notin S
      BY <2>2
    <3> HIDE DEF D
    <3> QED BY <1>1, <1>14, <2>0, <2>2, <3>1, <3>2, <3>3, <3>4 DEF PlacedAt, KindsOfPlace
  <2> QED BY <2>1, <2>2
<1>8. \E x, y, z : Placed(t, P, H \ S, x, y, z)
  BY <1>7
<1>9. Counted(t)
  BY <1>1, <1>6, FS_EmptySet DEF Counted, Sound
<1>10. \A p \in Player : FileSound(t.file[p])
  BY <1>1 DEF Sound
<1>12. P \subseteq Player /\ H \ S \subseteq Thing
  BY <1>0 DEF Sound
<1> QED BY <1>1, <1>8, <1>9, <1>10, <1>12 DEF Sound, t

-----------------------------------------------------------------------------
(* Files.                                                                  *)

\* What somebody has are things of the lists he is asked about.
LEMMA HasType ==
    ASSUME NEW m \in Memory, NEW p \in Player
    PROVE  /\ m.inv[p] \cup worn(m, p) \in SUBSET Thing
           /\ has(m, p) \in SUBSET Thing
           /\ m.file[p] \in Files
           /\ Kept(m.file[p]) \in SUBSET Thing
<1>1. m.inv[p] \in SUBSET Thing /\ worn(m, p) \in SUBSET Thing /\ m.file[p] \in Files
  BY DEF Memory, worn, Holder
<1>2. \A S : Contents(m, S) \in SUBSET Thing
  BY DEF Memory, Contents
<1>3. Kept(m.file[p]) \in SUBSET Thing
  BY <1>1 DEF Kept, Files
<1> QED BY <1>1, <1>2, <1>3 DEF has

\* savegame writes what the player has, or the part of it that fits, and
\* changes no list.
LEMMA SaveSound ==
    ASSUME NEW m, NEW P, NEW H, Sound(m, P, H),
           NEW p \in P, NEW n \in savegame(m, p)
    PROVE  /\ Sound(n, P, H)
           /\ Kept(n.file[p]) \subseteq has(m, p)
           /\ \A q \in Player \ {p} : n.file[q] = m.file[q]
           /\ n.inv = m.inv /\ n.ready = m.ready /\ n.inside = m.inside
           /\ n.loose = m.loose /\ n.freed = m.freed /\ n.carried = m.carried
           /\ n.floor = m.floor
<1>0. m \in Memory /\ p \in Player
  BY DEF Sound
<1>1. PICK T \in SUBSET (m.inv[p] \cup worn(m, p)) : n = Written(m, p, T)
  BY DEF savegame, AtMost
<1> DEFINE in == [b \in Box |-> IF b \in T THEN m.inside[b] ELSE {}]
           f == [inv |-> T, inside |-> in]
<1>2. T \in SUBSET Thing /\ in \in [Box -> SUBSET Thing]
  BY <1>0, HasType DEF Memory
<1>3. \A b \in Box : in[b] = IF b \in T THEN m.inside[b] ELSE {}
  OBVIOUS
<1> HIDE DEF in
<1>4. f \in Files /\ f.inv = T /\ f.inside = in
  BY <1>2 DEF Files
<1>5. n = [m EXCEPT !.file[p] = f]
  BY <1>0, <1>1 DEF Written, in
<1> HIDE DEF f
<1>6. /\ n \in Memory /\ n.file = [m.file EXCEPT ![p] = f]
      /\ n.inv = m.inv /\ n.ready = m.ready /\ n.inside = m.inside
      /\ n.loose = m.loose /\ n.freed = m.freed /\ n.carried = m.carried
      /\ n.floor = m.floor /\ n.fresh = m.fresh /\ n.lost = m.lost
      /\ n.shots = m.shots
  BY <1>0, <1>4, <1>5 DEF Memory
<1>7. \A q \in Player : n.file[q] = IF q = p THEN f ELSE m.file[q]
  BY <1>0, <1>6 DEF Memory
<1>8. Kept(f) \subseteq has(m, p)
  BY <1>1, <1>3, <1>4 DEF Kept, has, Contents
<1>9. PICK k, w, s : Placed(m, P, H, k, w, s)
  BY DEF Sound
<1>10. FileSound(f)
  <2>1. \A o \in T : o \in Thing /\ k[o] \in {"inv", "ready"}
    BY <1>0, <1>2, <1>9 DEF Placed, PlacedAt, worn, Holder
  <2>2. \A b \in Box : \A o \in m.inside[b] :
          o \in Thing /\ k[o] = "inside" /\ w[o] = b /\ o \notin Box
    BY <1>0, <1>9 DEF Placed, PlacedAt, Memory
  <2>3. \A b \in Box : in[b] \subseteq m.inside[b] /\ (b \notin T => in[b] = {})
    BY <1>3
  <2>4. \A b \in Box : f.inside[b] \cap (Box \cup f.inv) = {}
    BY <1>4, <2>1, <2>2, <2>3
  <2>5. \A b, c \in Box : b # c => f.inside[b] \cap f.inside[c] = {}
    BY <1>4, <2>2, <2>3
  <2> QED BY <1>4, <2>3, <2>4, <2>5 DEF FileSound
<1>11. Placed(n, P, H, k, w, s)
  <2> SUFFICES ASSUME NEW o \in Thing PROVE PlacedAt(n, P, H, k, w, s, o)
    BY DEF Placed
  <2>1. PlacedAt(m, P, H, k, w, s, o)
    BY <1>9 DEF Placed
  <2>2. \A q \in Player \ P : n.file[q] = m.file[q]
    BY <1>7
  <2> QED BY <1>6, <2>1, <2>2 DEF PlacedAt
<1>12. \E a, b, c : Placed(n, P, H, a, b, c)
  BY <1>11
<1>13. Counted(n) /\ \A q \in Player : FileSound(n.file[q])
  BY <1>6, <1>7, <1>10 DEF Sound, Counted
<1>14. Sound(n, P, H)
  BY <1>6, <1>12, <1>13 DEF Sound
<1> QED BY <1>0, <1>6, <1>7, <1>8, <1>14

\* Everything of memory but the history of what is loose.
LEMMA BecomesSound ==
    ASSUME NEW m, NEW P, NEW U, Sound(m, P, {}), Becomes(m, U)
    PROVE  /\ Sound(mem', P, {})
           /\ \A q \in Player :
                Kept(m.file[q]) \subseteq has(m, q) \cup m.loose[q] \cup m.freed
                                            \cup (IF q \in U THEN has(mem, q) ELSE {})
                  => Kept(mem'.file[q]) \subseteq
                       has(mem', q) \cup mem'.loose[q] \cup mem'.freed
<1>0. m \in Memory
  BY DEF Sound
<1> DEFINE l == [p \in Player |->
            (m.loose[p] \cup (IF p \in U THEN has(mem, p) ELSE {}))
                \cap (Kept(m.file[p]) \ has(m, p))]
<1>1. mem' = [m EXCEPT !.loose = l]
  BY <1>0 DEF Becomes
<1>2. l \in [Player -> SUBSET Thing]
  BY <1>0, HasType
<1>3. \A p \in Player : l[p] = (m.loose[p] \cup (IF p \in U THEN has(mem, p) ELSE {}))
                                  \cap (Kept(m.file[p]) \ has(m, p))
  OBVIOUS
<1> HIDE DEF l
<1>4. /\ mem' \in Memory /\ mem'.loose = l
      /\ mem'.inv = m.inv /\ mem'.ready = m.ready /\ mem'.inside = m.inside
      /\ mem'.freed = m.freed /\ mem'.carried = m.carried /\ mem'.floor = m.floor
      /\ mem'.fresh = m.fresh /\ mem'.lost = m.lost /\ mem'.shots = m.shots
      /\ mem'.file = m.file
  BY <1>0, <1>1, <1>2 DEF Memory
<1>5. PICK k, w, s : Placed(m, P, {}, k, w, s)
  BY DEF Sound
<1>6. Placed(mem', P, {}, k, w, s)
  <2> SUFFICES ASSUME NEW o \in Thing PROVE PlacedAt(mem', P, {}, k, w, s, o)
    BY DEF Placed
  <2>1. PlacedAt(m, P, {}, k, w, s, o)
    BY <1>5 DEF Placed
  <2> QED BY <1>4, <2>1 DEF PlacedAt
<1>7. \E a, b, c : Placed(mem', P, {}, a, b, c)
  BY <1>6
<1>8. Counted(mem') /\ \A q \in Player : FileSound(mem'.file[q])
  BY <1>4 DEF Sound, Counted
<1>9. Sound(mem', P, {})
  BY <1>4, <1>7, <1>8 DEF Sound
<1>10. \A q \in Player : has(mem', q) = has(m, q)
  BY <1>4 DEF has, worn, Contents
<1> QED BY <1>3, <1>4, <1>9, <1>10

\* What a handler does to others leaves them what they have, unless it is
\* freed.
LEMMA HasKept ==
    ASSUME NEW m, NEW n, NEW q \in Player,
           m.inv[q] \subseteq n.inv[q], n.ready[q] = m.ready[q],
           \A b \in Box : m.inside[b] \subseteq n.inside[b] \cup n.freed
    PROVE  has(m, q) \subseteq has(n, q) \cup n.freed
  BY DEF has, worn, Contents

-----------------------------------------------------------------------------
(* The invariant, and what ends a handler.                                 *)

\* The file of a player who is in the game holds what he has, what was taken
\* from him unsaved, or what is gone.
Follows(m, P) ==
    \A p \in P : Kept(m.file[p]) \subseteq has(m, p) \cup m.loose[p] \cup m.freed

Fine == Sound(mem, playing, {}) /\ Follows(mem, playing) /\ due \in playing \cup {Nil}

IInv == TypeOK /\ (fate = "up" => Fine)

\* A handler that saves nobody, or somebody on its way.
LEMMA UnsavedStep ==
    ASSUME TypeOK, fate = "up", Fine, NEW m, Sound(m, playing, {}), Unsaved(m),
           m.loose = mem.loose, mem.freed \subseteq m.freed,
           \A q \in playing :
             m.file[q] = mem.file[q] \/ Kept(m.file[q]) \subseteq has(mem, q)
    PROVE  IInv'
<1>1. Becomes(m, Player) /\ UNCHANGED <<playing, due, fate>>
  BY DEF Unsaved
<1>2. Sound(mem', playing, {}) /\ mem' \in Memory
  BY <1>1, BecomesSound DEF Sound
<1>3. ASSUME NEW q \in playing
      PROVE  Kept(mem'.file[q]) \subseteq has(mem', q) \cup mem'.loose[q] \cup mem'.freed
  <2>1. q \in Player
    BY DEF TypeOK
  <2>2. Kept(mem.file[q]) \subseteq has(mem, q) \cup mem.loose[q] \cup mem.freed
    BY DEF Fine, Follows
  <2>3. Kept(m.file[q]) \subseteq has(m, q) \cup m.loose[q] \cup m.freed
                                   \cup (IF q \in Player THEN has(mem, q) ELSE {})
    BY <2>1, <2>2
  <2> QED BY <1>1, <2>1, <2>3, BecomesSound
<1> QED BY <1>1, <1>2, <1>3 DEF IInv, TypeOK, Fine, Follows

\* Several files may have been written with no loss.
LEMMA SafeStep ==
    ASSUME TypeOK, fate = "up", Fine, NEW n, Sound(n, playing, {}), Becomes(n, {}),
           UNCHANGED <<playing, fate>>, due' \in playing \cup {Nil},
           \A q \in playing : Kept(n.file[q]) \subseteq has(n, q) \cup n.loose[q] \cup n.freed
    PROVE  IInv'
<1>2. Sound(mem', playing, {}) /\ mem' \in Memory
  BY BecomesSound DEF Sound
<1>3. ASSUME NEW q \in playing
      PROVE  Kept(mem'.file[q]) \subseteq has(mem', q) \cup mem'.loose[q] \cup mem'.freed
  <2>1. q \in Player
    BY DEF TypeOK
  <2>2. Kept(n.file[q]) \subseteq has(n, q) \cup n.loose[q] \cup n.freed
                                   \cup (IF q \in {} THEN has(mem, q) ELSE {})
    OBVIOUS
  <2> QED BY <2>1, <2>2, BecomesSound
<1> QED BY <1>2, <1>3 DEF IInv, TypeOK, Fine, Follows

\* Saving p after a change that leaves the others what they had.
LEMMA SaveFollows ==
    ASSUME TypeOK, Fine, NEW m, Sound(m, playing, {}),
           NEW p \in playing, NEW n \in savegame(m, p),
           m.file = mem.file, m.loose = mem.loose, mem.freed \subseteq m.freed,
           \A q \in playing \ {p} : has(mem, q) \subseteq has(m, q) \cup m.freed
    PROVE  \A q \in playing : Kept(n.file[q]) \subseteq has(n, q) \cup n.loose[q] \cup n.freed
<1>1. /\ Kept(n.file[p]) \subseteq has(m, p)
      /\ \A q \in Player \ {p} : n.file[q] = m.file[q]
      /\ n.inv = m.inv /\ n.ready = m.ready /\ n.inside = m.inside
      /\ n.loose = m.loose /\ n.freed = m.freed
  BY SaveSound
<1>2. \A q \in Player : has(n, q) = has(m, q)
  BY <1>1 DEF has, worn, Contents
<1> SUFFICES ASSUME NEW q \in playing
             PROVE  Kept(n.file[q]) \subseteq has(n, q) \cup n.loose[q] \cup n.freed
  OBVIOUS
<1>3. q \in Player /\ p \in Player
  BY DEF TypeOK
<1>4. CASE q = p
  BY <1>1, <1>2, <1>3, <1>4
<1>5. CASE q # p
  <2>1. Kept(mem.file[q]) \subseteq has(mem, q) \cup mem.loose[q] \cup mem.freed
    BY DEF Fine, Follows
  <2>2. n.file[q] = mem.file[q]
    BY <1>1, <1>3, <1>5
  <2>3. has(mem, q) \subseteq has(m, q) \cup m.freed
    BY <1>5
  <2> QED BY <1>1, <1>2, <1>3, <2>1, <2>2, <2>3
<1> QED BY <1>4, <1>5

\* A handler that saves p at its end.
LEMMA SavedStep ==
    ASSUME TypeOK, fate = "up", Fine, NEW m, Sound(m, playing, {}),
           NEW p \in playing, Saved(m, p),
           m.file = mem.file, m.loose = mem.loose, mem.freed \subseteq m.freed,
           \A q \in playing \ {p} : has(mem, q) \subseteq has(m, q) \cup m.freed
    PROVE  IInv'
<1>1. PICK n \in savegame(m, p) : Becomes(n, {}) /\ UNCHANGED <<playing, due, fate>>
  BY DEF Saved
<1>2. Sound(n, playing, {})
  BY SaveSound
<1>3. \A q \in playing : Kept(n.file[q]) \subseteq has(n, q) \cup n.loose[q] \cup n.freed
  BY SaveFollows
<1>4. due' \in playing \cup {Nil}
  BY <1>1 DEF Fine
<1> QED BY <1>1, <1>2, <1>3, <1>4, SafeStep

\* A handler that leaves what was freed in a list ends the story.
LEMMA CorruptStep ==
    ASSUME TypeOK, NEW m \in Memory, Corrupt(m)
    PROVE  IInv'
<1> DEFINE l == [p \in Player |->
            (m.loose[p] \cup (IF p \in Player THEN has(mem, p) ELSE {}))
                \cap (Kept(m.file[p]) \ has(m, p))]
<1>1. mem' = [m EXCEPT !.loose = l] /\ fate' = "corrupt" /\ UNCHANGED <<playing, due>>
  BY DEF Becomes, Corrupt
<1>2. l \in [Player -> SUBSET Thing]
  BY HasType
<1> HIDE DEF l
<1>3. mem' \in Memory
  BY <1>1, <1>2 DEF Memory
<1> QED BY <1>1, <1>3 DEF IInv, TypeOK

-----------------------------------------------------------------------------
(* The moves the handlers are made of, put together.                       *)

\* n differs from m by moves of things that are not gone for good.
Near(m, n) == n.file = m.file /\ n.loose = m.loose /\ m.freed \subseteq n.freed

\* The players of Q lose nothing but what is freed.
Spares(m, n, Q) ==
    /\ \A q \in Q : m.inv[q] \subseteq n.inv[q] /\ n.ready[q] = m.ready[q]
    /\ \A b \in Box : m.inside[b] \subseteq n.inside[b] \cup n.freed

\* What a handler may take into its hands.
LEMMA Takes ==
    ASSUME NEW m, NEW P, Sound(m, P, {}), NEW S
    PROVE  /\ \A h \in Holder : S \subseteq m.inv[h] => Sound(Uncarry(m, S, h), P, S)
           /\ S \subseteq m.floor => Sound(del_obj_rom(m, S), P, S)
           /\ S \subseteq m.fresh => Sound(load_obj(m, S), P, S)
           /\ \A p \in Player : S \subseteq worn(m, p) => Sound(Unready(m, p, S), P, S)
           /\ \A b \in Box : S \subseteq m.inside[b] => Sound(del_obj_obj(m, S, b), P, S)
<1> DEFINE E == {}
<1>0. E \cup S = S /\ Sound(m, P, E)
  OBVIOUS
<1> HIDE DEF E
<1>1. ASSUME NEW h \in Holder, S \subseteq m.inv[h] PROVE Sound(Uncarry(m, S, h), P, S)
  <2>1. Sound(Uncarry(m, S, h), P, E \cup S)
    BY <1>0, <1>1, UncarrySound
  <2> QED BY <1>0, <2>1
<1>2. ASSUME S \subseteq m.floor PROVE Sound(del_obj_rom(m, S), P, S)
  <2>1. Sound(del_obj_rom(m, S), P, E \cup S)
    BY <1>0, <1>2, LiftSound
  <2> QED BY <1>0, <2>1
<1>3. ASSUME S \subseteq m.fresh PROVE Sound(load_obj(m, S), P, S)
  <2>1. Sound(load_obj(m, S), P, E \cup S)
    BY <1>0, <1>3, LoadSound
  <2> QED BY <1>0, <2>1
<1>4. ASSUME NEW p \in Player, S \subseteq worn(m, p) PROVE Sound(Unready(m, p, S), P, S)
  <2>1. Sound(Unready(m, p, S), P, E \cup S)
    BY <1>0, <1>4, UnreadySound
  <2> QED BY <1>0, <2>1
<1>5. ASSUME NEW b \in Box, S \subseteq m.inside[b] PROVE Sound(del_obj_obj(m, S, b), P, S)
  <2>1. Sound(del_obj_obj(m, S, b), P, E \cup S)
    BY <1>0, <1>5, UnboxSound
  <2> QED BY <1>0, <2>1
<1> QED BY <1>1, <1>2, <1>3, <1>4, <1>5

\* What it may do with what it has in its hands.
LEMMA Lays ==
    ASSUME NEW m, NEW P, NEW S, Sound(m, P, S)
    PROVE  /\ \A h \in P \cup {Mon} : Sound(add_obj_crt(m, S, h), P, {})
           /\ Sound(add_obj_rom(m, S), P, {})
           /\ Sound(free_obj(m, S), P, {})
           /\ Sound(Forget(m, S), P, {})
<1>1. ASSUME NEW h \in P \cup {Mon} PROVE Sound(add_obj_crt(m, S, h), P, S \ S)
  BY CarrySound
<1>2. Sound(add_obj_rom(m, S), P, S \ S)
  BY FloorSound
<1>3. Sound(free_obj(m, S), P, S \ S)
  BY FreeSound
<1>4. Sound(Forget(m, S), P, S \ S)
  BY ForgetSound
<1>5. S \ S = {}
  OBVIOUS
<1> QED BY <1>1, <1>2, <1>3, <1>4, <1>5

\* The moves leave the files alone, and give back nothing that was freed.
LEMMA NearMoves ==
    ASSUME NEW m \in Memory, NEW S
    PROVE  /\ \A h : Near(m, Uncarry(m, S, h)) /\ Near(m, add_obj_crt(m, S, h))
           /\ Near(m, del_obj_rom(m, S)) /\ Near(m, add_obj_rom(m, S))
           /\ \A b : Near(m, add_obj_obj(m, S, b)) /\ Near(m, del_obj_obj(m, S, b))
           /\ Near(m, free_obj(m, S)) /\ Near(m, Forget(m, S)) /\ Near(m, load_obj(m, S))
           /\ \A p : Near(m, Unready(m, p, S)) /\ Near(m, Dressed(m, p, S))
<1>1. \A h : Near(m, Uncarry(m, S, h)) /\ Near(m, add_obj_crt(m, S, h))
  BY DEF Near, Uncarry, add_obj_crt, Memory
<1>2. Near(m, del_obj_rom(m, S)) /\ Near(m, add_obj_rom(m, S))
  BY DEF Near, del_obj_rom, add_obj_rom, Memory
<1>3. \A b : Near(m, add_obj_obj(m, S, b)) /\ Near(m, del_obj_obj(m, S, b))
  BY DEF Near, add_obj_obj, del_obj_obj, Memory
<1>4. Near(m, free_obj(m, S)) /\ Near(m, Forget(m, S)) /\ Near(m, load_obj(m, S))
  BY DEF Near, free_obj, Forget, load_obj, Memory
<1>5. \A p : Near(m, Unready(m, p, S)) /\ Near(m, Dressed(m, p, S))
  BY DEF Near, Unready, Dressed, Memory
<1> QED BY <1>1, <1>2, <1>3, <1>4, <1>5

\* They change only what the one has they are about.
LEMMA SparingMoves ==
    ASSUME NEW m \in Memory, NEW S
    PROVE  /\ \A h : Spares(m, Uncarry(m, S, h), Player \ {h})
           /\ \A h : Spares(m, add_obj_crt(m, S, h), Player)
           /\ \A b : Spares(m, add_obj_obj(m, S, b), Player)
           /\ Spares(m, add_obj_rom(m, S), Player)
           /\ Spares(m, free_obj(m, S), Player)
           /\ Spares(m, Forget(m, S), Player)
           /\ \A p : Spares(m, Unready(m, p, S), Player \ {p})
<1> USE DEF Spares
<1>1. ASSUME NEW h PROVE /\ Spares(m, Uncarry(m, S, h), Player \ {h})
                         /\ Spares(m, add_obj_crt(m, S, h), Player)
  BY DEF Uncarry, add_obj_crt, Memory, Holder
<1>2. ASSUME NEW b PROVE Spares(m, add_obj_obj(m, S, b), Player)
  BY DEF add_obj_obj, Memory
<1>3. Spares(m, add_obj_rom(m, S), Player) /\ Spares(m, Forget(m, S), Player)
  BY DEF add_obj_rom, Forget, Memory
<1>4. Spares(m, free_obj(m, S), Player)
  <2>1. /\ free_obj(m, S).inv = m.inv /\ free_obj(m, S).ready = m.ready
        /\ free_obj(m, S).freed = m.freed \cup S \cup Contents(m, S)
        /\ free_obj(m, S).inside = [b \in Box |-> IF b \in S THEN {} ELSE m.inside[b]]
    BY DEF free_obj, Memory
  <2>2. ASSUME NEW b \in Box
        PROVE  m.inside[b] \subseteq free_obj(m, S).inside[b] \cup free_obj(m, S).freed
    BY <2>1 DEF Contents
  <2> QED BY <2>1, <2>2
<1>5. ASSUME NEW p PROVE Spares(m, Unready(m, p, S), Player \ {p})
  BY DEF Unready, Memory
<1> QED BY <1>1, <1>2, <1>3, <1>4, <1>5

\* The ends of a handler once more.
LEMMA UnsavedNear ==
    ASSUME TypeOK, fate = "up", Fine, NEW m, Sound(m, playing, {}), Unsaved(m),
           Near(mem, m)
    PROVE  IInv'
  BY UnsavedStep DEF Near

\* The same for a handler that saves p at its end.
LEMMA SavedNear ==
    ASSUME TypeOK, fate = "up", Fine, NEW m, Sound(m, playing, {}),
           NEW p \in playing, Saved(m, p), Near(mem, m), Spares(mem, m, Player \ {p})
    PROVE  IInv'
<1>1. ASSUME NEW q \in playing \ {p} PROVE has(mem, q) \subseteq has(m, q) \cup m.freed
  <2>1. q \in Player \ {p}
    BY DEF TypeOK
  <2>2. /\ mem.inv[q] \subseteq m.inv[q] /\ m.ready[q] = mem.ready[q]
        /\ \A b \in Box : mem.inside[b] \subseteq m.inside[b] \cup m.freed
    BY <2>1 DEF Spares
  <2> QED BY <2>1, <2>2, HasKept
<1> QED BY <1>1, SavedStep DEF Near

-----------------------------------------------------------------------------
(* Every handler.                                                          *)

Running == TypeOK /\ fate = "up" /\ Fine

\* A handler may end with memory n: at most h has lost something.
Good(n, h) ==
    Sound(n, playing, {}) /\ Near(mem, n) /\ Spares(mem, n, Player \ {h})

\* An end without a save, from a good memory.
LEMMA UnsavedGood ==
    ASSUME Running, NEW n, NEW h, Good(n, h), Unsaved(n) PROVE IInv'
  BY UnsavedNear DEF Running, Good

\* An end with a save of p.
LEMMA SavedGood ==
    ASSUME Running, NEW n, NEW p \in playing, Good(n, p), Saved(n, p) PROVE IInv'
  BY SavedNear DEF Running, Good

\* Whatever is done with the things of S that were h's is good.
LEMMA Lands ==
    ASSUME Running, NEW m, NEW S, NEW h, Sound(m, playing, S),
           Near(mem, m), Spares(mem, m, Player \ {h})
    PROVE  /\ \A g \in playing \cup {Mon} : Good(add_obj_crt(m, S, g), h)
           /\ Good(add_obj_rom(m, S), h)
           /\ Good(free_obj(m, S), h)
           /\ Good(Forget(m, S), h)
<1>0. m \in Memory
  BY DEF Sound
<1>1. ASSUME NEW n, Near(m, n), Spares(m, n, Player)
      PROVE  Near(mem, n) /\ Spares(mem, n, Player \ {h})
  BY <1>1 DEF Near, Spares
<1>2. ASSUME NEW g \in playing \cup {Mon} PROVE Good(add_obj_crt(m, S, g), h)
  <2>1. Sound(add_obj_crt(m, S, g), playing, {})
    BY Lays
  <2>2. Near(m, add_obj_crt(m, S, g)) /\ Spares(m, add_obj_crt(m, S, g), Player)
    BY <1>0, NearMoves, SparingMoves
  <2> QED BY <1>1, <2>1, <2>2 DEF Good
<1>3. Good(add_obj_rom(m, S), h)
  <2>1. Near(m, add_obj_rom(m, S)) /\ Spares(m, add_obj_rom(m, S), Player)
    BY <1>0, NearMoves, SparingMoves
  <2> QED BY <1>1, <2>1, Lays DEF Good
<1>4. Good(free_obj(m, S), h)
  <2>1. Near(m, free_obj(m, S)) /\ Spares(m, free_obj(m, S), Player)
    BY <1>0, NearMoves, SparingMoves
  <2> QED BY <1>1, <2>1, Lays DEF Good
<1>5. Good(Forget(m, S), h)
  <2>1. Near(m, Forget(m, S)) /\ Spares(m, Forget(m, S), Player)
    BY <1>0, NearMoves, SparingMoves
  <2> QED BY <1>1, <2>1, Lays DEF Good
<1> QED BY <1>2, <1>3, <1>4, <1>5

\* Taken from an inventory.
LEMMA FromInventory ==
    ASSUME Running, NEW h \in Holder, NEW S, S \subseteq mem.inv[h]
    PROVE  LET m == Uncarry(mem, S, h)
           IN /\ Sound(m, playing, S)
              /\ Near(mem, m) /\ Spares(mem, m, Player \ {h})
              /\ \A g \in playing \cup {Mon} : Good(add_obj_crt(m, S, g), h)
              /\ Good(add_obj_rom(m, S), h)
              /\ Good(free_obj(m, S), h)
              /\ Good(Forget(m, S), h)
<1> DEFINE m == Uncarry(mem, S, h)
<1>1. Sound(m, playing, S) /\ Near(mem, m) /\ Spares(mem, m, Player \ {h})
  BY Takes, NearMoves, SparingMoves DEF Running, Fine, TypeOK
<1> HIDE DEF m
<1>2. /\ \A g \in playing \cup {Mon} : Good(add_obj_crt(m, S, g), h)
      /\ Good(add_obj_rom(m, S), h)
      /\ Good(free_obj(m, S), h)
      /\ Good(Forget(m, S), h)
  BY <1>1, Lands
<1> QED BY <1>1, <1>2 DEF m

\* Taken off a player.
LEMMA FromBody ==
    ASSUME Running, NEW p \in Player, NEW S, S \subseteq worn(mem, p)
    PROVE  LET m == Unready(mem, p, S)
           IN /\ Sound(m, playing, S)
              /\ Near(mem, m) /\ Spares(mem, m, Player \ {p})
              /\ \A g \in playing \cup {Mon} : Good(add_obj_crt(m, S, g), p)
              /\ Good(add_obj_rom(m, S), p)
              /\ Good(free_obj(m, S), p)
              /\ Good(Forget(m, S), p)
<1> DEFINE m == Unready(mem, p, S)
<1>1. Sound(m, playing, S) /\ Near(mem, m) /\ Spares(mem, m, Player \ {p})
  BY Takes, NearMoves, SparingMoves DEF Running, Fine, TypeOK
<1> HIDE DEF m
<1>2. /\ \A g \in playing \cup {Mon} : Good(add_obj_crt(m, S, g), p)
      /\ Good(add_obj_rom(m, S), p)
      /\ Good(free_obj(m, S), p)
      /\ Good(Forget(m, S), p)
  BY <1>1, Lands
<1> QED BY <1>1, <1>2 DEF m

\* A container near the player is in no file.
LEMMA BoxHere ==
    ASSUME Running, NEW p \in playing, NEW b \in Boxes(p)
    PROVE  b \in Box /\ \A q \in Player \ playing : b \notin Kept(mem.file[q])
<1>1. PICK k, w, s : Placed(mem, playing, {}, k, w, s)
  BY DEF Running, Fine, Sound
<1>2. b \in Box /\ b \in Thing /\ p \in Player
      /\ (b \in mem.floor \/ b \in mem.inv[p] \/ b \in worn(mem, p))
  BY ThingsAssumption DEF Boxes, Running, TypeOK
<1>3. PlacedAt(mem, playing, {}, k, w, s, b)
  BY <1>1, <1>2 DEF Placed
<1> QED BY <1>2, <1>3 DEF PlacedAt, worn, Holder

\* What is in an inventory goes into a container near the player.
LEMMA IntoBox ==
    ASSUME Running, NEW p \in playing, NEW b \in Boxes(p),
           NEW S, S \subseteq mem.inv[p] \ Box
    PROVE  Good(add_obj_obj(Uncarry(mem, S, p), S, b), p)
<1> DEFINE m == Uncarry(mem, S, p)
           n == add_obj_obj(m, S, b)
<1>0. p \in Player /\ p \in Holder
  BY DEF Running, TypeOK, Holder
<1>1. Sound(m, playing, S) /\ Near(mem, m) /\ Spares(mem, m, Player \ {p})
  BY <1>0, FromInventory
<1>2. m \in Memory /\ m.file = mem.file
  BY <1>1 DEF Sound, Near
<1>3. b \in Box /\ \A q \in Player \ playing : b \notin Kept(m.file[q])
  BY <1>2, BoxHere
<1>4. S \cap Box = {} /\ S \ S = {}
  OBVIOUS
<1> HIDE DEF m
<1>5. Sound(n, playing, {})
  <2>1. Sound(add_obj_obj(m, S, b), playing, S \ S)
    BY <1>1, <1>3, <1>4, BoxSound
  <2> QED BY <1>4, <2>1
<1>6. Near(m, n) /\ Spares(m, n, Player)
  BY <1>2, NearMoves, SparingMoves
<1> HIDE DEF n
<1>7. Near(mem, n) /\ Spares(mem, n, Player \ {p})
  BY <1>1, <1>6 DEF Near, Spares
<1> QED BY <1>5, <1>7 DEF Good, m, n

\* get, from the floor; a quest saves in the middle.
LEMMA GetInv ==
    ASSUME Running, NEW p \in Player, NEW o \in Thing, Get(p, o)
    PROVE  IInv'
<1> DEFINE m == del_obj_rom(mem, {o})
<1>0. /\ p \in playing /\ p \in Holder /\ {o} \subseteq mem.floor /\ mem \in Memory
      /\ Sound(mem, playing, {}) /\ TypeOK /\ fate = "up" /\ Fine
  BY DEF Get, Turn, Holder, Running, Fine, Sound
<1>1. Sound(m, playing, {o}) /\ Near(mem, m)
  BY <1>0, Takes, NearMoves
<1>2. has(m, p) = has(mem, p)
  BY <1>0 DEF has, worn, Contents, del_obj_rom, Memory
<1>3. \/ Unsaved(add_obj_crt(m, {o}, p))
      \/ \E n \in savegame(m, p) : Unsaved(add_obj_crt(n, {o}, p))
  BY DEF Get
<1> HIDE DEF m
<1>4. m \in Memory
  BY <1>1 DEF Sound
<1>5. CASE Unsaved(add_obj_crt(m, {o}, p))
  <2>1. Sound(add_obj_crt(m, {o}, p), playing, {}) /\ Near(m, add_obj_crt(m, {o}, p))
    BY <1>0, <1>1, <1>4, Lays, NearMoves
  <2>2. Near(mem, add_obj_crt(m, {o}, p))
    BY <1>1, <2>1 DEF Near
  <2> QED BY <1>0, <1>5, <2>1, <2>2, UnsavedNear
<1>6. ASSUME NEW n \in savegame(m, p), Unsaved(add_obj_crt(n, {o}, p)) PROVE IInv'
  <2>1. /\ Sound(n, playing, {o}) /\ n \in Memory
        /\ Kept(n.file[p]) \subseteq has(mem, p)
        /\ \A q \in Player \ {p} : n.file[q] = m.file[q]
        /\ n.loose = m.loose /\ n.freed = m.freed
    <3>1. /\ Sound(n, playing, {o})
          /\ Kept(n.file[p]) \subseteq has(m, p)
          /\ \A q \in Player \ {p} : n.file[q] = m.file[q]
          /\ n.loose = m.loose /\ n.freed = m.freed
      BY <1>0, <1>1, <1>6, SaveSound
    <3> QED BY <1>2, <3>1 DEF Sound
  <2> DEFINE r == add_obj_crt(n, {o}, p)
  <2>2. Sound(r, playing, {}) /\ Near(n, r)
    BY <1>0, <2>1, Lays, NearMoves
  <2>3. Unsaved(r)
    BY <1>6
  <2> HIDE DEF r
  <2>4. /\ r.loose = mem.loose /\ mem.freed \subseteq r.freed
        /\ \A q \in playing :
             r.file[q] = mem.file[q] \/ Kept(r.file[q]) \subseteq has(mem, q)
    BY <1>0, <1>1, <2>1, <2>2 DEF Near, TypeOK
  <2> QED BY <1>0, <2>2, <2>3, <2>4, UnsavedStep
<1> QED BY <1>3, <1>5, <1>6

\* get, from a container and from the floor.
LEMMA GetMoreInv ==
    ASSUME Running, NEW p \in Player, NEW S,
           \/ get_all_rom(p, S)
           \/ \E b \in Box : get_all_obj(p, b, S)
           \/ \E b \in Box, o \in Thing : GetFrom(p, b, o) /\ S = {o}
    PROVE  IInv'
<1>0. /\ p \in playing /\ p \in Player /\ mem \in Memory
      /\ Sound(mem, playing, {}) /\ TypeOK /\ fate = "up" /\ Fine
  BY DEF get_all_rom, get_all_obj, GetFrom, Turn, Running, Fine, Sound
<1>1. ASSUME NEW m, Sound(m, playing, S), Near(mem, m), Unsaved(add_obj_crt(m, S, p))
      PROVE  IInv'
  <2> DEFINE r == add_obj_crt(m, S, p)
  <2>1. m \in Memory
    BY <1>1 DEF Sound
  <2>2. Sound(r, playing, {}) /\ Near(m, r)
    BY <1>0, <1>1, <2>1, Lays, NearMoves
  <2>3. Unsaved(r)
    BY <1>1
  <2> HIDE DEF r
  <2>4. Near(mem, r)
    BY <1>1, <2>2 DEF Near
  <2> QED BY <1>0, <2>2, <2>3, <2>4, UnsavedNear
<1>2. CASE get_all_rom(p, S)
  <2>1. Sound(del_obj_rom(mem, S), playing, S) /\ Near(mem, del_obj_rom(mem, S))
    BY <1>0, <1>2, Takes, NearMoves DEF get_all_rom
  <2> QED BY <1>1, <1>2, <2>1 DEF get_all_rom
<1>3. ASSUME NEW b \in Box, get_all_obj(p, b, S) \/ \E o \in Thing : GetFrom(p, b, o) /\ S = {o}
      PROVE  IInv'
  <2>1. S \subseteq mem.inside[b] /\ Unsaved(add_obj_crt(del_obj_obj(mem, S, b), S, p))
    BY <1>3 DEF get_all_obj, GetFrom
  <2>2. Sound(del_obj_obj(mem, S, b), playing, S) /\ Near(mem, del_obj_obj(mem, S, b))
    BY <1>0, <2>1, Takes, NearMoves
  <2> QED BY <1>1, <2>1, <2>2
<1> QED BY <1>2, <1>3

\* What is dropped, discarded, put, spent, given or stolen comes from one
\* inventory.
LEMMA InventoryInv ==
    ASSUME Running, NEW p \in Player, NEW o \in Thing,
           \/ Discard(p, o) \/ Spend(p, o)
           \/ \E k \in Kinds : Drop(p, o, k) \/ DropFull(p, o, k) \/ Stumble(p, o, k)
           \/ \E b \in Box : Put(p, o, b) \/ Store(p, o, b)
           \/ \E h \in Holder : Steal(p, h, o)
           \/ \E q \in Player : Transport(p, q, o)
    PROVE  IInv'
<1>0. p \in playing /\ p \in Holder
  BY DEF Discard, Spend, Drop, DropFull, Stumble, Put, Store, Steal, Transport,
         Turn, Holder
<1>2. ASSUME NEW h \in Holder, Steal(p, h, o) PROVE IInv'
  <2>1. {o} \subseteq mem.inv[h]
    BY <1>2 DEF Steal
  <2>2. Good(add_obj_crt(Uncarry(mem, {o}, h), {o}, p), h)
    BY <1>0, <2>1, FromInventory
  <2> QED BY <1>2, <2>2, UnsavedGood DEF Steal
<1>1. CASE {o} \subseteq mem.inv[p]
  <2> DEFINE m == Uncarry(mem, {o}, p)
  <2>1. /\ Good(add_obj_rom(m, {o}), p) /\ Good(free_obj(m, {o}), p)
        /\ Good(Forget(m, {o}), p)
        /\ \A g \in playing : Good(add_obj_crt(m, {o}, g), p)
    BY <1>0, <1>1, FromInventory
  <2>2. \A k \in Kinds : Good(Dropped(m, {o}, k), p)
    BY <2>1 DEF Dropped
  <2>3. \A k \in Kinds :
          Good(IF k = "plain" THEN add_obj_rom(m, {o}) ELSE Forget(m, {o}), p)
    BY <2>1
  <2>4. o \notin Box => \A b \in Boxes(p) : Good(add_obj_obj(m, {o}, b), p)
    BY <1>0, <1>1, IntoBox
  <2>5. \A n : Good(n, p) /\ (Unsaved(n) \/ Saved(n, p)) => IInv'
    BY <1>0, UnsavedGood, SavedGood
  <2> HIDE DEF m
  <2>6. CASE Discard(p, o) \/ Spend(p, o)
    BY <2>1, <2>5, <2>6 DEF Discard, Spend, m
  <2>7. ASSUME NEW k \in Kinds, Drop(p, o, k) PROVE IInv'
    BY <2>2, <2>5, <2>7 DEF Drop, m
  <2>8. ASSUME NEW k \in Kinds, DropFull(p, o, k) \/ Stumble(p, o, k) PROVE IInv'
    BY <2>3, <2>5, <2>8 DEF DropFull, Stumble, m
  <2>9. ASSUME NEW b \in Box, Put(p, o, b) \/ Store(p, o, b) PROVE IInv'
    <3>1. b \in Boxes(p) /\ o \notin Box
      BY <2>9 DEF Put, Store, Boxes
    <3> QED BY <2>1, <2>4, <2>5, <2>9, <3>1 DEF Put, Store, m
  <2>10. ASSUME NEW q \in Player, Transport(p, q, o) PROVE IInv'
    BY <2>1, <2>5, <2>10 DEF Transport, m
  <2> QED BY <2>6, <2>7, <2>8, <2>9, <2>10, <1>2
<1> QED
  BY <1>1, <1>2 DEF Discard, Spend, Drop, DropFull, Stumble, Put, Store, Transport

\* The same with many things at once.
LEMMA InventoriesInv ==
    ASSUME Running, NEW p \in Player, NEW S \in SUBSET Thing,
           \/ \E k \in Kinds : drop_all_rom(p, S, k)
           \/ \E b \in Box : drop_all_obj(p, S, b)
    PROVE  IInv'
<1> DEFINE m == Uncarry(mem, S, p)
<1>0. p \in playing /\ p \in Holder /\ S \subseteq mem.inv[p]
  BY DEF drop_all_rom, drop_all_obj, Turn, Holder
<1>1. Good(add_obj_rom(m, S), p) /\ Good(free_obj(m, S), p)
  BY <1>0, FromInventory
<1>2. \A k \in Kinds : Good(Dropped(m, S, k), p)
  BY <1>1 DEF Dropped
<1>3. S \cap Box = {} => \A b \in Boxes(p) : Good(add_obj_obj(m, S, b), p)
  BY <1>0, IntoBox
<1>4. \A n : Good(n, p) /\ (Unsaved(n) \/ Saved(n, p)) => IInv'
  BY <1>0, UnsavedGood, SavedGood
<1> HIDE DEF m
<1>5. ASSUME NEW k \in Kinds, drop_all_rom(p, S, k) PROVE IInv'
  BY <1>2, <1>4, <1>5 DEF drop_all_rom, m
<1>6. ASSUME NEW b \in Box, drop_all_obj(p, S, b) PROVE IInv'
  <2>1. b \in Boxes(p) /\ S \cap Box = {}
    BY <1>6 DEF drop_all_obj
  <2> QED BY <1>1, <1>3, <1>4, <1>6, <2>1 DEF drop_all_obj, m
<1> QED BY <1>5, <1>6

\* wear, wield and hold.
LEMMA WearInv ==
    ASSUME Running, NEW p \in Player, NEW o \in Thing, Wear(p, o) \/ Hold(p, o)
    PROVE  IInv'
<1> DEFINE m == Uncarry(mem, {o}, p)
<1>0. /\ p \in playing /\ p \in Holder /\ {o} \subseteq mem.inv[p] /\ mem \in Memory
      /\ wearflag[o] # Nil
  BY ThingsAssumption DEF Wear, Hold, Turn, Holder, Running, TypeOK
<1>1. /\ Sound(m, playing, {o}) /\ Near(mem, m)
      /\ Good(add_obj_rom(m, {o}), p) /\ Good(free_obj(m, {o}), p)
      /\ Good(Forget(m, {o}), p)
  BY <1>0, FromInventory
<1>2. m.ready = mem.ready
  BY <1>0 DEF Uncarry, Memory
<1>3. \A n : Good(n, p) /\ Unsaved(n) => IInv'
  BY UnsavedGood
<1>4. \/ \E s \in Slot : mem.ready[p][s] = Nil /\ Unsaved([m EXCEPT !.ready[p][s] = o])
      \/ \E n : Good(n, p) /\ Unsaved(n)
  <2>1. CASE Wear(p, o)
    BY <1>1, <2>1, ThingsAssumption DEF Wear, Readied
  <2>2. CASE Hold(p, o)
    BY <1>1, <2>2, ThingsAssumption DEF Hold, Readied
  <2> QED BY <2>1, <2>2
<1> HIDE DEF m
<1>5. ASSUME NEW s \in Slot, mem.ready[p][s] = Nil, Unsaved([m EXCEPT !.ready[p][s] = o])
      PROVE  IInv'
  <2> DEFINE n == [m EXCEPT !.ready[p][s] = o]
  <2>1. m.ready[p][s] = Nil /\ o \in {o} /\ {o} \ {o} = {} /\ m \in Memory
    BY <1>1, <1>2, <1>5 DEF Sound
  <2>2. Sound(n, playing, {o} \ {o})
    BY <1>0, <1>1, <2>1, HoldSound
  <2>3. Near(m, n)
    BY <2>1 DEF Near, Memory
  <2>4. Unsaved(n)
    BY <1>5
  <2> HIDE DEF n
  <2>5. Near(mem, n) /\ Sound(n, playing, {})
    BY <1>1, <2>1, <2>2, <2>3 DEF Near
  <2> QED BY <2>4, <2>5, UnsavedNear DEF Running
<1> QED BY <1>3, <1>4, <1>5

\* wear all.
LEMMA WearAllInv ==
    ASSUME Running, NEW p \in Player, NEW S \in SUBSET Thing, WearAll(p, S)
    PROVE  IInv'
<1> DEFINE m == Uncarry(mem, S, p)
           n == Dressed(m, p, S)
<1>0. /\ p \in playing /\ p \in Holder /\ S \subseteq mem.inv[p] /\ mem \in Memory
      /\ \A o \in S : wearflag[o] # Nil /\ mem.ready[p][wearflag[o]] = Nil
      /\ \A o, q \in S : wearflag[o] = wearflag[q] => o = q
  BY DEF WearAll, Turn, Holder, Running, TypeOK
<1>1. Unsaved(n)
  BY DEF WearAll, Dressed
<1>2. Sound(m, playing, S) /\ Near(mem, m) /\ m.ready = mem.ready
  BY <1>0, FromInventory DEF Uncarry, Memory
<1> HIDE DEF m
<1>3. S \in SUBSET S /\ S \ S = {} /\ m \in Memory
  BY <1>2 DEF Sound
<1>4. \A o \in S : wearflag[o] # Nil /\ m.ready[p][wearflag[o]] = Nil
  BY <1>0, <1>2
<1>5. Sound(Dressed(m, p, S), playing, S \ S)
  BY <1>0, <1>2, <1>3, <1>4, DressSound
<1>6. Near(m, n)
  BY <1>3, NearMoves
<1>7. Near(mem, n) /\ Sound(n, playing, {})
  BY <1>2, <1>3, <1>5, <1>6 DEF Near
<1> HIDE DEF n
<1> QED BY <1>1, <1>7, UnsavedNear DEF Running

\* What is taken off, shatters, is dropped in flight or lost.
LEMMA BodyInv ==
    ASSUME Running, NEW p \in Player,
           \/ \E o \in Thing : Remove(p, o) \/ Shatter(p, o)
           \/ \E S \in SUBSET Thing : RemoveAll(p, S)
           \/ \E k \in Kinds : Flee(p, k)
           \/ PickPocket(p)
    PROVE  IInv'
<1>0. p \in playing
  BY DEF Remove, Shatter, RemoveAll, Flee, PickPocket, Turn
<1>1. ASSUME NEW S, S \subseteq worn(mem, p)
      PROVE  /\ \A g \in playing \cup {Mon} :
                  Unsaved(add_obj_crt(Unready(mem, p, S), S, g)) => IInv'
             /\ Unsaved(free_obj(Unready(mem, p, S), S)) => IInv'
             /\ \A k \in Kinds : Saved(Spilt(Unready(mem, p, S), S, k), p) => IInv'
  <2> DEFINE m == Unready(mem, p, S)
  <2>1. /\ \A g \in playing \cup {Mon} : Good(add_obj_crt(m, S, g), p)
        /\ Good(add_obj_rom(m, S), p) /\ Good(free_obj(m, S), p)
        /\ Good(Forget(m, S), p)
    BY <1>1, FromBody
  <2>2. \A k \in Kinds : Good(Spilt(m, S, k), p)
    BY <2>1 DEF Spilt
  <2> HIDE DEF m
  <2>3. \A n : Good(n, p) /\ (Unsaved(n) \/ Saved(n, p)) => IInv'
    BY <1>0, UnsavedGood, SavedGood
  <2>4. /\ \A g \in playing \cup {Mon} : Unsaved(add_obj_crt(m, S, g)) => IInv'
        /\ Unsaved(free_obj(m, S)) => IInv'
        /\ \A k \in Kinds : Saved(Spilt(m, S, k), p) => IInv'
    BY <2>1, <2>2, <2>3
  <2> QED BY <2>4 DEF m
<1>2. ASSUME NEW o \in Thing, Remove(p, o) \/ Shatter(p, o) PROVE IInv'
  <2>1. {o} \subseteq worn(mem, p)
    BY <1>2 DEF Remove, Shatter
  <2> QED BY <1>0, <1>1, <1>2, <2>1 DEF Remove, Shatter
<1>3. ASSUME NEW S \in SUBSET Thing, RemoveAll(p, S) PROVE IInv'
  BY <1>0, <1>1, <1>3 DEF RemoveAll
<1>4. ASSUME NEW k \in Kinds, Flee(p, k) PROVE IInv'
  <2>1. PICK o \in {mem.ready[p]["wield"], mem.ready[p]["held"]} \ {Nil} :
          Saved(Spilt(Unready(mem, p, {o}), {o}, k), p)
    BY <1>4 DEF Flee
  <2>2. {o} \subseteq worn(mem, p)
    BY ThingsAssumption DEF worn
  <2> QED BY <1>1, <2>1, <2>2
<1>5. CASE PickPocket(p)
  <2> DEFINE o == mem.ready[p]["held"]
  <2>1. {o} \subseteq worn(mem, p) /\ Unsaved(add_obj_crt(Unready(mem, p, {o}), {o}, Mon))
    BY <1>5, ThingsAssumption DEF worn, PickPocket
  <2> HIDE DEF o
  <2> QED BY <1>1, <2>1
<1> QED BY <1>2, <1>3, <1>4, <1>5

\* give, and the second save it owes.
LEMMA GiveInv ==
    ASSUME Running, NEW p \in Player, NEW h \in Holder, NEW o \in Thing, Give(p, h, o)
    PROVE  IInv'
<1> DEFINE m == add_obj_crt(Uncarry(mem, {o}, p), {o}, h)
<1>0. /\ p \in playing /\ p \in Holder /\ {o} \subseteq mem.inv[p]
      /\ h \in playing \cup {Mon}
      /\ UNCHANGED <<playing, fate>> /\ TypeOK /\ Fine /\ fate = "up"
  BY DEF Give, Turn, Holder, Running
<1>1. Good(m, p)
  BY <1>0, FromInventory
<1>2. PICK n \in savegame(m, p) : Becomes(n, {})
  BY DEF Give
<1>3. due' \in playing \cup {Nil}
  BY <1>0 DEF Give
<1> HIDE DEF m
<1>4. /\ Sound(m, playing, {}) /\ m.file = mem.file /\ m.loose = mem.loose
      /\ mem.freed \subseteq m.freed
  BY <1>1 DEF Good, Near
<1>5. ASSUME NEW q \in playing \ {p} PROVE has(mem, q) \subseteq has(m, q) \cup m.freed
  <2>1. q \in Player \ {p}
    BY <1>0 DEF TypeOK
  <2>2. /\ mem.inv[q] \subseteq m.inv[q] /\ m.ready[q] = mem.ready[q]
        /\ \A b \in Box : mem.inside[b] \subseteq m.inside[b] \cup m.freed
    BY <1>1, <2>1 DEF Good, Spares
  <2> QED BY <2>1, <2>2, HasKept
<1>6. Sound(n, playing, {})
  BY <1>0, <1>4, SaveSound
<1>7. \A q \in playing : Kept(n.file[q]) \subseteq has(n, q) \cup n.loose[q] \cup n.freed
  BY <1>0, <1>4, <1>5, SaveFollows
<1> QED BY <1>0, <1>2, <1>3, <1>6, <1>7, SafeStep

\* give's second save.
LEMMA GiveSavedInv == ASSUME Running, GiveSaved PROVE IInv'
<1>0. /\ due \in playing /\ UNCHANGED <<playing, fate>> /\ due' = Nil
      /\ TypeOK /\ Fine /\ fate = "up" /\ Sound(mem, playing, {})
  BY DEF Running, GiveSaved, Fine
<1>1. PICK n \in savegame(mem, due) : Becomes(n, {})
  BY DEF GiveSaved
<1>2. Sound(n, playing, {})
  BY <1>0, SaveSound
<1>3. \A q \in playing : Kept(n.file[q]) \subseteq has(n, q) \cup n.loose[q] \cup n.freed
  BY <1>0, SaveFollows
<1> QED BY <1>0, <1>1, <1>2, <1>3, SafeStep

\* savegame.
LEMMA SaveGameInv == ASSUME Running, NEW p \in Player, SaveGame(p) PROVE IInv'
<1>1. p \in playing /\ Saved(mem, p)
  BY DEF SaveGame, Turn
<1>2. Good(mem, p)
  BY DEF Good, Near, Spares, Running, Fine
<1> QED BY <1>1, <1>2, SavedGood

\* What comes from nowhere, from the floor, or goes there with a room.
LEMMA WorldInv ==
    ASSUME Running,
           \/ \E p \in Player, o \in Thing : Buy(p, o)
           \/ \E o \in Thing : Scavenge(o) \/ Appear(o)
           \/ \E S \in SUBSET mem.floor : RoomFreed(S)
    PROVE  IInv'
<1>0. /\ Sound(mem, playing, {}) /\ mem \in Memory /\ TypeOK /\ fate = "up" /\ Fine
  BY DEF Running, Fine, Sound
<1>1. ASSUME NEW m, NEW S, Sound(m, playing, S), Near(mem, m)
      PROVE  /\ \A g \in playing \cup {Mon} : Unsaved(add_obj_crt(m, S, g)) => IInv'
             /\ Unsaved(add_obj_rom(m, S)) => IInv'
             /\ Unsaved(free_obj(m, S)) => IInv'
  <2>1. m \in Memory
    BY <1>1 DEF Sound
  <2>2. ASSUME NEW n, Near(m, n), Sound(n, playing, {}), Unsaved(n) PROVE IInv'
    <3>1. Near(mem, n)
      BY <1>1, <2>2 DEF Near
    <3> QED BY <1>0, <2>2, <3>1, UnsavedNear
  <2>3. /\ \A g \in playing \cup {Mon} : Sound(add_obj_crt(m, S, g), playing, {})
        /\ Sound(add_obj_rom(m, S), playing, {}) /\ Sound(free_obj(m, S), playing, {})
    BY <1>1, Lays
  <2>4. /\ \A g : Near(m, add_obj_crt(m, S, g))
        /\ Near(m, add_obj_rom(m, S)) /\ Near(m, free_obj(m, S))
    BY <2>1, NearMoves
  <2> QED BY <2>2, <2>3, <2>4
<1>2. ASSUME NEW S, S \subseteq mem.fresh
      PROVE  Sound(load_obj(mem, S), playing, S) /\ Near(mem, load_obj(mem, S))
  BY <1>0, <1>2, Takes, NearMoves
<1>3. ASSUME NEW S, S \subseteq mem.floor
      PROVE  Sound(del_obj_rom(mem, S), playing, S) /\ Near(mem, del_obj_rom(mem, S))
  BY <1>0, <1>3, Takes, NearMoves
<1>4. ASSUME NEW p \in Player, NEW o \in Thing, Buy(p, o) PROVE IInv'
  <2>1. /\ p \in playing /\ {o} \subseteq mem.fresh
        /\ Unsaved(add_obj_crt(load_obj(mem, {o}), {o}, p))
    BY <1>4 DEF Buy, Turn
  <2> QED BY <1>1, <1>2, <2>1
<1>5. ASSUME NEW o \in Thing, Scavenge(o) PROVE IInv'
  <2>1. /\ {o} \subseteq mem.floor
        /\ Unsaved(add_obj_crt(del_obj_rom(mem, {o}), {o}, Mon))
    BY <1>5 DEF Scavenge
  <2> QED BY <1>1, <1>3, <2>1
<1>6. ASSUME NEW o \in Thing, Appear(o) PROVE IInv'
  <2>1. /\ {o} \subseteq mem.fresh
        /\ \/ Unsaved(add_obj_rom(load_obj(mem, {o}), {o}))
           \/ Unsaved(add_obj_crt(load_obj(mem, {o}), {o}, Mon))
    BY <1>6 DEF Appear
  <2> QED BY <1>1, <1>2, <2>1
<1>7. ASSUME NEW S \in SUBSET mem.floor, RoomFreed(S) PROVE IInv'
  BY <1>1, <1>3, <1>7 DEF RoomFreed
<1> QED BY <1>4, <1>5, <1>6, <1>7

\* trade.
LEMMA TradeInv ==
    ASSUME Running, NEW p \in Player, NEW o \in Thing, Trade(p, o) PROVE IInv'
<1> DEFINE m == add_obj_crt(Uncarry(mem, {o}, p), {o}, Mon)
<1>0. p \in playing /\ p \in Holder /\ {o} \subseteq mem.inv[p] /\ mem \in Memory
  BY DEF Trade, Turn, Holder, Running, TypeOK
<1>1. Good(m, p)
  BY <1>0, FromInventory
<1>2. \/ Unsaved(m)
      \/ \E q \in mem.fresh : Unsaved(add_obj_crt(load_obj(m, {q}), {q}, p))
  BY DEF Trade
<1>3. m.fresh = mem.fresh
  BY <1>0 DEF add_obj_crt, Uncarry, Memory
<1> HIDE DEF m
<1>4. ASSUME NEW q \in mem.fresh, Unsaved(add_obj_crt(load_obj(m, {q}), {q}, p))
      PROVE  IInv'
  <2> DEFINE r == load_obj(m, {q})
             n == add_obj_crt(r, {q}, p)
  <2>1. Sound(m, playing, {}) /\ {q} \subseteq m.fresh /\ m \in Memory /\ Near(mem, m)
    BY <1>1, <1>3 DEF Good, Sound
  <2>2. Sound(r, playing, {q}) /\ Near(m, r)
    BY <2>1, Takes, NearMoves
  <2>3. Unsaved(n)
    BY <1>4
  <2> HIDE DEF r
  <2>4. Sound(n, playing, {}) /\ Near(r, n)
    BY <1>0, <2>2, Lays, NearMoves DEF Sound
  <2> HIDE DEF n
  <2>5. Near(mem, n)
    BY <2>1, <2>2, <2>4 DEF Near
  <2> QED BY <2>3, <2>4, <2>5, UnsavedNear DEF Running
<1> QED BY <1>1, <1>2, <1>4, UnsavedGood

\* A monster's things, when it dies.
LEMMA MonDiesInv ==
    ASSUME Running, NEW k \in Kinds, NEW trader \in BOOLEAN, MonDies(k, trader)
    PROVE  IInv'
<1> DEFINE S == mem.inv[Mon]
           m == Uncarry(mem, S, Mon)
<1>1. Good(add_obj_rom(m, S), Mon) /\ Good(Forget(m, S), Mon)
  BY FromInventory DEF Holder
<1>2. Unsaved(IF trader THEN Forget(m, S) ELSE Spilt(m, S, k))
  BY DEF MonDies
<1> HIDE DEF m, S
<1>3. Good(IF trader THEN Forget(m, S) ELSE Spilt(m, S, k), Mon)
  BY <1>1 DEF Spilt
<1> QED BY <1>2, <1>3, UnsavedGood

\* lose_all.
LEMMA LoseAllInv ==
    ASSUME Running, NEW p \in Player, NEW T \in SUBSET Thing, lose_all(p, T)
    PROVE  IInv'
<1> DEFINE I == mem.inv[p]
           m == Uncarry(mem, I, p)
           r == Unready(m, p, T)
           S == T \cup I
<1>0. p \in playing /\ p \in Holder /\ T \subseteq worn(mem, p) /\ mem \in Memory
  BY DEF lose_all, Turn, Holder, Running, TypeOK
<1>1. Sound(m, playing, I) /\ Near(mem, m)
  BY <1>0, FromInventory
<1>2. m.ready = mem.ready
  BY <1>0 DEF Uncarry, Memory
<1>3. Unsaved(free_obj(r, S))
  BY DEF lose_all
<1>4. I \cup T = S
  OBVIOUS
<1> HIDE DEF m, I, S
<1>5. T \in SUBSET worn(m, p) /\ m \in Memory
  BY <1>0, <1>1, <1>2 DEF worn, Sound
<1>6. Sound(r, playing, I \cup T) /\ Near(m, r)
  BY <1>1, <1>5, UnreadySound, NearMoves
<1> HIDE DEF r
<1>7. Sound(r, playing, S) /\ r \in Memory
  BY <1>4, <1>6 DEF Sound
<1> DEFINE n == free_obj(r, S)
<1>8. Sound(n, playing, {}) /\ Near(r, n)
  BY <1>7, Lays, NearMoves
<1> HIDE DEF n
<1>9. Near(mem, n)
  BY <1>1, <1>6, <1>8 DEF Near
<1> QED BY <1>3, <1>8, <1>9, UnsavedNear DEF Running, n

\* What is dropped and what is kept by a player who dies.
LEMMA SlainGood ==
    ASSUME Running, NEW p \in playing, NEW T, T \subseteq worn(mem, p), NEW byPlayer
    PROVE  Good(Slain(mem, p, T, byPlayer), p)
<1> DEFINE F == IF byPlayer THEN T ELSE T \cap {mem.ready[p]["wield"]}
           m == Unready(mem, p, T)
           r == add_obj_rom(m, F)
           n == add_obj_crt(r, T \ F, p)
<1>0. p \in Player /\ F \in SUBSET T
  BY DEF Running, TypeOK
<1>1. Slain(mem, p, T, byPlayer) = n
  BY DEF Slain
<1>2. Sound(m, playing, T) /\ Near(mem, m) /\ Spares(mem, m, Player \ {p})
  BY <1>0, FromBody
<1> HIDE DEF m, F
<1>3. m \in Memory
  BY <1>2 DEF Sound
<1>4. Sound(r, playing, T \ F) /\ Near(m, r) /\ Spares(m, r, Player)
  BY <1>0, <1>2, <1>3, FloorSound, NearMoves, SparingMoves
<1> HIDE DEF r
<1>5. r \in Memory
  BY <1>4 DEF Sound
<1>6. Sound(n, playing, {}) /\ Near(r, n) /\ Spares(r, n, Player)
  BY <1>4, <1>5, Lays, NearMoves, SparingMoves
<1> HIDE DEF n
<1>7. Near(mem, n) /\ Spares(mem, n, Player \ {p})
  BY <1>2, <1>4, <1>6 DEF Near, Spares
<1> QED BY <1>1, <1>6, <1>7 DEF Good

\* The death of a player.
LEMMA DieInv ==
    ASSUME Running, NEW p \in Player, NEW T \in SUBSET Thing, NEW byPlayer \in BOOLEAN,
           Die(p, T, byPlayer)
    PROVE  IInv'
<1>1. p \in playing /\ T \subseteq worn(mem, p) /\ Saved(Slain(mem, p, T, byPlayer), p)
  BY DEF Die, Turn
<1> QED BY <1>1, SlainGood, SavedGood

\* del_obj_crt and free_obj keep memory what it is, also when the thing is not
\* where they look for it.
LEMMA MovesType ==
    ASSUME NEW m \in Memory, NEW p \in Player
    PROVE  /\ \A o \in Thing : del_obj_crt(m, o, p) \in Memory
           /\ \A S \in SUBSET Thing : /\ free_obj(m, S) \in Memory
                                      /\ add_obj_rom(m, S) \in Memory
                                      /\ add_obj_crt(m, S, p) \in Memory
                                      /\ Unready(m, p, S) \in Memory
<1>1. ASSUME NEW o \in Thing PROVE del_obj_crt(m, o, p) \in Memory
  <2>1. CASE o \in m.carried
    BY <2>1 DEF del_obj_crt, Memory, Holder
  <2>2. CASE o \notin m.carried
    <3> DEFINE r == [m.ready EXCEPT ![p][wearflag[o]] = Nil]
    <3>1. del_obj_crt(m, o, p) = [m EXCEPT !.ready = r]
      BY <2>2 DEF del_obj_crt, Memory
    <3>2. r \in [Player -> [Slot -> Thing \cup {Nil}]]
      BY DEF Memory
    <3> HIDE DEF r
    <3> QED BY <3>1, <3>2 DEF Memory
  <2> QED BY <2>1, <2>2
<1>2. ASSUME NEW S \in SUBSET Thing PROVE free_obj(m, S) \in Memory
  <2> DEFINE in == [b \in Box |-> IF b \in S THEN {} ELSE m.inside[b]]
             sh == [b \in Box |-> IF b \in S THEN 0 ELSE m.shots[b]]
  <2>1. /\ free_obj(m, S) = [m EXCEPT !.freed = m.freed \cup S \cup Contents(m, S),
                                      !.inside = in, !.shots = sh]
        /\ in \in [Box -> SUBSET Thing] /\ sh \in [Box -> Nat]
        /\ Contents(m, S) \in SUBSET Thing
    BY DEF free_obj, Memory, Contents
  <2> HIDE DEF in, sh
  <2> QED BY <2>1 DEF Memory
<1>3. ASSUME NEW S \in SUBSET Thing
      PROVE  add_obj_rom(m, S) \in Memory /\ add_obj_crt(m, S, p) \in Memory
  BY DEF add_obj_rom, add_obj_crt, Memory, Holder
<1>4. ASSUME NEW S \in SUBSET Thing PROVE Unready(m, p, S) \in Memory
  <2> DEFINE r == [s \in Slot |-> IF m.ready[p][s] \in S THEN Nil ELSE m.ready[p][s]]
  <2>1. Unready(m, p, S) = [m EXCEPT !.ready[p] = r]
    BY DEF Unready, Memory
  <2>2. r \in [Slot -> Thing \cup {Nil}]
    BY DEF Memory
  <2> HIDE DEF r
  <2>3. [m.ready EXCEPT ![p] = r] \in [Player -> [Slot -> Thing \cup {Nil}]]
    BY <2>2 DEF Memory
  <2>4. [m EXCEPT !.ready[p] = r] = [m EXCEPT !.ready = [m.ready EXCEPT ![p] = r]]
    BY DEF Memory
  <2> DEFINE R == [m.ready EXCEPT ![p] = r]
  <2> HIDE DEF R
  <2>5. [m EXCEPT !.ready = R] \in Memory
    BY <2>3 DEF Memory, R
  <2> QED BY <2>1, <2>4, <2>5 DEF R
<1> QED BY <1>1, <1>2, <1>3, <1>4

\* del_obj_crt finds what is not misfiled, and takes it where it is.
LEMMA DelSound ==
    ASSUME Running, NEW p \in playing, NEW o \in Found(p), ~Misfiled(p, o)
    PROVE  Sound(del_obj_crt(mem, o, p), playing, {o}) /\ Near(mem, del_obj_crt(mem, o, p))
<1>0. /\ Sound(mem, playing, {}) /\ mem \in Memory /\ p \in Player /\ p \in Holder
      /\ o \in Thing /\ o # Nil
  BY ThingsAssumption DEF Running, Fine, Sound, TypeOK, Found, Holder
<1>1. PICK k, w, s : Placed(mem, playing, {}, k, w, s)
  BY <1>0 DEF Sound
<1>2. PlacedAt(mem, playing, {}, k, w, s, o)
  BY <1>0, <1>1 DEF Placed
<1>3. CASE o \in mem.carried
  <2>1. {o} \subseteq mem.inv[p]
    BY <1>0, <1>2, <1>3 DEF PlacedAt, Found, worn
  <2>2. del_obj_crt(mem, o, p) = Uncarry(mem, {o}, p)
    BY <1>3 DEF del_obj_crt, Uncarry
  <2> QED BY <1>0, <2>1, <2>2, FromInventory
<1>4. CASE o \notin mem.carried
  <2>1. /\ mem.ready[p][wearflag[o]] = o /\ wearflag[o] \in Slot
        /\ \A i \in Slot : mem.ready[p][i] = o => i = wearflag[o]
    BY <1>0, <1>2, <1>4 DEF PlacedAt, Misfiled, Found, worn
  <2>2. {o} \subseteq worn(mem, p)
    BY <1>0, <2>1 DEF worn
  <2> DEFINE f == [mem.ready[p] EXCEPT ![wearflag[o]] = Nil]
             g == [i \in Slot |-> IF mem.ready[p][i] \in {o} THEN Nil ELSE mem.ready[p][i]]
  <2>3. f = g
    <3>1. mem.ready[p] \in [Slot -> Thing \cup {Nil}]
      BY <1>0 DEF Memory
    <3>2. \A i \in Slot : f[i] = g[i]
      BY <2>1, <3>1
    <3>3. f = [i \in Slot |-> f[i]] /\ g = [i \in Slot |-> g[i]]
      BY <3>1
    <3> QED BY <3>2, <3>3
  <2>4. /\ del_obj_crt(mem, o, p) = [mem EXCEPT !.ready[p] = f]
        /\ Unready(mem, p, {o}) = [mem EXCEPT !.ready[p] = g]
    BY <1>0, <1>4 DEF del_obj_crt, Unready, Memory
  <2>5. del_obj_crt(mem, o, p) = Unready(mem, p, {o})
    BY <2>3, <2>4
  <2> QED BY <1>0, <2>2, <2>5, FromBody
<1> QED BY <1>3, <1>4

\* study, readscroll, drink and zap.
LEMMA ScrollInv ==
    ASSUME Running, NEW p \in Player, NEW o \in Thing, Burn(p, o) \/ Use(p, o)
    PROVE  IInv'
<1> DEFINE m == del_obj_crt(mem, o, p)
<1>0. /\ p \in playing /\ o \in Found(p) /\ mem \in Memory /\ {o} \in SUBSET Thing
      /\ TypeOK /\ fate = "up" /\ Fine
  BY DEF Burn, Use, Turn, Running, TypeOK
<1>1. m \in Memory
  BY <1>0, MovesType
<1>2. ~Misfiled(p, o) => Sound(m, playing, {o}) /\ Near(mem, m)
  BY <1>0, DelSound
<1>3. Ends(p, o, add_obj_rom(m, {o})) \/ Ends(p, o, free_obj(m, {o}))
  BY DEF Burn, Use
<1> HIDE DEF m
<1>4. ASSUME NEW n, Ends(p, o, n), Near(m, n), n \in Memory,
             Sound(m, playing, {o}) => Sound(n, playing, {})
      PROVE  IInv'
  <2>1. CASE Misfiled(p, o)
    <3>1. Corrupt(n)
      BY <1>4, <2>1 DEF Ends
    <3> QED BY <1>0, <1>4, <3>1, CorruptStep
  <2>2. CASE ~Misfiled(p, o)
    <3>1. Unsaved(n)
      BY <1>4, <2>2 DEF Ends
    <3>2. Near(mem, n)
      BY <1>2, <1>4, <2>2 DEF Near
    <3> QED BY <1>0, <1>2, <1>4, <2>2, <3>1, <3>2, UnsavedNear
  <2> QED BY <2>1, <2>2
<1>5. /\ add_obj_rom(m, {o}) \in Memory /\ Near(m, add_obj_rom(m, {o}))
      /\ free_obj(m, {o}) \in Memory /\ Near(m, free_obj(m, {o}))
  BY <1>0, <1>1, MovesType, NearMoves
<1>6. Sound(m, playing, {o}) => /\ Sound(add_obj_rom(m, {o}), playing, {})
                                /\ Sound(free_obj(m, {o}), playing, {})
  BY Lays
<1> QED BY <1>3, <1>4, <1>5, <1>6

\* The scroll of a reader who dies of it.
LEMMA ReflectedDeathInv ==
    ASSUME Running, NEW p \in Player, NEW o \in Thing, NEW T \in SUBSET worn(mem, p),
           ReflectedDeath(p, o, T)
    PROVE  IInv'
<1>1. p \in playing /\ {o} \in SUBSET Thing
  BY DEF ReflectedDeath, Turn
<1>2. PICK m \in savegame(Slain(mem, p, T, TRUE), p) :
        Corrupt(free_obj(del_obj_crt(m, o, p), {o}))
  BY DEF ReflectedDeath
<1>3. Sound(Slain(mem, p, T, TRUE), playing, {})
  BY <1>1, SlainGood DEF Good
<1>4. Sound(m, playing, {})
  BY <1>1, <1>3, SaveSound
<1>5. del_obj_crt(m, o, p) \in Memory
  BY <1>4, MovesType DEF Sound
<1>6. free_obj(del_obj_crt(m, o, p), {o}) \in Memory
  BY <1>1, <1>5, MovesType
<1> QED BY <1>2, <1>6, CorruptStep DEF Running

\* snatch: it either takes the only thing in hand or frees the other one.
LEMMA SnatchInv ==
    ASSUME Running, NEW p \in Player, NEW q \in Player,
           SnatchNothing(p, q) \/ \E o \in Thing : Snatch(p, q, o)
    PROVE  IInv'
<1>0. /\ p \in playing /\ q \in playing /\ mem \in Memory
      /\ Sound(mem, playing, {}) /\ TypeOK /\ fate = "up" /\ Fine
  BY DEF SnatchNothing, Snatch, Turn, Running, TypeOK, Fine
<1>1. {mem.ready[q]["wield"], mem.ready[q]["held"]} \ {Nil} \subseteq worn(mem, q)
  BY ThingsAssumption DEF worn
<1>2. worn(mem, q) \in SUBSET Thing
  BY <1>0 DEF worn, Memory
<1>3. CASE SnatchNothing(p, q)
  <2> DEFINE both == {mem.ready[q]["wield"], mem.ready[q]["held"]} \ {Nil}
  <2>1. Corrupt(free_obj(mem, both)) /\ both \in SUBSET Thing
    BY <1>1, <1>2, <1>3 DEF SnatchNothing
  <2> HIDE DEF both
  <2>2. free_obj(mem, both) \in Memory
    BY <1>0, <2>1, MovesType
  <2> QED BY <1>0, <2>1, <2>2, CorruptStep
<1>4. ASSUME NEW o \in Thing, Snatch(p, q, o) PROVE IInv'
  <2> DEFINE other == {mem.ready[q]["wield"]} \ {o, Nil}
             m == free_obj(mem, other)
             r == Unready(m, q, {o})
             n == add_obj_crt(r, {o}, p)
  <2>1. /\ {o} \subseteq worn(mem, q) /\ other \in SUBSET Thing /\ {o} \in SUBSET Thing
        /\ \/ other = {} /\ Unsaved(n)
           \/ Corrupt(m) \/ Corrupt(n)
    <3>1. o \in {mem.ready[q]["wield"], mem.ready[q]["held"]} \ {Nil}
      BY <1>4 DEF Snatch
    <3>2. \/ other = {} /\ Unsaved(n)
          \/ Corrupt(m) \/ Corrupt(n)
      BY <1>4 DEF Snatch
    <3>3. other \subseteq {mem.ready[q]["wield"], mem.ready[q]["held"]} \ {Nil}
      OBVIOUS
    <3> QED BY <1>1, <1>2, <3>1, <3>2, <3>3
  <2>2. m.ready = mem.ready
    BY <1>0 DEF free_obj, Memory
  <2> HIDE DEF other
  <2>3. m \in Memory /\ Near(mem, m)
    BY <1>0, <2>1, MovesType, NearMoves
  <2>4. other = {} => Sound(m, playing, {})
    BY <1>0, Lays
  <2>5. {o} \subseteq worn(m, q)
    BY <2>1, <2>2 DEF worn
  <2> HIDE DEF m
  <2>6. r \in Memory /\ Near(m, r) /\ (other = {} => Sound(r, playing, {o}))
    BY <2>1, <2>3, <2>4, <2>5, MovesType, NearMoves, Takes
  <2> HIDE DEF r
  <2>7. n \in Memory /\ Near(r, n) /\ (other = {} => Sound(n, playing, {}))
    BY <1>0, <2>1, <2>6, MovesType, NearMoves, Lays
  <2> HIDE DEF n
  <2>8. Near(mem, n)
    BY <2>3, <2>6, <2>7 DEF Near
  <2> QED BY <1>0, <2>1, <2>3, <2>7, <2>8, UnsavedNear, CorruptStep
<1> QED BY <1>3, <1>4

-----------------------------------------------------------------------------
(* Sessions.                                                               *)

\* What memory is after Login: the end of Login's definition.
Entered(m, p, Q, W) ==
    LET f == m.file[p]
        mine(b) == b \in f.inv
        in == [m EXCEPT
                 !.inside = [b \in Box |->
                                IF mine(b) THEN f.inside[b] \ Q ELSE @[b]],
                 !.shots = [b \in Box |->
                                IF mine(b) THEN Cardinality(f.inside[b] \ Q) ELSE @[b]]]
        clean == free_obj(add_obj_crt(in, f.inv \ Q, p), Q)
    IN [Uncarry(clean, W, p) EXCEPT !.ready[p] =
              [s \in Slot |-> IF \E o \in W : wearflag[o] = s
                              THEN CHOOSE o \in W : wearflag[o] = s ELSE Nil]]

\* List by list.
EntersAs(m, p, Q, W, n) ==
    /\ n \in Memory
    /\ n.file = m.file /\ n.loose = m.loose /\ n.floor = m.floor
    /\ n.fresh = m.fresh /\ n.lost = m.lost
    /\ n.freed = m.freed \cup Q
    /\ \A b \in Box : n.inside[b] = IF b \in m.file[p].inv THEN m.file[p].inside[b] \ Q
                                    ELSE m.inside[b]
    /\ \A b \in Box : n.shots[b] = IF b \in m.file[p].inv
                                   THEN Cardinality(m.file[p].inside[b] \ Q)
                                   ELSE m.shots[b]
    /\ \A h \in Holder : n.inv[h] = IF h = p THEN (m.inv[p] \cup (m.file[p].inv \ Q)) \ W
                                    ELSE m.inv[h]
    /\ n.carried = (m.carried \cup (m.file[p].inv \ Q)) \ W
    /\ \A q \in Player, s \in Slot :
         n.ready[q][s] = IF q = p THEN IF \E o \in W : wearflag[o] = s
                                       THEN CHOOSE o \in W : wearflag[o] = s
                                       ELSE Nil
                         ELSE m.ready[q][s]

\* The calls of init_ply amount to that.
LEMMA EnteredLists ==
    ASSUME NEW m \in Memory, NEW p \in Player,
           NEW Q \in SUBSET (Thing \ Box), NEW W \in SUBSET Thing
    PROVE  EntersAs(m, p, Q, W, Entered(m, p, Q, W))
<1> DEFINE f == m.file[p]
           n == Entered(m, p, Q, W)
           I == [b \in Box |-> IF b \in f.inv THEN f.inside[b] \ Q ELSE m.inside[b]]
           C == [b \in Box |-> IF b \in f.inv THEN Cardinality(f.inside[b] \ Q)
                               ELSE m.shots[b]]
           r == [s \in Slot |-> IF \E o \in W : wearflag[o] = s
                                THEN CHOOSE o \in W : wearflag[o] = s ELSE Nil]
           R == [m.ready EXCEPT ![p] = r]
           a == [m EXCEPT !.inside = I, !.shots = C]
           G == f.inv \ Q
           c == add_obj_crt(a, G, p)
           e == free_obj(c, Q)
           u == Uncarry(e, W, p)
<1>1. f \in Files /\ G \in SUBSET Thing /\ p \in Holder
  BY HasType DEF Files, Holder
<1>2. I \in [Box -> SUBSET Thing]
  BY <1>1 DEF Files, Memory
<1>3. C \in [Box -> Nat]
  <2> SUFFICES ASSUME NEW b \in Box
               PROVE  (IF b \in f.inv THEN Cardinality(f.inside[b] \ Q) ELSE m.shots[b]) \in Nat
    OBVIOUS
  <2>1. f.inside[b] \ Q \in SUBSET Thing /\ m.shots[b] \in Nat
    BY <1>1 DEF Files, Memory
  <2> QED BY <2>1, FiniteThings
<1>4. r \in [Slot -> Thing \cup {Nil}]
  OBVIOUS
<1>5. /\ \A b \in Box : I[b] = IF b \in f.inv THEN f.inside[b] \ Q ELSE m.inside[b]
      /\ \A b \in Box : C[b] = IF b \in f.inv THEN Cardinality(f.inside[b] \ Q)
                               ELSE m.shots[b]
      /\ \A s \in Slot : r[s] = IF \E o \in W : wearflag[o] = s
                                THEN CHOOSE o \in W : wearflag[o] = s ELSE Nil
  OBVIOUS
<1>6. n = [u EXCEPT !.ready[p] = r]
  BY DEF Entered, Memory
<1> HIDE DEF I, C, r, n, f, u
<1>7. /\ a \in Memory /\ a.inside = I /\ a.shots = C
      /\ a.inv = m.inv /\ a.ready = m.ready /\ a.floor = m.floor
      /\ a.carried = m.carried /\ a.fresh = m.fresh /\ a.freed = m.freed
      /\ a.lost = m.lost /\ a.file = m.file /\ a.loose = m.loose
  BY <1>2, <1>3 DEF Memory
<1> HIDE DEF a, G
<1>8. /\ c \in Memory /\ c.inside = I /\ c.shots = C
      /\ c.inv = [m.inv EXCEPT ![p] = @ \cup G]
      /\ c.carried = m.carried \cup G
      /\ c.ready = m.ready /\ c.floor = m.floor
      /\ c.fresh = m.fresh /\ c.freed = m.freed
      /\ c.lost = m.lost /\ c.file = m.file /\ c.loose = m.loose
  BY <1>1, <1>7 DEF Memory, add_obj_crt
<1> HIDE DEF c
<1>9. e = [c EXCEPT !.freed = c.freed \cup Q]
  <2>1. Contents(c, Q) = {} /\ c.freed \cup Q \cup {} = c.freed \cup Q
    BY DEF Contents
  <2>2. [b \in Box |-> IF b \in Q THEN {} ELSE c.inside[b]] = c.inside
    BY <1>8 DEF Memory
  <2>3. [b \in Box |-> IF b \in Q THEN 0 ELSE c.shots[b]] = c.shots
    BY <1>8 DEF Memory
  <2>4. e = [c EXCEPT !.freed = c.freed \cup Q \cup Contents(c, Q),
                      !.inside = [b \in Box |-> IF b \in Q THEN {} ELSE c.inside[b]],
                      !.shots = [b \in Box |-> IF b \in Q THEN 0 ELSE c.shots[b]]]
    BY <1>8 DEF free_obj, Memory
  <2>5. e = [c EXCEPT !.freed = c.freed \cup Q, !.inside = c.inside, !.shots = c.shots]
    BY <2>1, <2>2, <2>3, <2>4
  <2> QED BY <1>8, <2>5 DEF Memory
<1> HIDE DEF e
<1>10. /\ e \in Memory /\ e.inside = I /\ e.shots = C
       /\ e.inv = [m.inv EXCEPT ![p] = @ \cup G]
       /\ e.carried = m.carried \cup G
       /\ e.ready = m.ready /\ e.floor = m.floor
       /\ e.fresh = m.fresh /\ e.freed = m.freed \cup Q
       /\ e.lost = m.lost /\ e.file = m.file /\ e.loose = m.loose
  BY <1>8, <1>9 DEF Memory
<1>11. /\ u \in Memory /\ u.inside = I /\ u.shots = C
       /\ u.inv = [e.inv EXCEPT ![p] = @ \ W]
       /\ u.carried = (m.carried \cup G) \ W
       /\ u.ready = m.ready /\ u.floor = m.floor
       /\ u.fresh = m.fresh /\ u.freed = m.freed \cup Q
       /\ u.lost = m.lost /\ u.file = m.file /\ u.loose = m.loose
  BY <1>1, <1>10 DEF Memory, Uncarry, u
<1>12. R \in [Player -> [Slot -> Thing \cup {Nil}]]
  BY <1>4 DEF Memory
<1>13. [u EXCEPT !.ready[p] = r] = [u EXCEPT !.ready = R]
  BY <1>11 DEF Memory
<1>14. \A q \in Player : R[q] = IF q = p THEN r ELSE m.ready[q]
  BY DEF Memory
<1> HIDE DEF R
<1>15. /\ n \in Memory /\ n.inside = I /\ n.shots = C
       /\ n.inv = u.inv
       /\ n.carried = (m.carried \cup G) \ W
       /\ n.ready = R /\ n.floor = m.floor
       /\ n.fresh = m.fresh /\ n.freed = m.freed \cup Q
       /\ n.lost = m.lost /\ n.file = m.file /\ n.loose = m.loose
  BY <1>6, <1>11, <1>12, <1>13 DEF Memory
<1>16. \A h \in Holder : n.inv[h] = IF h = p THEN (m.inv[p] \cup G) \ W ELSE m.inv[h]
  <2>1. \A h \in Holder : e.inv[h] = IF h = p THEN m.inv[p] \cup G ELSE m.inv[h]
    BY <1>1, <1>10 DEF Memory
  <2>2. e.inv \in [Holder -> SUBSET Thing]
    BY <1>10 DEF Memory
  <2>3. \A h \in Holder : u.inv[h] = IF h = p THEN e.inv[p] \ W ELSE e.inv[h]
    BY <1>1, <1>11, <2>2
  <2> QED BY <1>1, <1>15, <2>1, <2>3
<1> QED BY <1>5, <1>14, <1>15, <1>16 DEF EntersAs, n, f, G

\* What comes out of the file is where Login puts it.
LEMMA EnteredSound ==
    ASSUME Running, NEW p \in Player \ playing,
           NEW Q \in SUBSET (Scroll \cap Kept(mem.file[p])),
           NEW W \in SUBSET (mem.file[p].inv \ Q),
           \A o \in W : /\ wearflag[o] # Nil
                        /\ \A q \in W : wearflag[q] = wearflag[o] => q = o
    PROVE  /\ Sound(Entered(mem, p, Q, W), playing \cup {p}, {})
           /\ Kept(mem.file[p]) \subseteq
                has(Entered(mem, p, Q, W), p) \cup Entered(mem, p, Q, W).freed
           /\ \A q \in playing :
                has(mem, q) \subseteq has(Entered(mem, p, Q, W), q)
<1> DEFINE f == mem.file[p]
           n == Entered(mem, p, Q, W)
           P == playing \cup {p}
<1>1. /\ mem \in Memory /\ Sound(mem, playing, {}) /\ playing \subseteq Player
      /\ p \in Player /\ p \notin playing /\ p # Mon /\ p \in Holder
  BY ThingsAssumption DEF Running, Fine, TypeOK, Holder
<1>2. f \in Files /\ FileSound(f) /\ Kept(f) \in SUBSET Thing
  BY <1>1, HasType DEF Sound
<1>3. /\ Q \in SUBSET (Thing \ Box) /\ W \in SUBSET Thing /\ W \subseteq f.inv
      /\ W \cap Q = {} /\ Q \subseteq Kept(f) /\ f.inv \subseteq Kept(f)
      /\ f.inv \in SUBSET Thing
  BY <1>2, ThingsAssumption DEF Files, Kept
<1>4. /\ n \in Memory
      /\ n.file = mem.file /\ n.loose = mem.loose /\ n.floor = mem.floor
      /\ n.fresh = mem.fresh /\ n.lost = mem.lost
      /\ n.freed = mem.freed \cup Q
      /\ \A b \in Box : n.inside[b] = IF b \in f.inv THEN f.inside[b] \ Q
                                      ELSE mem.inside[b]
      /\ \A b \in Box : n.shots[b] = IF b \in f.inv THEN Cardinality(f.inside[b] \ Q)
                                     ELSE mem.shots[b]
      /\ \A h \in Holder : n.inv[h] = IF h = p THEN (mem.inv[p] \cup (f.inv \ Q)) \ W
                                      ELSE mem.inv[h]
      /\ n.carried = (mem.carried \cup (f.inv \ Q)) \ W
      /\ \A q \in Player, s \in Slot :
           n.ready[q][s] = IF q = p THEN IF \E o \in W : wearflag[o] = s
                                         THEN CHOOSE o \in W : wearflag[o] = s
                                         ELSE Nil
                           ELSE mem.ready[q][s]
  <2>1. EntersAs(mem, p, Q, W, n)
    BY <1>1, <1>3, EnteredLists
  <2> HIDE DEF n
  <2> QED BY <2>1 DEF EntersAs
<1> HIDE DEF n
<1>5. PICK k, w, s : Placed(mem, playing, {}, k, w, s)
  BY <1>1 DEF Sound
<1>6. \A o \in Thing : o \in Kept(f) <=> k[o] = "file" /\ w[o] = p
  BY <1>1, <1>5 DEF Placed, PlacedAt
\* The player has nothing in memory yet.
<1>7. \A o \in Thing : k[o] \in {"inv", "ready"} => w[o] # p
  BY <1>1, <1>5 DEF Placed, PlacedAt
<1>8. mem.inv[p] = {}
  BY <1>1, <1>5, <1>7 DEF Placed, PlacedAt, Memory
<1>9. \A b \in Box : b \in f.inv => mem.inside[b] = {}
  <2> SUFFICES ASSUME NEW b \in Box, b \in f.inv, NEW o \in mem.inside[b] PROVE FALSE
    OBVIOUS
  <2>1. o \in Thing /\ b \in Thing
    BY <1>1, <1>3 DEF Memory
  <2>2. k[b] = "file"
    BY <1>3, <1>6, <2>1
  <2> QED BY <1>5, <2>1, <2>2 DEF Placed, PlacedAt
<1> DEFINE In(b, o) == b \in f.inv /\ o \in f.inside[b]
           l == [o \in Thing |-> IF o \in Q THEN "dead"
                                 ELSE IF o \in W THEN "ready"
                                 ELSE IF o \in f.inv THEN "inv"
                                 ELSE IF o \in Kept(f) THEN "inside" ELSE k[o]]
           v == [o \in Thing |-> IF o \in f.inv THEN p
                                 ELSE IF o \in Kept(f) THEN CHOOSE b \in Box : In(b, o)
                                 ELSE w[o]]
           z == [o \in Thing |-> IF o \in W THEN wearflag[o] ELSE s[o]]
<1>10. \A o \in Thing : l[o] = IF o \in Q THEN "dead"
                               ELSE IF o \in W THEN "ready"
                               ELSE IF o \in f.inv THEN "inv"
                               ELSE IF o \in Kept(f) THEN "inside" ELSE k[o]
  OBVIOUS
<1>11. \A o \in Thing : v[o] = IF o \in f.inv THEN p
                               ELSE IF o \in Kept(f) THEN CHOOSE b \in Box : In(b, o)
                               ELSE w[o]
  OBVIOUS
<1>12. \A o \in Thing : z[o] = IF o \in W THEN wearflag[o] ELSE s[o]
  OBVIOUS
<1> HIDE DEF l, v, z
\* Whatever is kept and not carried is in one container that is carried.
<1>13. ASSUME NEW o \in Thing, o \in Kept(f), o \notin f.inv
       PROVE  /\ v[o] \in Box /\ v[o] \in f.inv /\ o \in f.inside[v[o]] /\ o \notin Box
              /\ \A b \in Box : b \in f.inv /\ o \in f.inside[b] => b = v[o]
  <2>1. \E b \in Box : In(b, o)
    BY <1>13 DEF Kept
  <2>2. v[o] = CHOOSE b \in Box : In(b, o)
    BY <1>11, <1>13
  <2>3. v[o] \in Box /\ In(v[o], o)
    BY <2>1, <2>2
  <2> QED BY <1>2, <2>3 DEF FileSound
<1>14. \A b \in Box : \A o \in f.inside[b] :
          o \in Thing /\ o \notin f.inv /\ (b \in f.inv => o \in Kept(f))
  BY <1>2, <1>3 DEF FileSound, Kept, Files
<1>15. \A o \in W : wearflag[o] \in Slot /\ o = CHOOSE q \in W : wearflag[q] = wearflag[o]
  BY <1>3, ThingsAssumption
<1>16. \A o \in Thing, i \in Slot :
          n.ready[p][i] = o <=> o \in W /\ wearflag[o] = i
  <2> SUFFICES ASSUME NEW o \in Thing, NEW i \in Slot
               PROVE  n.ready[p][i] = o <=> o \in W /\ wearflag[o] = i
    OBVIOUS
  <2>1. CASE \E q \in W : wearflag[q] = i
    <3>1. PICK q \in W : wearflag[q] = i
      BY <2>1
    <3>2. n.ready[p][i] = q
      BY <1>1, <1>4, <1>15, <3>1
    <3> QED BY <3>1, <3>2
  <2>2. CASE ~ \E q \in W : wearflag[q] = i
    <3>1. n.ready[p][i] = Nil
      BY <1>1, <1>4, <2>2
    <3> QED BY <2>2, <3>1, ThingsAssumption
  <2> QED BY <2>1, <2>2
<1> HIDE DEF f, In
<1>17. Placed(n, P, {}, l, v, z)
  <2> SUFFICES ASSUME NEW o \in Thing PROVE PlacedAt(n, P, {}, l, v, z, o)
    BY DEF Placed
  <2>0. PlacedAt(mem, playing, {}, k, w, s, o) /\ o # Nil
    BY <1>5, ThingsAssumption DEF Placed
  <2>1. \A q \in Player, i \in Slot :
          n.ready[q][i] = o <=> (q = p /\ o \in W /\ wearflag[o] = i)
                                  \/ (q # p /\ mem.ready[q][i] = o)
    BY <1>1, <1>4, <1>16
  <2>2. \A h \in Holder : o \in n.inv[h] <=> \/ h = p /\ o \in f.inv /\ o \notin Q /\ o \notin W
                                             \/ h # p /\ o \in mem.inv[h]
    BY <1>1, <1>4, <1>8
  <2>3. \A b \in Box : o \in n.inside[b] <=>
             \/ b \in f.inv /\ o \in f.inside[b] /\ o \notin Q
             \/ b \notin f.inv /\ o \in mem.inside[b]
    BY <1>4, ZenonT(40)
  <2>4. \A q \in Player \ P : n.file[q] = mem.file[q] /\ q \in Player \ playing /\ q # p
    BY <1>4
  <2>5. /\ o \in n.carried <=> (o \in mem.carried \/ (o \in f.inv /\ o \notin Q)) /\ o \notin W
        /\ o \in n.freed \cup n.lost <=> o \in mem.freed \cup mem.lost \/ o \in Q
    BY <1>4
  <2>6. CASE o \in Q
    <3>1. k[o] = "file" /\ w[o] = p /\ l[o] = "dead" /\ o \notin W /\ o \notin mem.floor
      BY <1>3, <1>6, <1>10, <2>0, <2>6 DEF PlacedAt
    <3>2. \A b \in Box : o \notin n.inside[b]
      BY <2>0, <2>3, <2>6, <3>1 DEF PlacedAt
    <3> QED BY <1>4, <2>0, <2>1, <2>2, <2>4, <2>5, <2>6, <3>1, <3>2 DEF PlacedAt, KindsOfPlace
  <2>7. CASE o \in W
    <3>1. /\ k[o] = "file" /\ w[o] = p /\ l[o] = "ready" /\ v[o] = p /\ z[o] = wearflag[o]
          /\ o \in f.inv /\ o \notin Q /\ wearflag[o] \in Slot
      BY <1>3, <1>6, <1>10, <1>11, <1>12, <1>15, <2>7
    <3>2. \A b \in Box : o \notin n.inside[b]
      BY <1>14, <2>0, <2>3, <3>1 DEF PlacedAt
    <3>3. \A h \in Holder : o \notin n.inv[h]
      BY <2>0, <2>2, <2>7, <3>1 DEF PlacedAt
    <3>4. \A q \in Player, i \in Slot : n.ready[q][i] = o <=> q = p /\ i = z[o]
      BY <2>0, <2>1, <2>7, <3>1 DEF PlacedAt
    <3>5. o \notin n.carried /\ o \notin n.freed \cup n.lost
      BY <2>0, <2>5, <2>7, <3>1 DEF PlacedAt
    <3> QED BY <1>4, <2>0, <2>4, <3>1, <3>2, <3>3, <3>4, <3>5 DEF PlacedAt, KindsOfPlace
  <2>8. CASE o \in f.inv /\ o \notin Q /\ o \notin W
    <3>1. /\ k[o] = "file" /\ w[o] = p /\ l[o] = "inv" /\ v[o] = p
      BY <1>3, <1>6, <1>10, <1>11, <2>8
    <3>2. \A b \in Box : o \notin n.inside[b]
      BY <1>14, <2>0, <2>3, <2>8, <3>1 DEF PlacedAt
    <3>3. \A h \in Holder : o \in n.inv[h] <=> h = p
      BY <2>0, <2>2, <2>8, <3>1 DEF PlacedAt
    <3>4. \A q \in Player, i \in Slot : n.ready[q][i] # o
      BY <2>0, <2>1, <2>8, <3>1 DEF PlacedAt
    <3> QED BY <1>4, <2>0, <2>4, <2>5, <2>8, <3>1, <3>2, <3>3, <3>4 DEF PlacedAt, KindsOfPlace
  <2>9. CASE o \in Kept(f) /\ o \notin f.inv /\ o \notin Q
    <3>1. /\ k[o] = "file" /\ w[o] = p /\ l[o] = "inside" /\ o \notin W
          /\ v[o] \in Box /\ v[o] \in f.inv /\ o \in f.inside[v[o]] /\ o \notin Box
          /\ \A b \in Box : b \in f.inv /\ o \in f.inside[b] => b = v[o]
      BY <1>3, <1>6, <1>10, <1>13, <2>9
    <3>2. \A b \in Box : o \in n.inside[b] <=> b = v[o]
      BY <2>0, <2>3, <2>9, <3>1 DEF PlacedAt
    <3>3. \A h \in Holder : o \notin n.inv[h]
      BY <2>0, <2>2, <2>9, <3>1 DEF PlacedAt
    <3>4. \A q \in Player, i \in Slot : n.ready[q][i] # o
      BY <2>0, <2>1, <3>1 DEF PlacedAt
    <3>5. l[v[o]] # "file"
      BY <1>3, <1>10, <3>1
    <3> QED BY <1>4, <2>0, <2>4, <2>5, <2>9, <3>1, <3>2, <3>3, <3>4, <3>5 DEF PlacedAt, KindsOfPlace
  <2>10. CASE o \notin Kept(f)
    <3>1. /\ l[o] = k[o] /\ v[o] = w[o] /\ z[o] = s[o] /\ ~(k[o] = "file" /\ w[o] = p)
          /\ o \notin f.inv /\ o \notin Q /\ o \notin W
      BY <1>3, <1>6, <1>10, <1>11, <1>12, <2>10
    <3>2. \A b \in Box : o \in n.inside[b] <=> o \in mem.inside[b]
      BY <1>9, <1>14, <2>3, <2>10
    <3>3. \A h \in Holder : o \in n.inv[h] <=> o \in mem.inv[h]
      BY <1>8, <2>2, <3>1
    <3>4. \A q \in Player, i \in Slot : n.ready[q][i] = o <=> mem.ready[q][i] = o
      BY <1>7, <2>0, <2>1, <3>1 DEF PlacedAt
    <3>5. k[o] = "inside" => l[w[o]] # "file"
      BY <1>10, <2>0, ThingsAssumption DEF PlacedAt
    <3> QED BY <1>4, <2>0, <2>4, <2>5, <3>1, <3>2, <3>3, <3>4, <3>5 DEF PlacedAt, KindsOfPlace
  <2> QED BY <1>3, <2>6, <2>7, <2>8, <2>9, <2>10
<1>18. \E x, y, t : Placed(n, P, {}, x, y, t)
  BY <1>17
<1>19. Counted(n) /\ \A q \in Player : FileSound(n.file[q])
  BY <1>1, <1>4 DEF Sound, Counted
<1>20. Sound(n, P, {})
  BY <1>1, <1>4, <1>18, <1>19 DEF Sound
<1>21. Kept(f) \subseteq has(n, p) \cup n.freed
  <2> SUFFICES ASSUME NEW o \in Kept(f), o \notin Q PROVE o \in has(n, p)
    BY <1>4
  <2>1. \A q \in f.inv : q \notin Q => q \in n.inv[p] \cup worn(n, p)
    <3> SUFFICES ASSUME NEW q \in f.inv, q \notin Q, q \notin W PROVE q \in n.inv[p]
      BY <1>3, <1>15, <1>16, ThingsAssumption DEF worn
    <3> QED BY <1>1, <1>4
  <2>2. CASE o \in f.inv
    BY <2>1, <2>2 DEF has
  <2>3. CASE o \notin f.inv
    <3>1. PICK b \in Box : b \in f.inv /\ o \in f.inside[b]
      BY <2>3 DEF Kept
    <3>2. b \in n.inv[p] \cup worn(n, p) /\ o \in n.inside[b]
      BY <1>3, <1>4, <2>1, <3>1
    <3> QED BY <3>2 DEF has, Contents
  <2> QED BY <2>2, <2>3
<1>22. ASSUME NEW q \in playing PROVE has(mem, q) \subseteq has(n, q)
  <2>1. q \in Holder /\ q # p /\ q \in Player
    BY <1>1 DEF Holder
  <2>2. n.inv[q] = mem.inv[q] /\ worn(n, q) = worn(mem, q)
    BY <1>4, <2>1 DEF worn
  <2>3. \A b \in Box : mem.inside[b] \subseteq n.inside[b]
    BY <1>4, <1>9
  <2> QED BY <2>2, <2>3 DEF has, Contents
<1> QED BY <1>20, <1>21, <1>22 DEF n, f

\* A player enters.
LEMMA LoginInv ==
    ASSUME Running, NEW p \in Player, NEW Q \in SUBSET Scroll, NEW W \in SUBSET Thing,
           Login(p, Q, W)
    PROVE  IInv'
<1> DEFINE n == Entered(mem, p, Q, W)
<1>1. /\ Becomes(n, {}) /\ playing' = playing \cup {p} /\ UNCHANGED <<due, fate>>
      /\ p \in Player \ playing /\ due = Nil
  BY DEF Login, Else, Entered
<1>2. /\ Q \subseteq Scroll \cap Kept(mem.file[p]) /\ W \subseteq mem.file[p].inv \ Q
      /\ \A o \in W : /\ wearflag[o] # Nil
                      /\ \A q \in W : wearflag[q] = wearflag[o] => q = o
  BY DEF Login
<1>3. /\ Sound(n, playing \cup {p}, {})
      /\ Kept(mem.file[p]) \subseteq has(n, p) \cup n.freed
      /\ \A q \in playing : has(mem, q) \subseteq has(n, q)
  BY <1>1, <1>2, EnteredSound
<1>4. n.file = mem.file /\ n.loose = mem.loose /\ mem.freed \subseteq n.freed
  <2>1. mem \in Memory /\ Q \in SUBSET (Thing \ Box)
    BY ThingsAssumption DEF Running, TypeOK
  <2>2. EntersAs(mem, p, Q, W, n)
    BY <2>1, EnteredLists
  <2> HIDE DEF n
  <2> QED BY <2>2 DEF EntersAs
<1>5. playing \subseteq Player /\ fate = "up" /\ Follows(mem, playing)
  BY DEF Running, TypeOK, Fine
<1> HIDE DEF n
<1>6. Sound(mem', playing', {}) /\ mem' \in Memory
  BY <1>1, <1>3, BecomesSound DEF Sound
<1>7. ASSUME NEW q \in playing'
      PROVE  Kept(mem'.file[q]) \subseteq has(mem', q) \cup mem'.loose[q] \cup mem'.freed
  <2>1. q \in Player
    BY <1>1, <1>5
  <2>2. Kept(n.file[q]) \subseteq has(n, q) \cup n.loose[q] \cup n.freed
                                   \cup (IF q \in {} THEN has(mem, q) ELSE {})
    <3>1. CASE q = p
      BY <1>3, <1>4, <3>1
    <3>2. CASE q \in playing
      <4>1. Kept(mem.file[q]) \subseteq has(mem, q) \cup mem.loose[q] \cup mem.freed
        BY <1>5, <3>2 DEF Follows
      <4> QED BY <1>3, <1>4, <3>2, <4>1
    <3> QED BY <1>1, <3>1, <3>2
  <2> QED BY <1>1, <1>3, <2>1, <2>2, BecomesSound
<1>8. playing' \subseteq Player /\ due' = Nil /\ fate' \in {"up", "corrupt"}
  BY <1>1, <1>5
<1> QED BY <1>6, <1>7, <1>8 DEF IInv, TypeOK, Fine, Follows

\* What memory is after Quit, when the save made n of it: the end of Quit's
\* definition.
Left(m, n, p) ==
    LET S == m.inv[p] \cup worn(m, p)
        u == Uncarry(Unready(m, p, S), m.inv[p], p)
        gone == S \ n.file[p].inv
    IN [free_obj([u EXCEPT !.file = n.file], gone) EXCEPT
          !.inside = [b \in Box |-> IF b \in S THEN {} ELSE @[b]],
          !.shots = [b \in Box |-> IF b \in S THEN 0 ELSE @[b]]]

\* List by list, for a player whose things are those of S.
LeavesAs(m, n, p, S, x) ==
    /\ x \in Memory
    /\ x.file = n.file /\ x.loose = m.loose /\ x.floor = m.floor
    /\ x.fresh = m.fresh /\ x.lost = m.lost
    /\ x.freed = m.freed \cup (S \ n.file[p].inv) \cup Contents(m, S \ n.file[p].inv)
    /\ \A b \in Box : x.inside[b] = IF b \in S THEN {} ELSE m.inside[b]
    /\ \A b \in Box : x.shots[b] = IF b \in S THEN 0 ELSE m.shots[b]
    /\ \A h \in Holder : x.inv[h] = IF h = p THEN {} ELSE m.inv[h]
    /\ x.carried = m.carried \ m.inv[p]
    /\ \A q \in Player, s \in Slot :
         x.ready[q][s] = IF q = p THEN Nil ELSE m.ready[q][s]

\* The calls of uninit_ply and free_crt amount to that.
LEMMA LeftLists ==
    ASSUME NEW m \in Memory, NEW p \in Player, NEW n \in Memory
    PROVE  LeavesAs(m, n, p, m.inv[p] \cup worn(m, p), Left(m, n, p))
<1> DEFINE S == m.inv[p] \cup worn(m, p)
           gone == S \ n.file[p].inv
           d == Unready(m, p, S)
           u == Uncarry(d, m.inv[p], p)
           v == [u EXCEPT !.file = n.file]
           e == free_obj(v, gone)
           I == [b \in Box |-> IF b \in S THEN {} ELSE e.inside[b]]
           C == [b \in Box |-> IF b \in S THEN 0 ELSE e.shots[b]]
           x == Left(m, n, p)
<1>1. S \in SUBSET Thing /\ gone \in SUBSET Thing /\ p \in Holder /\ gone \subseteq S
      /\ m.inv[p] \in SUBSET Thing /\ worn(m, p) \subseteq S
  BY HasType DEF Holder, Memory
<1>2. x = [e EXCEPT !.inside = I, !.shots = C]
  BY DEF Left
<1> HIDE DEF S, x, e, d
<1>3. /\ d \in Memory /\ d.inv = m.inv /\ d.carried = m.carried
      /\ d.inside = m.inside /\ d.shots = m.shots /\ d.floor = m.floor
      /\ d.fresh = m.fresh /\ d.lost = m.lost /\ d.freed = m.freed /\ d.loose = m.loose
      /\ \A q \in Player, s \in Slot :
           d.ready[q][s] = IF q = p THEN Nil ELSE m.ready[q][s]
  <2>1. d \in Memory
    BY <1>1, MovesType DEF d
  <2>2. /\ d.inv = m.inv /\ d.carried = m.carried
        /\ d.inside = m.inside /\ d.shots = m.shots /\ d.floor = m.floor
        /\ d.fresh = m.fresh /\ d.lost = m.lost /\ d.freed = m.freed /\ d.loose = m.loose
    BY DEF d, Unready, Memory
  <2> DEFINE r == [s \in Slot |-> IF m.ready[p][s] \in S THEN Nil ELSE m.ready[p][s]]
  <2>3. d.ready = [m.ready EXCEPT ![p] = r]
    BY DEF d, Unready, Memory
  <2>4. \A s \in Slot : r[s] = Nil
    BY <1>1 DEF worn
  <2> HIDE DEF r
  <2>5. \A q \in Player : d.ready[q] = IF q = p THEN r ELSE m.ready[q]
    BY <2>3 DEF Memory
  <2> QED BY <2>1, <2>2, <2>4, <2>5
<1>4. /\ u \in Memory /\ u.carried = m.carried \ m.inv[p]
      /\ u.inv = [m.inv EXCEPT ![p] = @ \ m.inv[p]]
      /\ u.inside = m.inside /\ u.shots = m.shots /\ u.floor = m.floor
      /\ u.fresh = m.fresh /\ u.lost = m.lost /\ u.freed = m.freed /\ u.loose = m.loose
      /\ u.ready = d.ready
  BY <1>1, <1>3 DEF Uncarry, Memory
<1> HIDE DEF u
<1>5. /\ v \in Memory /\ v.carried = m.carried \ m.inv[p]
      /\ v.inv = [m.inv EXCEPT ![p] = @ \ m.inv[p]]
      /\ v.inside = m.inside /\ v.shots = m.shots /\ v.floor = m.floor
      /\ v.fresh = m.fresh /\ v.lost = m.lost /\ v.freed = m.freed /\ v.loose = m.loose
      /\ v.ready = d.ready /\ v.file = n.file
  BY <1>4 DEF Memory
<1> HIDE DEF v, gone
<1>6. /\ e \in Memory /\ e.carried = m.carried \ m.inv[p]
      /\ e.inv = [m.inv EXCEPT ![p] = @ \ m.inv[p]]
      /\ e.freed = m.freed \cup gone \cup Contents(m, gone)
      /\ e.floor = m.floor /\ e.fresh = m.fresh /\ e.lost = m.lost /\ e.loose = m.loose
      /\ e.ready = d.ready /\ e.file = n.file
      /\ \A b \in Box : e.inside[b] = IF b \in gone THEN {} ELSE m.inside[b]
      /\ \A b \in Box : e.shots[b] = IF b \in gone THEN 0 ELSE m.shots[b]
  <2>1. e \in Memory
    BY <1>1, <1>5, MovesType DEF e
  <2>2. Contents(v, gone) = Contents(m, gone)
    BY <1>5 DEF Contents
  <2>3. /\ e.carried = v.carried /\ e.inv = v.inv
        /\ e.freed = v.freed \cup gone \cup Contents(v, gone)
        /\ e.floor = v.floor /\ e.fresh = v.fresh /\ e.lost = v.lost /\ e.loose = v.loose
        /\ e.ready = v.ready /\ e.file = v.file
        /\ e.inside = [b \in Box |-> IF b \in gone THEN {} ELSE v.inside[b]]
        /\ e.shots = [b \in Box |-> IF b \in gone THEN 0 ELSE v.shots[b]]
    BY <1>5 DEF e, free_obj, Memory
  <2> QED BY <1>5, <2>1, <2>2, <2>3
<1>7. /\ I \in [Box -> SUBSET Thing] /\ C \in [Box -> Nat]
      /\ \A b \in Box : I[b] = IF b \in S THEN {} ELSE m.inside[b]
      /\ \A b \in Box : C[b] = IF b \in S THEN 0 ELSE m.shots[b]
  <2>1. I \in [Box -> SUBSET Thing] /\ C \in [Box -> Nat]
    BY <1>6 DEF Memory
  <2>2. /\ \A b \in Box : I[b] = IF b \in S THEN {} ELSE e.inside[b]
        /\ \A b \in Box : C[b] = IF b \in S THEN 0 ELSE e.shots[b]
    OBVIOUS
  <2> HIDE DEF I, C
  <2> QED BY <1>1, <1>6, <2>1, <2>2
<1> HIDE DEF I, C
<1>8. /\ x \in Memory /\ x.inside = I /\ x.shots = C
      /\ x.carried = m.carried \ m.inv[p] /\ x.inv = e.inv
      /\ x.freed = m.freed \cup gone \cup Contents(m, gone)
      /\ x.floor = m.floor /\ x.fresh = m.fresh /\ x.lost = m.lost /\ x.loose = m.loose
      /\ x.ready = d.ready /\ x.file = n.file
  BY <1>2, <1>6, <1>7 DEF Memory
<1>9. \A h \in Holder : x.inv[h] = IF h = p THEN {} ELSE m.inv[h]
  <2>1. m.inv[p] \ m.inv[p] = {}
    OBVIOUS
  <2> QED BY <1>1, <1>6, <1>8, <2>1, ZenonT(40) DEF Memory
<1> QED BY <1>3, <1>7, <1>8, <1>9 DEF LeavesAs, x, S, gone

\* What the player had is in his file or freed, and nobody else loses a thing.
LEMMA LeftSound ==
    ASSUME Running, NEW p \in playing, NEW n \in savegame(mem, p)
    PROVE  /\ Sound(Left(mem, n, p), playing \ {p}, {})
           /\ \A q \in playing \ {p} : has(mem, q) \subseteq has(Left(mem, n, p), q)
<1> DEFINE S == mem.inv[p] \cup worn(mem, p)
           x == Left(mem, n, p)
           P == playing \ {p}
<1>1. /\ mem \in Memory /\ Sound(mem, playing, {}) /\ playing \subseteq Player
      /\ p \in Player /\ p # Mon /\ p \in Holder
  BY ThingsAssumption DEF Running, Fine, TypeOK, Holder
<1>2. /\ Sound(n, playing, {}) /\ n \in Memory
      /\ \A q \in Player \ {p} : n.file[q] = mem.file[q]
  <2>1. Sound(n, playing, {}) /\ \A q \in Player \ {p} : n.file[q] = mem.file[q]
    BY <1>1, SaveSound
  <2> QED BY <2>1 DEF Sound
<1>3. LeavesAs(mem, n, p, S, x)
  BY <1>1, <1>2, LeftLists
<1>4. PICK T \in SUBSET S : n = Written(mem, p, T)
  BY DEF savegame, AtMost
<1>5. n.file[p].inv = T /\ Kept(n.file[p]) = T \cup Contents(mem, T)
  <2> DEFINE in == [b \in Box |-> IF b \in T THEN mem.inside[b] ELSE {}]
             f == [inv |-> T, inside |-> in]
  <2>1. n.file[p] = f
    BY <1>1, <1>4 DEF Written, Memory
  <2>2. \A b \in Box : in[b] = IF b \in T THEN mem.inside[b] ELSE {}
    OBVIOUS
  <2> HIDE DEF in
  <2>3. f.inv = T /\ f.inside = in
    OBVIOUS
  <2> HIDE DEF f
  <2> QED BY <2>1, <2>2, <2>3 DEF Kept, Contents
<1> HIDE DEF x, S
<1>6. PICK k, w, s : Placed(mem, playing, {}, k, w, s)
  BY <1>1 DEF Sound
<1> DEFINE gone == S \ T
           D == gone \cup Contents(mem, gone)
           K == T \cup Contents(mem, T)
<1>7. /\ x \in Memory
      /\ x.file = n.file /\ x.loose = mem.loose /\ x.floor = mem.floor
      /\ x.fresh = mem.fresh /\ x.lost = mem.lost
      /\ x.freed = mem.freed \cup D
      /\ \A b \in Box : x.inside[b] = IF b \in S THEN {} ELSE mem.inside[b]
      /\ \A b \in Box : x.shots[b] = IF b \in S THEN 0 ELSE mem.shots[b]
      /\ \A h \in Holder : x.inv[h] = IF h = p THEN {} ELSE mem.inv[h]
      /\ x.carried = mem.carried \ mem.inv[p]
      /\ \A q \in Player, i \in Slot :
           x.ready[q][i] = IF q = p THEN Nil ELSE mem.ready[q][i]
  BY <1>3, <1>5 DEF LeavesAs
<1>8. \A o \in Thing : o \in S <=> k[o] \in {"inv", "ready"} /\ w[o] = p
  <2> SUFFICES ASSUME NEW o \in Thing
               PROVE  o \in S <=> k[o] \in {"inv", "ready"} /\ w[o] = p
    OBVIOUS
  <2>1. PlacedAt(mem, playing, {}, k, w, s, o) /\ o # Nil
    BY <1>6, ThingsAssumption DEF Placed
  <2>2. o \in mem.inv[p] <=> k[o] = "inv" /\ w[o] = p
    BY <1>1, <2>1 DEF PlacedAt
  <2>3. o \in worn(mem, p) <=> k[o] = "ready" /\ w[o] = p
    BY <1>1, <2>1 DEF PlacedAt, worn
  <2> QED BY <2>2, <2>3 DEF S
<1>9. \A o \in Thing : \A R \in SUBSET S :
        o \in Contents(mem, R) <=> k[o] = "inside" /\ w[o] \in Box /\ w[o] \in R
  BY <1>6 DEF Placed, PlacedAt, Contents
<1> DEFINE l == [o \in Thing |-> IF o \in D THEN "dead" ELSE IF o \in K THEN "file" ELSE k[o]]
           v == [o \in Thing |-> IF o \in K THEN p ELSE w[o]]
<1>10. /\ \A o \in Thing : l[o] = IF o \in D THEN "dead" ELSE IF o \in K THEN "file" ELSE k[o]
       /\ \A o \in Thing : v[o] = IF o \in K THEN p ELSE w[o]
  OBVIOUS
<1> HIDE DEF l, v
<1>11. \A o \in Thing :
         /\ o \in D <=> \/ k[o] \in {"inv", "ready"} /\ w[o] = p /\ o \notin T
                        \/ k[o] = "inside" /\ w[o] \in S /\ w[o] \notin T
         /\ o \in K <=> \/ k[o] \in {"inv", "ready"} /\ w[o] = p /\ o \in T
                        \/ k[o] = "inside" /\ w[o] \in T
         /\ o \in T => o \in S
         /\ k[o] = "inside" => w[o] \in Box
  <2> SUFFICES ASSUME NEW o \in Thing
               PROVE  /\ o \in D <=> \/ k[o] \in {"inv", "ready"} /\ w[o] = p /\ o \notin T
                                     \/ k[o] = "inside" /\ w[o] \in S /\ w[o] \notin T
                      /\ o \in K <=> \/ k[o] \in {"inv", "ready"} /\ w[o] = p /\ o \in T
                                     \/ k[o] = "inside" /\ w[o] \in T
                      /\ o \in T => o \in S
                      /\ k[o] = "inside" => w[o] \in Box
    OBVIOUS
  <2>1. k[o] = "inside" => w[o] \in Box
    BY <1>6 DEF Placed, PlacedAt
  <2>2. o \in Contents(mem, gone) <=> k[o] = "inside" /\ w[o] \in Box /\ w[o] \in gone
    BY <1>9
  <2>3. o \in Contents(mem, T) <=> k[o] = "inside" /\ w[o] \in Box /\ w[o] \in T
    BY <1>9
  <2> QED BY <1>8, <2>1, <2>2, <2>3
<1> HIDE DEF D, K, gone
<1>12. Placed(x, P, {}, l, v, s)
  <2> SUFFICES ASSUME NEW o \in Thing PROVE PlacedAt(x, P, {}, l, v, s, o)
    BY DEF Placed
  <2>0. PlacedAt(mem, playing, {}, k, w, s, o) /\ o # Nil
    BY <1>6, ThingsAssumption DEF Placed
  <2>1. /\ o \in x.carried <=> o \in mem.carried /\ o \notin mem.inv[p]
        /\ o \in x.freed \cup x.lost <=> o \in mem.freed \cup mem.lost \/ o \in D
        /\ \A h \in Holder : o \in x.inv[h] <=> h # p /\ o \in mem.inv[h]
        /\ \A q \in Player, i \in Slot : x.ready[q][i] = o <=> q # p /\ mem.ready[q][i] = o
        /\ \A b \in Box : o \in x.inside[b] <=> b \notin S /\ o \in mem.inside[b]
        /\ o \in x.floor <=> o \in mem.floor
        /\ o \in x.fresh <=> o \in mem.fresh
    BY <1>7, <2>0
  <2>2. \A q \in Player \ P : /\ q = p => (o \in Kept(x.file[q]) <=> o \in K)
                              /\ q # p => q \in Player \ playing /\ x.file[q] = mem.file[q]
    BY <1>2, <1>5, <1>7 DEF K
  <2>3. CASE o \in D
    <3>1. l[o] = "dead" /\ o \notin K /\ k[o] \in {"inv", "ready", "inside"}
      BY <1>10, <1>11, <2>3
    <3>2. \A b \in Box : o \notin x.inside[b]
      BY <1>11, <2>0, <2>1, <2>3 DEF PlacedAt
    <3>3. /\ \A h \in Holder : o \notin x.inv[h]
          /\ \A q \in Player, i \in Slot : x.ready[q][i] # o
          /\ o \notin x.carried
      BY <1>1, <1>11, <2>0, <2>1, <2>3 DEF PlacedAt
    <3>4. \A q \in Player \ P : o \notin Kept(x.file[q])
      BY <2>0, <2>2, <3>1 DEF PlacedAt
    <3> QED BY <2>0, <2>1, <2>3, <3>1, <3>2, <3>3, <3>4 DEF PlacedAt, KindsOfPlace
  <2>4. CASE o \in K
    <3>1. l[o] = "file" /\ o \notin D /\ v[o] = p /\ k[o] \in {"inv", "ready", "inside"}
      BY <1>10, <1>11, <2>4
    <3>2. \A b \in Box : o \notin x.inside[b]
      BY <1>11, <2>0, <2>1, <2>4 DEF PlacedAt
    <3>3. /\ \A h \in Holder : o \notin x.inv[h]
          /\ \A q \in Player, i \in Slot : x.ready[q][i] # o
          /\ o \notin x.carried
      BY <1>1, <1>11, <2>0, <2>1, <2>4 DEF PlacedAt
    <3>4. \A q \in Player \ P : o \in Kept(x.file[q]) <=> q = p
      BY <2>0, <2>2, <2>4, <3>1 DEF PlacedAt
    <3>5. p \in Player \ P
      BY <1>1
    <3> QED BY <2>0, <2>1, <3>1, <3>2, <3>3, <3>4, <3>5 DEF PlacedAt, KindsOfPlace
  <2>5. CASE o \notin D /\ o \notin K
    <3>1. l[o] = k[o] /\ v[o] = w[o]
      BY <1>10, <2>5
    <3>2. k[o] \in {"inv", "ready"} => w[o] # p
      BY <1>11, <2>5
    <3>3. k[o] = "inside" => w[o] \notin S /\ w[o] \in Thing
      BY <1>4, <1>11, <2>5, ThingsAssumption
    <3>4. k[o] = "inside" => l[w[o]] # "file"
      <4> SUFFICES ASSUME k[o] = "inside" PROVE l[w[o]] # "file"
        OBVIOUS
      <4>1. w[o] \in Box /\ w[o] \notin S /\ w[o] \in Thing /\ k[w[o]] # "file"
        BY <1>11, <2>0, <3>3 DEF PlacedAt
      <4>2. k[w[o]] # "inside"
        BY <1>6, <4>1 DEF Placed, PlacedAt
      <4>3. w[o] \notin K
        BY <1>8, <1>11, <4>1, <4>2
      <4> QED BY <1>10, <4>1, <4>3
    <3>5. /\ \A h \in Holder : o \in x.inv[h] <=> k[o] = "inv" /\ w[o] = h
          /\ \A q \in Player, i \in Slot : x.ready[q][i] = o <=> mem.ready[q][i] = o
          /\ \A b \in Box : o \in x.inside[b] <=> k[o] = "inside" /\ w[o] = b
          /\ o \in x.carried <=> k[o] = "inv"
      BY <1>1, <2>0, <2>1, <3>2, <3>3 DEF PlacedAt
    <3>6. \A q \in Player \ P : o \in Kept(x.file[q]) <=> k[o] = "file" /\ w[o] = q
      BY <1>1, <2>0, <2>2, <2>5 DEF PlacedAt
    <3>7. /\ k[o] = "inv" => w[o] \in P \cup {Mon}
          /\ k[o] = "ready" => w[o] \in P
          /\ k[o] = "file" => w[o] \in Player \ P
      BY <2>0, <3>2 DEF PlacedAt
    <3> QED BY <2>0, <2>1, <2>5, <3>1, <3>4, <3>5, <3>6, <3>7 DEF PlacedAt, KindsOfPlace
  <2> QED BY <2>3, <2>4, <2>5
<1>13. \E a, b, c : Placed(x, P, {}, a, b, c)
  BY <1>12
<1>14. Counted(x) /\ \A q \in Player : FileSound(x.file[q])
  BY <1>1, <1>2, <1>7, FS_EmptySet DEF Sound, Counted
<1>15. Sound(x, P, {})
  BY <1>1, <1>7, <1>13, <1>14 DEF Sound
<1>16. ASSUME NEW q \in P PROVE has(mem, q) \subseteq has(x, q)
  <2>1. q \in Holder /\ q # p /\ q \in Player
    BY <1>1 DEF Holder
  <2> DEFINE R == mem.inv[q] \cup worn(mem, q)
  <2>2. x.inv[q] \cup worn(x, q) = R
    BY <1>7, <2>1 DEF worn
  <2>3. R \in SUBSET Thing
    BY <1>1, <2>1, HasType
  <2>4. \A b \in R : w[b] = q
    BY <1>6, <2>1, <2>3 DEF Placed, PlacedAt, worn
  <2>5. \A b \in R \cap Box : b \notin S
    BY <1>8, <2>1, <2>3, <2>4
  <2>6. \A b \in R \cap Box : x.inside[b] = mem.inside[b]
    BY <1>7, <2>5
  <2> HIDE DEF R
  <2>7. Contents(mem, R) = Contents(x, R)
    BY <2>6 DEF Contents
  <2> QED BY <2>2, <2>7 DEF has, R
<1> QED BY <1>15, <1>16 DEF x

\* A player leaves.
LEMMA QuitInv ==
    ASSUME Running, NEW p \in Player, NEW asked, Quit(p, asked) PROVE IInv'
<1>1. PICK n \in savegame(mem, p) : Becomes(Left(mem, n, p), {})
  BY DEF Quit, Left
<1> DEFINE x == Left(mem, n, p)
<1>2. /\ playing' = playing \ {p} /\ UNCHANGED <<due, fate>>
      /\ p \in playing /\ due = Nil /\ fate = "up"
  BY DEF Quit, Turn
<1>3. /\ Sound(x, playing', {})
      /\ \A q \in playing' : has(mem, q) \subseteq has(x, q)
  BY <1>1, <1>2, LeftSound
<1>4. /\ x.file = n.file /\ x.loose = mem.loose /\ mem.freed \subseteq x.freed
      /\ \A q \in Player \ {p} : n.file[q] = mem.file[q]
  <2>1. mem \in Memory /\ Sound(mem, playing, {})
    BY DEF Running, TypeOK, Fine
  <2>4. Sound(n, playing, {}) /\ \A q \in Player \ {p} : n.file[q] = mem.file[q]
    BY <1>1, <1>2, <2>1, SaveSound
  <2>2. n \in Memory /\ \A q \in Player \ {p} : n.file[q] = mem.file[q]
    BY <2>4 DEF Sound
  <2>3. LeavesAs(mem, n, p, mem.inv[p] \cup worn(mem, p), x)
    BY <2>1, <2>2, LeftLists
  <2> HIDE DEF x
  <2> QED BY <2>2, <2>3 DEF LeavesAs
<1>5. playing \subseteq Player /\ Follows(mem, playing)
  BY DEF Running, TypeOK, Fine
<1>6. Becomes(x, {})
  BY <1>1
<1> HIDE DEF x
<1>7. Sound(mem', playing', {}) /\ mem' \in Memory
  BY <1>3, <1>6, BecomesSound DEF Sound
<1>8. ASSUME NEW q \in playing'
      PROVE  Kept(mem'.file[q]) \subseteq has(mem', q) \cup mem'.loose[q] \cup mem'.freed
  <2>1. q \in Player /\ q # p /\ q \in playing
    BY <1>2, <1>5
  <2>2. Kept(x.file[q]) \subseteq has(x, q) \cup x.loose[q] \cup x.freed
                                   \cup (IF q \in {} THEN has(mem, q) ELSE {})
    <3>1. Kept(mem.file[q]) \subseteq has(mem, q) \cup mem.loose[q] \cup mem.freed
      BY <1>5, <2>1 DEF Follows
    <3> QED BY <1>3, <1>4, <2>1, <3>1
  <2> QED BY <1>3, <1>6, <2>1, <2>2, BecomesSound
<1>9. playing' \subseteq Player /\ due' = Nil /\ fate' = "up"
  BY <1>2, <1>5
<1> QED BY <1>7, <1>8, <1>9 DEF IInv, TypeOK, Fine, Follows

-----------------------------------------------------------------------------
(* The invariant is one, and what follows.                                 *)

\* At the start what is in the world lies on the floor.
LEMMA InitIInv == Init => IInv
<1> SUFFICES ASSUME Init PROVE IInv
  OBVIOUS
<1> DEFINE none == [b \in Box |-> {}]
           f == [inv |-> {}, inside |-> none]
           I == [h \in Holder |-> {}]
           R == [p \in Player |-> [s \in Slot |-> Nil]]
           Z == [b \in Box |-> 0]
           F == [p \in Player |-> f]
           L == [p \in Player |-> {}]
<1>1. PICK S \in SUBSET Thing :
        mem = [inv |-> I, ready |-> R, floor |-> S, inside |-> none, shots |-> Z,
               carried |-> {}, fresh |-> Thing \ S, freed |-> {}, lost |-> {},
               file |-> F, loose |-> L]
  BY DEF Init
<1>2. /\ none \in [Box -> SUBSET Thing] /\ \A b \in Box : none[b] = {}
      /\ I \in [Holder -> SUBSET Thing] /\ \A h \in Holder : I[h] = {}
      /\ R \in [Player -> [Slot -> Thing \cup {Nil}]]
      /\ \A p \in Player, s \in Slot : R[p][s] = Nil
      /\ Z \in [Box -> Nat] /\ \A b \in Box : Z[b] = 0
      /\ L \in [Player -> SUBSET Thing]
  OBVIOUS
<1> HIDE DEF none, I, R, Z, L
<1>3. f \in Files /\ f.inv = {} /\ f.inside = none
  BY <1>2 DEF Files
<1> HIDE DEF f
<1>4. F \in [Player -> Files] /\ \A p \in Player : F[p] = f
  BY <1>3
<1> HIDE DEF F
<1>5. /\ mem \in Memory
      /\ mem.inv = I /\ mem.ready = R /\ mem.floor = S /\ mem.inside = none
      /\ mem.shots = Z /\ mem.carried = {} /\ mem.fresh = Thing \ S
      /\ mem.freed = {} /\ mem.lost = {} /\ mem.file = F
  BY <1>1, <1>2, <1>4 DEF Memory
<1>6. playing = {} /\ due = Nil /\ fate = "up"
  BY DEF Init
<1>7. FileSound(f) /\ Kept(f) = {}
  BY <1>2, <1>3 DEF FileSound, Kept
<1> DEFINE k == [o \in Thing |-> IF o \in S THEN "floor" ELSE "fresh"]
           w == [o \in Thing |-> Nil]
<1>8. \A o \in Thing : k[o] = IF o \in S THEN "floor" ELSE "fresh"
  OBVIOUS
<1> HIDE DEF k, w
<1>9. Placed(mem, playing, {}, k, w, w)
  <2> SUFFICES ASSUME NEW o \in Thing PROVE PlacedAt(mem, playing, {}, k, w, w, o)
    BY DEF Placed
  <2>1. o # Nil
    BY ThingsAssumption
  <2> QED BY <1>2, <1>4, <1>5, <1>6, <1>7, <1>8, <2>1 DEF PlacedAt, KindsOfPlace
<1>10. \E a, b, c : Placed(mem, playing, {}, a, b, c)
  BY <1>9
<1>11. Counted(mem)
  BY <1>2, <1>5, FS_EmptySet DEF Counted
<1>12. Sound(mem, playing, {})
  BY <1>4, <1>5, <1>6, <1>7, <1>10, <1>11 DEF Sound
<1> QED BY <1>5, <1>6, <1>12 DEF IInv, TypeOK, Fine, Follows

\* No handler runs once a list holds what was freed.
LEMMA NextNeedsUp == Next => fate = "up"
<1> SUFFICES ASSUME Next PROVE fate = "up"
  OBVIOUS
<1> USE DEF Turn, Else
<1>1. ASSUME NEW p \in Player, NEW o \in Thing,
             \/ Get(p, o) \/ Discard(p, o) \/ Wear(p, o) \/ Hold(p, o) \/ Remove(p, o)
             \/ Buy(p, o) \/ Trade(p, o) \/ Spend(p, o) \/ Burn(p, o) \/ Use(p, o) \/ Shatter(p, o)
      PROVE  fate = "up"
  BY <1>1 DEF Get, Discard, Wear, Hold, Remove, Buy, Trade, Spend, Burn, Use, Shatter
<1>2. ASSUME NEW p \in Player, NEW o \in Thing,
             \/ \E k \in Kinds : Drop(p, o, k) \/ DropFull(p, o, k) \/ Stumble(p, o, k)
             \/ \E b \in Box : GetFrom(p, b, o) \/ Put(p, o, b) \/ Store(p, o, b)
             \/ \E h \in Holder : Give(p, h, o) \/ Steal(p, h, o)
             \/ \E q \in Player : Transport(p, q, o) \/ Snatch(p, q, o)
             \/ \E T \in SUBSET worn(mem, p) : ReflectedDeath(p, o, T)
      PROVE  fate = "up"
  BY <1>2 DEF Drop, DropFull, Stumble, GetFrom, Put, Store, Give, Steal, Transport,
              Snatch, ReflectedDeath
<1>3. ASSUME NEW p \in Player, NEW S \in SUBSET Thing,
             \/ get_all_rom(p, S) \/ WearAll(p, S) \/ RemoveAll(p, S) \/ lose_all(p, S)
             \/ \E b \in Box : get_all_obj(p, b, S) \/ drop_all_obj(p, S, b)
             \/ \E k \in Kinds : drop_all_rom(p, S, k)
             \/ \E byPlayer \in BOOLEAN : Die(p, S, byPlayer)
             \/ \E Q \in SUBSET Scroll : Login(p, Q, S)
      PROVE  fate = "up"
  BY <1>3 DEF get_all_rom, WearAll, RemoveAll, lose_all, get_all_obj, drop_all_obj,
              drop_all_rom, Die, Login
<1>4. ASSUME \/ \E p \in Player : \/ PickPocket(p) \/ SaveGame(p)
                                  \/ \E asked \in BOOLEAN : Quit(p, asked)
             \/ \E p \in Player, q \in Player : SnatchNothing(p, q)
             \/ \E p \in Player, k \in Kinds : Flee(p, k)
             \/ GiveSaved
             \/ \E o \in Thing : Scavenge(o) \/ Appear(o)
             \/ \E k \in Kinds, trader \in BOOLEAN : MonDies(k, trader)
             \/ \E S \in SUBSET mem.floor : RoomFreed(S)
      PROVE  fate = "up"
  BY <1>4 DEF PickPocket, SaveGame, Quit, SnatchNothing, Flee, GiveSaved, Scavenge,
              Appear, MonDies, RoomFreed
<1> QED BY <1>1, <1>2, <1>3, <1>4 DEF Next

\* Every handler keeps the invariant.
LEMMA NextIInv == IInv /\ [Next]_vars => IInv'
<1> SUFFICES ASSUME IInv, [Next]_vars PROVE IInv'
  OBVIOUS
<1>1. CASE UNCHANGED vars
  BY <1>1 DEF IInv, TypeOK, Fine, Follows, vars
<1>2. CASE Next
  <2>1. Running
    BY <1>2, NextNeedsUp DEF IInv, Running
  <2>2. ASSUME NEW p \in Player, NEW o \in Thing,
               \/ Get(p, o) \/ Discard(p, o) \/ Wear(p, o) \/ Hold(p, o) \/ Remove(p, o)
               \/ Buy(p, o) \/ Trade(p, o) \/ Spend(p, o) \/ Burn(p, o) \/ Use(p, o) \/ Shatter(p, o)
        PROVE  IInv'
    BY <2>1, <2>2, GetInv, InventoryInv, WearInv, BodyInv, WorldInv, TradeInv, ScrollInv
  <2>3. ASSUME NEW p \in Player, NEW o \in Thing,
               \/ \E k \in Kinds : Drop(p, o, k) \/ DropFull(p, o, k) \/ Stumble(p, o, k)
               \/ \E b \in Box : GetFrom(p, b, o) \/ Put(p, o, b) \/ Store(p, o, b)
        PROVE  IInv'
    <3>1. ASSUME NEW b \in Box, GetFrom(p, b, o) PROVE IInv'
      <4>1. \E c \in Box, q \in Thing : GetFrom(p, c, q) /\ {o} = {q}
        BY <3>1
      <4> QED BY <2>1, <4>1, GetMoreInv
    <3> QED BY <2>1, <2>3, <3>1, InventoryInv
  <2>4. ASSUME NEW p \in Player, NEW o \in Thing,
               \/ \E h \in Holder : Give(p, h, o) \/ Steal(p, h, o)
               \/ \E q \in Player : Transport(p, q, o) \/ Snatch(p, q, o)
               \/ \E T \in SUBSET worn(mem, p) : ReflectedDeath(p, o, T)
        PROVE  IInv'
    BY <2>1, <2>4, GiveInv, InventoryInv, SnatchInv, ReflectedDeathInv
  <2>5. ASSUME NEW p \in Player, NEW S \in SUBSET Thing,
               \/ get_all_rom(p, S) \/ WearAll(p, S) \/ RemoveAll(p, S) \/ lose_all(p, S)
               \/ \E b \in Box : get_all_obj(p, b, S) \/ drop_all_obj(p, S, b)
               \/ \E k \in Kinds : drop_all_rom(p, S, k)
               \/ \E byPlayer \in BOOLEAN : Die(p, S, byPlayer)
               \/ \E Q \in SUBSET Scroll : Login(p, Q, S)
        PROVE  IInv'
    BY <2>1, <2>5, GetMoreInv, WearAllInv, BodyInv, LoseAllInv, InventoriesInv, DieInv, LoginInv
  <2>6. ASSUME \/ \E p \in Player : \/ PickPocket(p) \/ SaveGame(p)
                                    \/ \E asked \in BOOLEAN : Quit(p, asked)
               \/ \E p \in Player, q \in Player : SnatchNothing(p, q)
               \/ \E p \in Player, k \in Kinds : Flee(p, k)
        PROVE  IInv'
    BY <2>1, <2>6, BodyInv, SaveGameInv, QuitInv, SnatchInv
  <2>7. ASSUME \/ GiveSaved
               \/ \E o \in Thing : Scavenge(o) \/ Appear(o)
               \/ \E k \in Kinds, trader \in BOOLEAN : MonDies(k, trader)
               \/ \E S \in SUBSET mem.floor : RoomFreed(S)
        PROVE  IInv'
    BY <2>1, <2>7, GiveSavedInv, WorldInv, MonDiesInv
  <2> QED BY <1>2, <2>2, <2>3, <2>4, <2>5, <2>6, <2>7 DEF Next
<1> QED BY <1>1, <1>2

\* The invariant the properties rest on holds whatever handlers run.
THEOREM AlwaysIInv == Spec => []IInv
  BY InitIInv, NextIInv, PTL DEF Spec

\* The lists a thing is in, from the place it has.
LEMMA PlacesAre ==
    ASSUME NEW k, NEW w, NEW s, NEW o \in Thing, playing \subseteq Player,
           PlacedAt(mem, playing, {}, k, w, s, o)
    PROVE  \A y : y \in Places(o) <=>
              \/ k[o] = "inv" /\ y = <<w[o], "inv">>
              \/ k[o] = "ready" /\ y = <<w[o], s[o]>>
              \/ k[o] = "inside" /\ y = <<w[o], "inside">>
              \/ k[o] = "file" /\ y = <<w[o], "file">>
              \/ k[o] = "floor" /\ y = <<"room", "floor">>
<1> DEFINE A == {<<h, "inv">> : h \in {h \in Holder : o \in mem.inv[h]}}
           B == {at \in Player \X Slot : mem.ready[at[1]][at[2]] = o}
           C == {<<b, "inside">> : b \in {b \in Box : o \in mem.inside[b]}}
           D == {<<p, "file">> : p \in {p \in Player \ playing : o \in Kept(mem.file[p])}}
           E == {<<"room", "floor">> : f \in {f \in {o} : f \in mem.floor}}
<1>1. Places(o) = A \cup B \cup C \cup D \cup E
  BY DEF Places
<1>2. ASSUME NEW y PROVE y \in A <=> k[o] = "inv" /\ y = <<w[o], "inv">>
  <2>1. k[o] = "inv" => w[o] \in Holder
    BY DEF PlacedAt, Holder
  <2>2. \A h \in Holder : o \in mem.inv[h] <=> k[o] = "inv" /\ w[o] = h
    BY DEF PlacedAt
  <2> QED BY <2>1, <2>2
<1>3. ASSUME NEW y PROVE y \in B <=> k[o] = "ready" /\ y = <<w[o], s[o]>>
  <2>1. k[o] = "ready" => w[o] \in Player /\ s[o] \in Slot
    BY DEF PlacedAt
  <2>2. \A p \in Player, t \in Slot :
          mem.ready[p][t] = o <=> k[o] = "ready" /\ w[o] = p /\ s[o] = t
    BY DEF PlacedAt
  <2> QED BY <2>1, <2>2
<1>4. ASSUME NEW y PROVE y \in C <=> k[o] = "inside" /\ y = <<w[o], "inside">>
  <2>1. k[o] = "inside" => w[o] \in Box
    BY DEF PlacedAt
  <2>2. \A b \in Box : o \in mem.inside[b] <=> k[o] = "inside" /\ w[o] = b
    BY DEF PlacedAt
  <2> QED BY <2>1, <2>2
<1>5. ASSUME NEW y PROVE y \in D <=> k[o] = "file" /\ y = <<w[o], "file">>
  <2>1. k[o] = "file" => w[o] \in Player \ playing
    BY DEF PlacedAt
  <2>2. \A p \in Player \ playing : o \in Kept(mem.file[p]) <=> k[o] = "file" /\ w[o] = p
    BY DEF PlacedAt
  <2> QED BY <2>1, <2>2
<1>6. ASSUME NEW y PROVE y \in E <=> k[o] = "floor" /\ y = <<"room", "floor">>
  BY DEF PlacedAt
<1> HIDE DEF A, B, C, D, E
<1> QED BY <1>1, <1>2, <1>3, <1>4, <1>5, <1>6

\* No sequence of handlers puts a thing into two lists, or leaves what was
\* freed in one: get, drop, give, steal, deaths, saves and logins of any
\* number of players each take a thing out before they put it in.
THEOREM OnePlaceHolds == Spec => []OnePlace
<1>1. IInv => OnePlace
  <2> SUFFICES ASSUME IInv, fate = "up", NEW o \in Thing
               PROVE  Cardinality(Places(o)) <= 1 /\ (o \in Nowhere => Places(o) = {})
    BY DEF IInv, OnePlace
  <2>1. PICK k, w, s : Placed(mem, playing, {}, k, w, s)
    BY DEF IInv, Fine, Sound
  <2>2. PlacedAt(mem, playing, {}, k, w, s, o) /\ playing \subseteq Player
    BY <2>1 DEF Placed, IInv, TypeOK
  <2>3. \A y, z \in Places(o) : y = z
    BY <2>2, PlacesAre
  <2>4. Cardinality(Places(o)) <= 1
    <3>1. CASE Places(o) = {}
      BY <3>1, FS_EmptySet
    <3>2. ASSUME NEW y \in Places(o) PROVE Cardinality(Places(o)) <= 1
      <4>1. Places(o) = {y}
        BY <2>3, <3>2
      <4> QED BY <4>1, FS_Singleton
    <3> QED BY <3>1, <3>2
  <2>5. o \in Nowhere => k[o] \in {"fresh", "dead"}
    BY <2>2 DEF PlacedAt, Nowhere
  <2>6. o \in Nowhere => Places(o) = {}
    BY <2>2, <2>5, PlacesAre
  <2> QED BY <2>4, <2>6
<1> QED BY <1>1, AlwaysIInv, PTL

\* parent_crt is set for what is in somebody's inventory, and for nothing
\* else: del_obj_crt, which goes by it, looks in the right list.
THEOREM ParentSoundHolds == Spec => []ParentSound
<1>1. IInv => ParentSound
  <2> SUFFICES ASSUME IInv, fate = "up"
               PROVE  mem.carried = UNION {mem.inv[h] : h \in Holder}
    BY DEF ParentSound
  <2>1. PICK k, w, s : Placed(mem, playing, {}, k, w, s)
    BY DEF IInv, Fine, Sound
  <2>2. /\ mem.carried \subseteq Thing /\ \A h \in Holder : mem.inv[h] \subseteq Thing
        /\ playing \subseteq Player
    BY DEF IInv, TypeOK, Memory
  <2>3. ASSUME NEW o \in Thing
        PROVE  o \in mem.carried <=> \E h \in Holder : o \in mem.inv[h]
    <3>1. PlacedAt(mem, playing, {}, k, w, s, o)
      BY <2>1 DEF Placed
    <3>2. k[o] = "inv" => w[o] \in Holder
      BY <2>2, <3>1 DEF PlacedAt, Holder
    <3> QED BY <3>1, <3>2 DEF PlacedAt
  <2> QED BY <2>2, <2>3
<1> QED BY <1>1, AlwaysIInv, PTL

\* shotscur of a container is the number of things in it, although get, put,
\* store, free_obj and the loading of a file each count by themselves.
THEOREM BoxCountHolds == Spec => []BoxCount
<1>1. IInv => BoxCount
  BY DEF IInv, Fine, Sound, Counted, BoxCount
<1> QED BY <1>1, AlwaysIInv, PTL

\* A handler that does not free a thing, and is not one of those known to
\* forget it, leaves it in a list.
THEOREM NoLeakHolds == Spec => []NoLeak
<1>1. IInv => NoLeak
  <2> SUFFICES ASSUME IInv, fate = "up", NEW o \in Thing \ Nowhere
               PROVE  Places(o) # {}
    BY DEF NoLeak
  <2>1. PICK k, w, s : Placed(mem, playing, {}, k, w, s)
    BY DEF IInv, Fine, Sound
  <2>2. PlacedAt(mem, playing, {}, k, w, s, o) /\ playing \subseteq Player
    BY <2>1 DEF Placed, IInv, TypeOK
  <2>3. k[o] \in {"inv", "ready", "inside", "file", "floor"}
    BY <2>2 DEF PlacedAt, KindsOfPlace, Nowhere
  <2>4. \A y : y \in Places(o) <=>
              \/ k[o] = "inv" /\ y = <<w[o], "inv">>
              \/ k[o] = "ready" /\ y = <<w[o], s[o]>>
              \/ k[o] = "inside" /\ y = <<w[o], "inside">>
              \/ k[o] = "file" /\ y = <<w[o], "file">>
              \/ k[o] = "floor" /\ y = <<"room", "floor">>
    BY <2>2, PlacesAre
  <2> QED BY <2>3, <2>4
<1> QED BY <1>1, AlwaysIInv, PTL

\* The file of a player in the game holds nothing that went to another, to a
\* floor or into a box by a handler that saves: only what he has, what was
\* freed, and what handlers that do not save took from him.
THEOREM FilesFollowHolds == Spec => []FilesFollow
<1>1. IInv => FilesFollow
  BY DEF IInv, Fine, Follows, FilesFollow
<1> QED BY <1>1, AlwaysIInv, PTL

\* What fits into a file is all in it.
LEMMA FitsIsKept ==
    ASSUME NEW S, IsFiniteSet(S), Cardinality(S) <= Cap, NEW T \in AtMost(S)
    PROVE  T = S
<1>1. T \in SUBSET S /\ IsFiniteSet(T)
  BY FS_Subset DEF AtMost
<1>2. CASE Cardinality(T) = Cap
  <2>1. Cardinality(T) <= Cardinality(S) /\ (Cardinality(T) = Cardinality(S) => T = S)
    BY <1>1, FS_Subset
  <2>2. Cardinality(S) \in Nat /\ Cap \in Nat
    BY FS_CardinalityType, ThingsAssumption
  <2> QED BY <1>2, <2>1, <2>2
<1>3. CASE Cardinality(T) # Cap
  BY <1>3 DEF AtMost
<1> QED BY <1>2, <1>3

\* quit, which is refused to whoever has more than 80 objects, leaves in the
\* file all the player had, with what was in his containers.
THEOREM QuitKeepsAllHolds == Spec => QuitKeepsAll
<1> DEFINE A == \A p \in playing \ playing' :
                   (due = Nil /\ Quit(p, TRUE)) => Kept(mem'.file[p]) = has(mem, p)
<1>1. IInv /\ [Next]_vars => [A]_vars
  <2> SUFFICES ASSUME IInv, NEW p \in playing \ playing', Quit(p, TRUE)
               PROVE  Kept(mem'.file[p]) = has(mem, p)
    OBVIOUS
  <2> DEFINE S == mem.inv[p] \cup worn(mem, p)
  <2>1. /\ mem \in Memory /\ p \in Player /\ p \in playing /\ fate = "up"
        /\ Sound(mem, playing, {})
    BY DEF IInv, TypeOK, Quit, Turn, Fine
  <2>2. PICK n \in savegame(mem, p) : Becomes(Left(mem, n, p), {})
    BY DEF Quit, Left
  <2>3. PICK T \in AtMost(S) : n = Written(mem, p, T)
    BY <2>2 DEF savegame
  <2>4. Cardinality(S) <= Cap
    BY DEF Quit, QuitFits
  <2>5. S \in SUBSET Thing
    BY <2>1, HasType
  <2>6. T = S
    BY <2>3, <2>4, <2>5, FiniteThings, FitsIsKept
  <2> DEFINE in == [b \in Box |-> IF b \in T THEN mem.inside[b] ELSE {}]
             f == [inv |-> T, inside |-> in]
  <2>7. n.file[p] = f
    BY <2>1, <2>3 DEF Written, Memory
  <2>8. Kept(f) = has(mem, p)
    <3>1. \A b \in Box : in[b] = IF b \in T THEN mem.inside[b] ELSE {}
      OBVIOUS
    <3> HIDE DEF in
    <3>2. f.inv = T /\ f.inside = in
      OBVIOUS
    <3> HIDE DEF f, S
    <3> QED BY <2>6, <3>1, <3>2 DEF Kept, Contents, has, S
  <2>9. mem'.file = n.file
    <3>1. Sound(n, playing, {})
      BY <2>1, <2>2, SaveSound
    <3>2. n \in Memory
      BY <3>1 DEF Sound
    <3>3. LeavesAs(mem, n, p, S, Left(mem, n, p))
      BY <2>1, <3>2, LeftLists
    <3> DEFINE x == Left(mem, n, p)
    <3>4. Becomes(x, {})
      BY <2>2
    <3> HIDE DEF x
    <3>5. x.file = n.file /\ x \in Memory
      BY <3>3 DEF LeavesAs, x
    <3> QED BY <3>4, <3>5 DEF Becomes, Memory
  <2> QED BY <2>7, <2>8, <2>9
<1> QED BY <1>1, AlwaysIInv, PTL DEF Spec, QuitKeepsAll

=============================================================================
