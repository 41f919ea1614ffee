--------------------------- MODULE AdmissionProofs ---------------------------
(***************************************************************************)
(* The slot counter and the waiting queue of module Admission are exact,   *)
(* nobody in the queue is overtaken, and Admission implements Slots, for   *)
(* any number of sockets and any MAXPLAYERS.                               *)
(*                                                                         *)
(* The handlers compose disconnect and init_connect, which are operators   *)
(* on intermediate values of the state. The argument follows them: Sound   *)
(* is the invariant as a predicate on such values; OfferSlot keeps it, so  *)
(* disconnect does, so every action does. QueueFair and the refinement     *)
(* follow the order of the queue (Before) through the same operators.      *)
(***************************************************************************)
EXTENDS Admission, FiniteSetTheorems, SequenceTheorems, TLAPS

Distinct(q) == \A i, j \in 1..Len(q) : q[i] = q[j] => i = j

Waits(f) == {fd \in Fd : f[fd] = "waiting"}

FirstOf(q, k) == {q[i] : i \in 1..k}

\* The invariant as a predicate on a queue, the two counters, the socket
\* states and the sockets that hold a slot.
Sound(q, w, n, f, c) ==
    /\ f \in [Fd -> {"closed", "waiting", "login"}]
    /\ q \in Seq(Fd)
    /\ w = Len(q)
    /\ Distinct(q)
    /\ Elems(q) \subseteq Waits(f)
    /\ c = {fd \in Fd : f[fd] = "login"}
    /\ n = Cardinality(c)

IInv ==
    /\ up \in BOOLEAN
    /\ ready \subseteq Fd \cup {Waitsock}
    /\ gone \subseteq Fd
    /\ Sound(wq, Numwaiting, Numplayers, fn, counted)

-----------------------------------------------------------------------------
(* Lemmas.                                                                 *)

\* A queue without its first k elements.
LEMMA RestOfQueue ==
    ASSUME NEW q \in Seq(Fd), Distinct(q), NEW k \in 0..Len(q)
    PROVE  LET r == SubSeq(q, k + 1, Len(q))
           IN /\ r \in Seq(Fd)
              /\ Len(r) = Len(q) - k
              /\ Distinct(r)
              /\ Elems(r) = Elems(q) \ FirstOf(q, k)
<1> DEFINE r == SubSeq(q, k + 1, Len(q))
<1>1. /\ r \in Seq(Fd)
      /\ Len(r) = Len(q) - k
      /\ \A i \in 1..Len(r) : r[i] = q[k + i]
  OBVIOUS
<1> HIDE DEF r
<1>2. Distinct(r)
  BY <1>1 DEF Distinct
<1>3. Elems(r) \subseteq Elems(q) \ FirstOf(q, k)
  BY <1>1 DEF Elems, Distinct, FirstOf
<1>4. ASSUME NEW x \in Elems(q), x \notin FirstOf(q, k)
      PROVE  x \in Elems(r)
  <2>1. PICK i \in 1..Len(q) : x = q[i]
    BY DEF Elems
  <2>2. i - k \in 1..Len(r) /\ r[i - k] = x
    BY <1>1, <1>4, <2>1 DEF FirstOf
  <2> QED BY <2>2 DEF Elems
<1> QED BY <1>1, <1>2, <1>3, <1>4 DEF r

\* A queue without its i-th element, which remove_wait unlinks.
LEMMA QueueWithout ==
    ASSUME NEW q \in Seq(Fd), Distinct(q), NEW i \in 1..Len(q)
    PROVE  LET r == DropTag(q, i)
           IN /\ r \in Seq(Fd)
              /\ Len(r) = Len(q) - 1
              /\ Distinct(r)
              /\ Elems(r) = Elems(q) \ {q[i]}
<1> DEFINE a == SubSeq(q, 1, i - 1)
           b == SubSeq(q, i + 1, Len(q))
           r == DropTag(q, i)
<1>1. a \in Seq(Fd) /\ Len(a) = i - 1 /\ \A j \in 1..(i-1) : a[j] = q[j]
  OBVIOUS
<1>2. /\ b \in Seq(Fd)
      /\ Len(b) = Len(q) - i
      /\ \A j \in 1..(Len(q) - i) : b[j] = q[i + j]
  OBVIOUS
<1>3. r = a \o b
  BY DEF DropTag
<1> HIDE DEF a, b, r
<1>4. r \in Seq(Fd) /\ Len(r) = Len(q) - 1
  BY <1>1, <1>2, <1>3
<1>5. \A j \in 1..Len(r) : r[j] = IF j < i THEN q[j] ELSE q[j + 1]
  <2> TAKE j \in 1..Len(r)
  <2>1. CASE j < i
    BY <1>1, <1>2, <1>3, <1>4, <2>1
  <2>2. CASE j >= i
    <3>1. r[j] = b[j - (i - 1)]
      BY <1>1, <1>2, <1>3, <1>4, <2>2
    <3>2. j - (i - 1) \in 1..(Len(q) - i) /\ i + (j - (i - 1)) = j + 1
      BY <1>4, <2>2
    <3>3. b[j - (i - 1)] = q[j + 1]
      BY <1>2, <3>2
    <3> QED BY <2>2, <3>1, <3>3
  <2> QED BY <2>1, <2>2
<1> DEFINE at(j) == IF j < i THEN j ELSE j + 1
<1>a. \A j \in 1..Len(r) : at(j) \in 1..Len(q) /\ at(j) # i /\ r[j] = q[at(j)]
  BY <1>4, <1>5
<1>6. Distinct(r)
  <2> SUFFICES ASSUME NEW j \in 1..Len(r), NEW k \in 1..Len(r), r[j] = r[k]
               PROVE  j = k
    BY DEF Distinct
  <2>1. at(j) = at(k)
    <3> HIDE DEF at
    <3> QED BY <1>a DEF Distinct
  <2> QED BY <1>4, <2>1
<1>7. Elems(r) \subseteq Elems(q) \ {q[i]}
  <2> SUFFICES ASSUME NEW j \in 1..Len(r)
               PROVE  r[j] \in Elems(q) /\ r[j] # q[i]
    BY DEF Elems
  <2> HIDE DEF at
  <2> QED BY <1>a DEF Elems, Distinct
<1>8. ASSUME NEW x \in Elems(q), x # q[i]
      PROVE  x \in Elems(r)
  <2>1. PICK j \in 1..Len(q) : x = q[j]
    BY DEF Elems
  <2>2. CASE j < i
    BY <1>4, <1>5, <2>1, <2>2 DEF Elems
  <2>3. CASE j > i
    <3>1. j - 1 \in 1..Len(r) /\ r[j - 1] = x
      BY <1>4, <1>5, <2>1, <2>3
    <3> QED BY <3>1 DEF Elems
  <2> QED BY <1>8, <2>1, <2>2, <2>3
<1> QED BY <1>4, <1>6, <1>7, <1>8 DEF r

\* A set of sockets is finite.
LEMMA FiniteFds ==
    ASSUME NEW S \in SUBSET Fd
    PROVE  IsFiniteSet(S) /\ Cardinality(S) \in Nat
  BY AdmissionAssumption, FS_Subset, FS_CardinalityType

\* OfferSlot keeps the invariant, whatever values it starts from.
LEMMA OfferSlotSound ==
    \A q, w, n, f, c :
        Sound(q, w, n, f, c) /\ OfferSlot(q, w, n, f, c)
            => Sound(wq', Numwaiting', Numplayers', fn', counted')
<1> SUFFICES ASSUME NEW q, NEW w, NEW n, NEW f, NEW c,
                    Sound(q, w, n, f, c),
                    OfferSlot(q, w, n, f, c)
             PROVE  Sound(wq', Numwaiting', Numplayers', fn', counted')
  OBVIOUS
<1> USE DEF Sound
<1>1. CASE Keep(q, w, n, f, c)
  BY <1>1 DEF Keep
<1>2. ASSUME NEW k \in 1..Len(q), OfferTo(q, w, n, f, c, k)
      PROVE  Sound(wq', Numwaiting', Numplayers', fn', counted')
  <2> DEFINE Ahead == {q[i] : i \in 1..(k-1)}
             F == CloseAhead(f, q, k)
  <2>1. /\ wq' = SubSeq(q, k + 1, Len(q))
        /\ Numwaiting' = w - k
        /\ \/ ProbeFails(n, F, c)
           \/ Promote(q, n, F, c, k)
           \/ RefuseLast(q, n, F, c, k)
    BY <1>2 DEF OfferTo
  <2>2. /\ wq' \in Seq(Fd)
        /\ Numwaiting' = Len(wq')
        /\ Distinct(wq')
        /\ Elems(wq') = Elems(q) \ FirstOf(q, k)
    BY <2>1, RestOfQueue, k \in 0..Len(q), Len(q) \in Nat
  <2>3. FirstOf(q, k) = Ahead \cup {q[k]}
    BY DEF FirstOf
  <2>4. q[k] \in Elems(q) /\ Ahead \subseteq Elems(q) /\ q[k] \in Waits(f)
    BY DEF Elems
  <2>5. F = [fd \in Fd |-> IF fd \in Ahead THEN "closed" ELSE f[fd]]
    BY DEF CloseAhead, Mark
  <2> HIDE DEF Ahead, F
  <2>6. CASE ProbeFails(n, F, c)
    <3>1. fn' = F /\ counted' = c /\ Numplayers' = n
      BY <2>6 DEF ProbeFails
    <3>2. Waits(fn') = Waits(f) \ Ahead
      BY <2>5, <3>1 DEF Waits
    <3>3. {fd \in Fd : fn'[fd] = "login"} = c
      BY <2>4, <2>5, <3>1 DEF Waits
    <3>4. q[k] \notin Elems(wq') /\ Elems(wq') \subseteq Waits(fn')
      BY <2>2, <2>3, <3>2
    <3> QED BY <2>2, <2>3, <2>5, <3>1, <3>2, <3>3, <3>4
  <2>7. CASE Promote(q, n, F, c, k)
    <3>1. fn' = [fd \in Fd |-> IF fd = q[k] THEN "login"
                              ELSE IF fd \in Ahead THEN "closed" ELSE f[fd]]
      BY <2>5, <2>7 DEF Promote, Mark
    <3>2. Waits(fn') = Waits(f) \ (Ahead \cup {q[k]})
      BY <3>1 DEF Waits
    <3>3. /\ counted' = c \cup {q[k]}
          /\ Numplayers' = n + 1
          /\ q[k] \notin c
      BY <2>4, <2>7 DEF Promote, Waits
    <3>4. {fd \in Fd : fn'[fd] = "login"} = c \cup {q[k]}
      BY <2>4, <3>1 DEF Waits
    <3>5. Numplayers' = Cardinality(counted')
      <4>1. IsFiniteSet(c)
        BY FiniteFds
      <4> QED BY <3>3, <4>1, FS_AddElement
    <3> QED BY <2>2, <2>3, <2>4, <3>1, <3>2, <3>3, <3>4, <3>5
  <2>8. CASE RefuseLast(q, n, F, c, k)
    <3>1. fn' = [fd \in Fd |-> IF fd \in Ahead \cup {q[k]}
                              THEN "closed" ELSE f[fd]]
      BY <2>5, <2>8 DEF RefuseLast, Mark
    <3>2. counted' = c /\ Numplayers' = n
      BY <2>8 DEF RefuseLast
    <3>3. Waits(fn') = Waits(f) \ (Ahead \cup {q[k]})
      BY <3>1 DEF Waits
    <3>4. {fd \in Fd : fn'[fd] = "login"} = c
      BY <2>4, <3>1 DEF Waits
    <3> QED BY <2>2, <2>3, <2>4, <3>1, <3>2, <3>3, <3>4
  <2> QED BY <2>1, <2>6, <2>7, <2>8
<1> QED BY <1>1, <1>2 DEF OfferSlot

\* The values disconnect hands to OfferSlot are sound.
LEMMA DisconnectMiddle ==
    ASSUME NEW fd \in Fd,
           Sound(wq, Numwaiting, Numplayers, fn, counted)
    PROVE  LET f == Mark(fn, {fd}, "closed")
               n == Release(Numplayers, fd)
               c == counted \ {fd}
           IN /\ fd \notin Elems(wq) => Sound(wq, Numwaiting, n, f, c)
              /\ \A i \in 1..Len(wq) :
                   wq[i] = fd => Sound(DropTag(wq, i), Numwaiting - 1, n, f, c)
<1> DEFINE f == Mark(fn, {fd}, "closed")
           n == Release(Numplayers, fd)
           c == counted \ {fd}
<1>1. f = [g \in Fd |-> IF g = fd THEN "closed" ELSE fn[g]]
  BY DEF Mark, Sound
<1>2. /\ f \in [Fd -> {"closed", "waiting", "login"}]
      /\ Waits(f) = Waits(fn) \ {fd}
      /\ c = {g \in Fd : f[g] = "login"}
  BY <1>1 DEF Sound, Waits
<1>3. n = Cardinality(c)
  <2>1. IsFiniteSet(counted)
    BY FiniteFds DEF Sound
  <2> QED BY <2>1, FS_RemoveElement DEF Release, Sound
<1> HIDE DEF f, n, c
<1>4. fd \notin Elems(wq) => Sound(wq, Numwaiting, n, f, c)
  BY <1>2, <1>3 DEF Sound
<1>5. ASSUME NEW i \in 1..Len(wq), wq[i] = fd
      PROVE  Sound(DropTag(wq, i), Numwaiting - 1, n, f, c)
  <2> DEFINE q == DropTag(wq, i)
  <2>1. wq \in Seq(Fd) /\ Distinct(wq)
    BY DEF Sound
  <2>2. /\ q \in Seq(Fd)
        /\ Len(q) = Len(wq) - 1
        /\ Distinct(q)
        /\ Elems(q) = Elems(wq) \ {fd}
    BY <1>5, <2>1, QueueWithout
  <2> HIDE DEF q
  <2>3. Sound(q, Numwaiting - 1, n, f, c)
    BY <1>2, <1>3, <2>2 DEF Sound
  <2> QED BY <2>3 DEF q
<1> QED BY <1>4, <1>5 DEF f, n, c

\* disconnect keeps the invariant.
LEMMA DisconnectSound ==
    ASSUME NEW fd \in Fd,
           Sound(wq, Numwaiting, Numplayers, fn, counted),
           disconnect(fd)
    PROVE  Sound(wq', Numwaiting', Numplayers', fn', counted')
<1> DEFINE f == Mark(fn, {fd}, "closed")
           n == Release(Numplayers, fd)
           c == counted \ {fd}
<1>1. \/ /\ \A i \in 1..Len(wq) : wq[i] # fd
         /\ OfferSlot(wq, Numwaiting, n, f, c)
      \/ \E i \in 1..Len(wq) :
           /\ wq[i] = fd
           /\ OfferSlot(DropTag(wq, i), Numwaiting - 1, n, f, c)
  BY DEF disconnect
<1>2. /\ (\A i \in 1..Len(wq) : wq[i] # fd) => Sound(wq, Numwaiting, n, f, c)
      /\ \A i \in 1..Len(wq) :
           wq[i] = fd => Sound(DropTag(wq, i), Numwaiting - 1, n, f, c)
  BY DisconnectMiddle DEF Elems
<1> HIDE DEF f, n, c
<1> QED BY <1>1, <1>2, OfferSlotSound

\* What SlotDebt says, of intermediate values and up to d slots.
Out(q, f) == Waits(f) \ Elems(q)
Debt(q, n, f, d) == q # <<>> => MaxPlayers <= n + Cardinality(Out(q, f)) + d

\* Offering a slot settles a debt of one slot more.
LEMMA OfferSlotDebt ==
    \A q, w, n, f, c :
        /\ Sound(q, w, n, f, c)
        /\ Debt(q, n, f, 1)
        /\ OfferSlot(q, w, n, f, c)
        => Debt(wq', Numplayers', fn', 0)
<1> SUFFICES ASSUME NEW q, NEW w, NEW n, NEW f, NEW c,
                    Sound(q, w, n, f, c),
                    Debt(q, n, f, 1),
                    OfferSlot(q, w, n, f, c)
             PROVE  Debt(wq', Numplayers', fn', 0)
  OBVIOUS
<1>1. /\ IsFiniteSet(Out(q, f))
      /\ Cardinality(Out(q, f)) \in Nat
      /\ n \in Nat
      /\ MaxPlayers \in Nat
  BY FiniteFds, AdmissionAssumption DEF Out, Waits, Sound
<1>2. CASE (w = 0 \/ ~SlotFree(n)) /\ Keep(q, w, n, f, c)
  <2>1. wq' = q /\ Numplayers' = n /\ fn' = f
    BY <1>2 DEF Keep
  <2>2. q = <<>> \/ MaxPlayers <= n
    BY <1>1, <1>2 DEF Sound, SlotFree
  <2> QED BY <1>1, <2>1, <2>2 DEF Debt
<1>3. ASSUME NEW k \in 1..Len(q), OfferTo(q, w, n, f, c, k), wq' # <<>>
      PROVE  MaxPlayers <= Numplayers' + Cardinality(Out(wq', fn'))
  <2> DEFINE Ahead == {q[i] : i \in 1..(k-1)}
             F == CloseAhead(f, q, k)
  <2>1. /\ wq' = SubSeq(q, k + 1, Len(q))
        /\ \/ ProbeFails(n, F, c)
           \/ Promote(q, n, F, c, k)
           \/ RefuseLast(q, n, F, c, k)
    BY <1>3 DEF OfferTo
  <2>2. Elems(wq') = Elems(q) \ FirstOf(q, k)
    BY <2>1, RestOfQueue, k \in 0..Len(q), Len(q) \in Nat DEF Sound
  <2>3. FirstOf(q, k) = Ahead \cup {q[k]}
    BY DEF FirstOf
  <2>4. q[k] \in Elems(q) /\ Ahead \subseteq Elems(q) /\ q[k] \in Waits(f)
    BY DEF Elems, Sound
  <2>5. F = [fd \in Fd |-> IF fd \in Ahead THEN "closed" ELSE f[fd]]
    BY DEF CloseAhead, Mark, Sound
  <2>6. q[k] \notin Ahead
    BY DEF Sound, Distinct
  <2>7. MaxPlayers <= n + Cardinality(Out(q, f)) + 1
    BY DEF Debt, Sound
  <2> HIDE DEF Ahead, F
  <2>8. CASE ProbeFails(n, F, c)
    <3>1. fn' = F /\ Numplayers' = n
      BY <2>8 DEF ProbeFails
    <3>2. Waits(fn') = Waits(f) \ Ahead
      BY <2>5, <3>1 DEF Waits
    <3>3. Out(wq', fn') = Out(q, f) \cup {q[k]} /\ q[k] \notin Out(q, f)
      BY <2>2, <2>3, <2>4, <2>6, <3>2 DEF Out
    <3>4. Cardinality(Out(wq', fn')) = Cardinality(Out(q, f)) + 1
      BY <1>1, <3>3, FS_AddElement
    <3> QED BY <1>1, <2>7, <3>1, <3>4
  <2>9. CASE Promote(q, n, F, c, k)
    <3>1. fn' = [fd \in Fd |-> IF fd = q[k] THEN "login"
                              ELSE IF fd \in Ahead THEN "closed" ELSE f[fd]]
      BY <2>5, <2>9 DEF Promote, Mark
    <3>2. Waits(fn') = Waits(f) \ (Ahead \cup {q[k]})
      BY <3>1 DEF Waits
    <3>3. Out(wq', fn') = Out(q, f) /\ Numplayers' = n + 1
      BY <2>2, <2>3, <2>4, <2>9, <3>2 DEF Out, Promote
    <3> QED BY <1>1, <2>7, <3>3
  <2>10. CASE RefuseLast(q, n, F, c, k)
    BY <1>3, <2>1, <2>10 DEF RefuseLast, Sound
  <2> QED BY <2>1, <2>8, <2>9, <2>10
<1>4. ASSUME NEW k \in 1..Len(q), OfferTo(q, w, n, f, c, k)
      PROVE  Debt(wq', Numplayers', fn', 0)
  <2>1. Out(wq', fn') \in SUBSET Fd
    BY DEF Out, Waits
  <2>2. Cardinality(Out(wq', fn')) \in Nat
    BY <2>1, FiniteFds
  <2>3. Numplayers' \in Nat
    BY <1>1, <1>4 DEF OfferTo, ProbeFails, Promote, RefuseLast
  <2> QED BY <1>1, <1>3, <1>4, <2>2, <2>3 DEF Debt
<1> QED BY <1>2, <1>4 DEF OfferSlot

\* disconnect raises the debt by one slot and offers it.
LEMMA DisconnectDebt ==
    ASSUME NEW fd \in Fd,
           Sound(wq, Numwaiting, Numplayers, fn, counted),
           Debt(wq, Numplayers, fn, 0),
           disconnect(fd)
    PROVE  Debt(wq', Numplayers', fn', 0)
<1> DEFINE f == Mark(fn, {fd}, "closed")
           n == Release(Numplayers, fd)
           c == counted \ {fd}
<1>1. Waits(f) = Waits(fn) \ {fd}
  BY DEF Mark, Sound, Waits
<1>2. \/ /\ \A i \in 1..Len(wq) : wq[i] # fd
         /\ OfferSlot(wq, Numwaiting, n, f, c)
      \/ \E i \in 1..Len(wq) :
           /\ wq[i] = fd
           /\ OfferSlot(DropTag(wq, i), Numwaiting - 1, n, f, c)
  BY DEF disconnect
<1>3. /\ IsFiniteSet(Out(wq, fn))
      /\ Cardinality(Out(wq, fn)) \in Nat
      /\ Numplayers \in Nat
      /\ MaxPlayers \in Nat
  BY FiniteFds, AdmissionAssumption DEF Out, Waits, Sound
<1>4. fd \in counted => fd \notin Waits(fn)
  BY DEF Sound, Waits
<1>5. fd \in counted => Numplayers # 0
  <2>1. IsFiniteSet(counted)
    BY FiniteFds DEF Sound
  <2> QED BY <2>1, FS_EmptySet DEF Sound
<1>6. n = IF fd \in counted THEN Numplayers - 1 ELSE Numplayers
  BY DEF Release
<1> HIDE DEF f, n, c
<1>7. CASE /\ \A i \in 1..Len(wq) : wq[i] # fd
           /\ OfferSlot(wq, Numwaiting, n, f, c)
  <2>1. fd \notin Elems(wq)
    BY <1>7 DEF Elems
  <2>2. Sound(wq, Numwaiting, n, f, c)
    BY DisconnectMiddle, <2>1 DEF f, n, c
  <2>3. Out(wq, f) = Out(wq, fn) \ {fd}
    BY <1>1 DEF Out
  <2>4. Cardinality(Out(wq, f)) =
          IF fd \in Out(wq, fn) THEN Cardinality(Out(wq, fn)) - 1
                                ELSE Cardinality(Out(wq, fn))
    BY <1>3, <2>3, FS_RemoveElement
  <2>5. n + Cardinality(Out(wq, f)) + 1 >= Numplayers + Cardinality(Out(wq, fn))
    BY <1>3, <1>4, <1>6, <2>4 DEF Out
  <2>6. n + Cardinality(Out(wq, f)) + 1 \in Int
    BY <1>3, <1>6, <2>4
  <2>7. Debt(wq, n, f, 1)
    BY <1>3, <2>5, <2>6 DEF Debt
  <2> QED BY <1>7, <2>2, <2>7, OfferSlotDebt
<1>8. ASSUME NEW i \in 1..Len(wq), wq[i] = fd,
             OfferSlot(DropTag(wq, i), Numwaiting - 1, n, f, c)
      PROVE  Debt(wq', Numplayers', fn', 0)
  <2> DEFINE q == DropTag(wq, i)
  <2>1. wq \in Seq(Fd) /\ Distinct(wq) /\ wq # <<>>
    BY DEF Sound
  <2>2. Elems(q) = Elems(wq) \ {fd}
    BY <1>8, <2>1, QueueWithout
  <2>3. Sound(q, Numwaiting - 1, n, f, c)
    BY <1>8, DisconnectMiddle DEF f, n, c
  <2> HIDE DEF q
  <2>4. fd \in Elems(wq) /\ fd \in Waits(fn)
    BY <1>8 DEF Elems, Sound
  <2>5. Out(q, f) = Out(wq, fn)
    BY <1>1, <2>2, <2>4 DEF Out
  <2>6. n = Numplayers
    BY <1>4, <1>6, <2>4
  <2>7. Debt(q, n, f, 1)
    BY <1>3, <2>1, <2>5, <2>6 DEF Debt
  <2> QED BY <1>8, <2>3, <2>7, OfferSlotDebt DEF q
<1> QED BY <1>2, <1>7, <1>8

-----------------------------------------------------------------------------
(* The theorems.                                                           *)

\* At the start nobody is connected, so the invariant holds.
LEMMA InitIInv == Init => IInv
<1> SUFFICES ASSUME Init PROVE IInv
  OBVIOUS
<1>1. wq = <<>> /\ Len(wq) = 0 /\ wq \in Seq(Fd) /\ Elems(wq) = {}
  BY DEF Init, Fresh, Elems
<1>2. {fd \in Fd : fn[fd] = "login"} = {} /\ Waits(fn) = {}
  BY DEF Init, Fresh, Waits
<1> QED BY <1>1, <1>2, FS_EmptySet DEF Init, Fresh, IInv, Sound, Distinct, Waitsock

\* Every step of the server, of the peers and of a restart keeps it.
LEMMA NextIInv == IInv /\ [Next]_vars => IInv'
<1> SUFFICES ASSUME IInv, [Next]_vars PROVE IInv'
  OBVIOUS
<1> DEFINE Old == Sound(wq, Numwaiting, Numplayers, fn, counted)
           New == Sound(wq', Numwaiting', Numplayers', fn', counted')
<1>0. Old /\ up \in BOOLEAN /\ ready \subseteq Fd \cup {Waitsock} /\ gone \subseteq Fd
  BY DEF IInv
<1>1. CASE Poll
  BY <1>0, <1>1 DEF Poll, Open, IInv, Waitsock
<1>2. CASE AcceptRefused
  <2>1. /\ OfferSlot(wq, Numwaiting, Numplayers, fn, counted)
        /\ ForgetClosed
        /\ ready' \subseteq ready /\ up' = up
    BY <1>2 DEF AcceptRefused, Accepted
  <2>2. New
    BY <1>0, <2>1, OfferSlotSound
  <2> QED BY <1>0, <2>1, <2>2 DEF IInv, ForgetClosed
<1>3. CASE AcceptQueued
  <2>1. PICK fd \in Fd :
          /\ fd \notin Open
          /\ wq' = Append(wq, fd)
          /\ Numwaiting' = IF wq = <<>> THEN 1 ELSE Numwaiting + 1
          /\ fn' = [fn EXCEPT ![fd] = "waiting"]
          /\ UNCHANGED <<counted, gone, Numplayers>>
          /\ ready' \subseteq ready /\ up' = up
    BY <1>3 DEF AcceptQueued, Accepted
  <2>2. fn[fd] = "closed"
    BY <2>1 DEF Open
  <2>3. fd \notin Elems(wq)
    BY <1>0, <2>2 DEF Sound, Waits
  <2>4. /\ wq' \in Seq(Fd)
        /\ Len(wq') = Len(wq) + 1
        /\ \A i \in 1..Len(wq) : wq'[i] = wq[i]
        /\ wq'[Len(wq) + 1] = fd
    BY <1>0, <2>1 DEF Sound
  <2>5. Elems(wq') = Elems(wq) \cup {fd}
    BY <1>0, <2>4 DEF Elems, Sound
  <2>6. Distinct(wq')
    BY <1>0, <2>3, <2>4 DEF Elems, Distinct, Sound
  <2>7. Numwaiting' = Len(wq')
    BY <1>0, <2>1, <2>4 DEF Sound
  <2>8. /\ Waits(fn') = Waits(fn) \cup {fd}
        /\ {g \in Fd : fn'[g] = "login"} = {g \in Fd : fn[g] = "login"}
        /\ fn' \in [Fd -> {"closed", "waiting", "login"}]
    BY <1>0, <2>1, <2>2 DEF Waits, Sound
  <2>9. New
    BY <1>0, <2>1, <2>4, <2>5, <2>6, <2>7, <2>8 DEF Sound
  <2> QED BY <1>0, <2>1, <2>9 DEF IInv
<1>4. CASE AcceptAdmitted
  <2>1. PICK fd \in Fd :
          /\ fd \notin Open
          /\ Numplayers' = Numplayers + 1
          /\ counted' = counted \cup {fd}
          /\ fn' = [fn EXCEPT ![fd] = "login"]
          /\ UNCHANGED <<gone, wq, Numwaiting>>
          /\ ready' \subseteq ready /\ up' = up
    BY <1>4 DEF AcceptAdmitted, Accepted
  <2>2. fn[fd] = "closed"
    BY <2>1 DEF Open
  <2>3. /\ Waits(fn') = Waits(fn)
        /\ {g \in Fd : fn'[g] = "login"} = counted \cup {fd}
        /\ fd \notin counted
        /\ fn' \in [Fd -> {"closed", "waiting", "login"}]
    BY <1>0, <2>1, <2>2 DEF Waits, Sound
  <2>4. Numplayers' = Cardinality(counted')
    <3>1. IsFiniteSet(counted)
      BY <1>0, FiniteFds DEF Sound
    <3> QED BY <1>0, <2>1, <2>3, <3>1, FS_AddElement DEF Sound
  <2>5. New
    BY <1>0, <2>1, <2>3, <2>4 DEF Sound
  <2> QED BY <1>0, <2>1, <2>5 DEF IInv
<1>5. CASE Halt
  <2>1. wq' = <<>> /\ Len(wq') = 0 /\ wq' \in Seq(Fd) /\ Elems(wq') = {}
    BY <1>5 DEF Halt, Fresh, Elems
  <2>2. {fd \in Fd : fn'[fd] = "login"} = {} /\ Waits(fn') = {}
    BY <1>5 DEF Halt, Fresh, Waits
  <2>3. Distinct(wq')
    BY <2>1 DEF Distinct
  <2>4. /\ fn' \in [Fd -> {"closed", "waiting", "login"}]
        /\ counted' = {} /\ Numplayers' = 0 /\ Numwaiting' = 0
    BY <1>5 DEF Halt, Fresh
  <2>5. New
    BY <2>1, <2>2, <2>3, <2>4, FS_EmptySet DEF Sound
  <2> QED BY <1>5, <2>5 DEF Halt, IInv
<1>6. CASE ServeInput
  <2>1. ready' \subseteq ready /\ up' = up
    BY <1>6 DEF ServeInput
  <2>2. PICK fd \in Fd :
          \/ disconnect(fd) /\ ForgetClosed
          \/ UNCHANGED <<fn, counted, gone, wq, Numplayers, Numwaiting>>
    BY <1>6 DEF ServeInput, Open
  <2>3. CASE disconnect(fd) /\ ForgetClosed
    <3>1. New
      BY <1>0, <2>3, DisconnectSound
    <3> QED BY <1>0, <2>1, <2>3, <3>1 DEF IInv, ForgetClosed
  <2>4. CASE UNCHANGED <<fn, counted, gone, wq, Numplayers, Numwaiting>>
    BY <1>0, <2>1, <2>4 DEF IInv
  <2> QED BY <2>2, <2>3, <2>4
<1>7. CASE EndSession
  <2>1. PICK fd \in Fd : disconnect(fd)
    BY <1>7 DEF EndSession
  <2>2. ForgetClosed /\ UNCHANGED <<up, ready>>
    BY <1>7 DEF EndSession
  <2>3. New
    BY <1>0, <2>1, <2>2, DisconnectSound
  <2> QED BY <1>0, <2>2, <2>3 DEF IInv, ForgetClosed
<1>8. CASE PeerLeaves
  <2>1. /\ gone \subseteq gone' /\ gone' \subseteq Fd
        /\ UNCHANGED <<up, fn, counted, wq, Numplayers, Numwaiting, ready>>
    BY <1>0, <1>8 DEF PeerLeaves, Open
  <2>2. New
    BY <1>0, <2>1 DEF Sound
  <2> QED BY <1>0, <2>1, <2>2 DEF IInv
<1>9. CASE Restart
  BY <1>0, <1>9 DEF Restart, IInv
<1>10. CASE UNCHANGED vars
  BY <1>0, <1>10 DEF vars, IInv
<1> QED
  BY <1>1, <1>2, <1>3, <1>4, <1>5, <1>6, <1>7, <1>8, <1>9, <1>10
     DEF Next, AcceptFatal, ServeClosed

\* The inductive invariant: types, exact counters and a sound queue.
THEOREM AlwaysIInv == Spec => []IInv
  BY InitIInv, NextIInv, PTL DEF Spec

\* Every variable keeps its type.
THEOREM TypeCorrect == Spec => []TypeOK
<1>1. IInv => TypeOK
  BY FiniteFds DEF IInv, Sound, TypeOK
<1> QED BY <1>1, AlwaysIInv, PTL

\* Numplayers always counts the connections that hold a slot.
THEOREM SlotsCounted == Spec => []SlotCountExact
<1>1. IInv => SlotCountExact
  BY DEF IInv, Sound, SlotCountExact
<1> QED BY <1>1, AlwaysIInv, PTL

\* Numwaiting is always the length of the queue, in which every socket
\* stands once and waits.
THEOREM QueueAlwaysSound == Spec => []QueueSound
<1>1. IInv => QueueSound
  BY DEF IInv, Sound, QueueSound, Distinct, Elems, Waits
<1> QED BY <1>1, AlwaysIInv, PTL

\* Closing or not, what is known of the peers does not touch the debt; the
\* steps that take no slot and offer none keep it as it is.
LEMMA NextDebt ==
    IInv /\ Debt(wq, Numplayers, fn, 0) /\ [Next]_vars
        => Debt(wq', Numplayers', fn', 0)
<1> SUFFICES ASSUME IInv, Debt(wq, Numplayers, fn, 0), [Next]_vars
             PROVE  Debt(wq', Numplayers', fn', 0)
  OBVIOUS
<1>0. Sound(wq, Numwaiting, Numplayers, fn, counted)
  BY DEF IInv
<1>1. /\ Cardinality(Out(wq, fn)) \in Nat
      /\ Numplayers \in Nat
      /\ MaxPlayers \in Nat
  BY <1>0, FiniteFds, AdmissionAssumption DEF Out, Waits, Sound
<1>2. CASE AcceptRefused
  <2>1. OfferSlot(wq, Numwaiting, Numplayers, fn, counted)
    BY <1>2 DEF AcceptRefused
  <2>2. Debt(wq, Numplayers, fn, 1)
    BY <1>1 DEF Debt
  <2> QED BY <1>0, <2>1, <2>2, OfferSlotDebt
<1>3. CASE AcceptQueued
  <2>1. MaxPlayers <= Numplayers /\ Numplayers' = Numplayers
    BY <1>1, <1>3 DEF AcceptQueued, MustQueue
  <2>2. Out(wq', fn') \in SUBSET Fd
    BY DEF Out, Waits
  <2>3. Cardinality(Out(wq', fn')) \in Nat
    BY <2>2, FiniteFds
  <2> QED BY <1>1, <2>1, <2>3 DEF Debt
<1>4. CASE AcceptAdmitted
  <2>1. PICK fd \in Fd :
          /\ fd \notin Open
          /\ Numplayers' = Numplayers + 1
          /\ fn' = [fn EXCEPT ![fd] = "login"]
          /\ wq' = wq
    BY <1>4 DEF AcceptAdmitted, Accepted
  <2>2. Waits(fn') = Waits(fn)
    BY <1>0, <2>1 DEF Open, Waits, Sound
  <2>3. Out(wq', fn') = Out(wq, fn)
    BY <2>1, <2>2 DEF Out
  <2>4. wq # <<>> => MaxPlayers <= Numplayers + Cardinality(Out(wq, fn)) + 0
    BY DEF Debt
  <2>5. wq' # <<>> => MaxPlayers <= Numplayers' + Cardinality(Out(wq', fn')) + 0
    BY <1>1, <2>1, <2>3, <2>4
  <2> QED BY <2>5 DEF Debt
<1>5. CASE Halt
  BY <1>5 DEF Halt, Fresh, Debt
<1>6. CASE ServeInput
  <2>1. PICK fd \in Fd :
          \/ disconnect(fd)
          \/ UNCHANGED <<fn, counted, gone, wq, Numplayers, Numwaiting>>
    BY <1>6 DEF ServeInput, Open
  <2> QED BY <1>0, <2>1, DisconnectDebt
<1>7. CASE EndSession
  <2>1. PICK fd \in Fd : disconnect(fd)
    BY <1>7 DEF EndSession
  <2> QED BY <1>0, <2>1, DisconnectDebt
<1>8. CASE UNCHANGED <<wq, Numplayers, fn>>
  BY <1>8
<1> QED
  BY <1>2, <1>3, <1>4, <1>5, <1>6, <1>7, <1>8
     DEF Next, Poll, AcceptFatal, ServeClosed, PeerLeaves, Restart, vars

\* While somebody queues, no slot is free beyond those owed to waiters whose
\* probe failed: a free slot is never forgotten.
THEOREM NoSlotLost == Spec => []SlotDebt
<1> DEFINE Paid == Debt(wq, Numplayers, fn, 0)
<1>1. Init => Paid
  BY DEF Init, Fresh, Debt
<1>2. IInv /\ Paid /\ [Next]_vars => Paid'
  BY NextDebt DEF Debt, Out, Waits, Elems
<1>3. IInv /\ Paid => SlotDebt
  <2>1. Limbo = Out(wq, fn)
    BY DEF Limbo, Out, Waits
  <2>2. IInv => Cardinality(Out(wq, fn)) \in Nat /\ Numplayers \in Nat
    BY FiniteFds DEF IInv, Sound, Out, Waits
  <2> QED BY <2>1, <2>2, AdmissionAssumption DEF SlotDebt, Debt
<1> HIDE DEF Paid
<1> QED BY <1>1, <1>2, <1>3, AlwaysIInv, PTL DEF Spec

-----------------------------------------------------------------------------
(* The abstract specification.                                             *)

\* Slots counts as Admission does.
LEMMA SameCardinality == ASSUME NEW S PROVE Abstract!Cardinality(S) = Cardinality(S)
  BY DEF Cardinality, Abstract!Cardinality

\* What OfferSlot does to a line and to those inside is a service of Slots.
LEMMA OfferSlotServes ==
    ASSUME NEW q, NEW w, NEW n, NEW f, NEW c,
           Sound(q, w, n, f, c), OfferSlot(q, w, n, f, c)
    PROVE  Abstract!Serve(c, q)
<1> USE DEF Sound
<1>1. CASE Keep(q, w, n, f, c)
  <2>1. wq' = q /\ counted' = c
    BY <1>1 DEF Keep
  <2>2. SubSeq(q, 0 + 1, Len(q)) = q /\ 0 \in 0..Len(q)
    OBVIOUS
  <2> QED BY <2>1, <2>2 DEF Abstract!Serve
<1>2. ASSUME NEW k \in 1..Len(q), SlotFree(n), OfferTo(q, w, n, f, c, k)
      PROVE  Abstract!Serve(c, q)
  <2>1. /\ wq' = SubSeq(q, k + 1, Len(q))
        /\ counted' = c \/ counted' = c \cup {q[k]}
    BY <1>2 DEF OfferTo, ProbeFails, Promote, RefuseLast
  <2>2. Len(q) \in Nat
    OBVIOUS
  <2>3. k \in 0..Len(q) /\ k > 0
    BY <2>2
  <2>4. Cardinality(c) < MaxPlayers
    BY <1>2 DEF SlotFree
  <2>5. \/ counted' = c
        \/ k > 0 /\ Cardinality(c) < MaxPlayers /\ counted' = c \cup {q[k]}
    BY <2>1, <2>3, <2>4
  <2> QED BY ONLY <2>1, <2>3, <2>5, SameCardinality DEF Abstract!Serve
<1> QED BY <1>1, <1>2 DEF OfferSlot

\* A connection that ends leaves its place or the line.
LEMMA DisconnectLeaves ==
    ASSUME NEW fd \in Fd,
           Sound(wq, Numwaiting, Numplayers, fn, counted),
           disconnect(fd)
    PROVE  Abstract!Leave
<1> DEFINE f == Mark(fn, {fd}, "closed")
           n == Release(Numplayers, fd)
           c == counted \ {fd}
<1>1. \/ /\ \A i \in 1..Len(wq) : wq[i] # fd
         /\ OfferSlot(wq, Numwaiting, n, f, c)
      \/ \E i \in 1..Len(wq) :
           /\ wq[i] = fd
           /\ OfferSlot(DropTag(wq, i), Numwaiting - 1, n, f, c)
  BY DEF disconnect
<1>2. /\ (\A i \in 1..Len(wq) : wq[i] # fd) => Sound(wq, Numwaiting, n, f, c)
      /\ \A i \in 1..Len(wq) :
           wq[i] = fd => Sound(DropTag(wq, i), Numwaiting - 1, n, f, c)
  BY DisconnectMiddle DEF Elems
<1> HIDE DEF f, n
<1>3. CASE /\ \A i \in 1..Len(wq) : wq[i] # fd
           /\ OfferSlot(wq, Numwaiting, n, f, c)
  <2>1. Abstract!Serve(c, wq)
    <3> HIDE DEF c
    <3> QED BY <1>2, <1>3, OfferSlotServes
  <2> QED BY <2>1 DEF Abstract!Leave
<1>4. ASSUME NEW i \in 1..Len(wq), wq[i] = fd,
             OfferSlot(DropTag(wq, i), Numwaiting - 1, n, f, c)
      PROVE  Abstract!Leave
  <2>1. fn[fd] = "waiting"
    BY <1>4 DEF Sound, Elems, Waits
  <2>2. c = counted
    BY <2>1 DEF Sound
  <2>3. Abstract!Serve(c, DropTag(wq, i))
    <3> HIDE DEF c
    <3> QED BY <1>2, <1>4, OfferSlotServes
  <2>4. Abstract!Serve(counted, DropTag(wq, i))
    BY <2>2, <2>3
  <2> QED BY <2>4 DEF Abstract!Leave, DropTag
<1> QED BY <1>1, <1>3, <1>4

\* Every step of the server is a step of Slots or none.
LEMMA NextSlots == IInv /\ [Next]_vars => [Abstract!Next]_(Abstract!svars)
<1> SUFFICES ASSUME IInv, [Next]_vars
             PROVE  Abstract!Next \/ UNCHANGED <<counted, wq>>
  BY DEF Abstract!svars
<1>0. Sound(wq, Numwaiting, Numplayers, fn, counted)
  BY DEF IInv
<1>1. CASE AcceptRefused
  <2>1. PICK fd \in Fd : fd \notin Open
    BY <1>1 DEF AcceptRefused, Accepted
  <2>2. counted \ {fd} = counted
    BY <1>0, <2>1 DEF Sound, Open
  <2>3. Abstract!Serve(counted, wq)
    BY <1>0, <1>1, OfferSlotServes DEF AcceptRefused
  <2>4. Abstract!Serve(counted \ {fd}, wq)
    BY <2>2, <2>3
  <2> QED BY <2>4 DEF Abstract!Leave, Abstract!Next
<1>2. CASE AcceptQueued
  <2>1. PICK fd \in Fd :
          fd \notin Open /\ wq' = Append(wq, fd) /\ counted' = counted /\ MustQueue
    BY <1>2 DEF AcceptQueued, Accepted
  <2>2. fd \notin counted \cup Abstract!InLine
    BY <1>0, <2>1 DEF Sound, Open, Waits, Elems, Abstract!InLine
  <2>3. Cardinality(counted) >= MaxPlayers
    BY <1>0, <2>1 DEF Sound, MustQueue
  <2>4. Abstract!Join(fd)
    BY ONLY <2>1, <2>2, <2>3, SameCardinality DEF Abstract!Join
  <2> QED BY <2>4 DEF Abstract!Next
<1>3. CASE AcceptAdmitted
  <2>1. PICK fd \in Fd : fd \notin Open /\ counted' = counted \cup {fd} /\ wq' = wq
    BY <1>3 DEF AcceptAdmitted, Accepted
  <2>2. fd \notin counted \cup Abstract!InLine
    BY <1>0, <2>1 DEF Sound, Open, Waits, Elems, Abstract!InLine
  <2> QED BY <2>1, <2>2 DEF Abstract!Enter, Abstract!Next
<1>4. CASE Halt
  BY <1>4 DEF Halt, Fresh, Abstract!Stop, Abstract!Next
<1>5. CASE \E fd \in Fd : disconnect(fd)
  BY <1>0, <1>5, DisconnectLeaves DEF Abstract!Next
<1>6. CASE UNCHANGED <<counted, wq>>
  BY <1>6
<1> QED
  BY <1>1, <1>2, <1>3, <1>4, <1>5, <1>6
     DEF Next, Poll, AcceptFatal, ServeInput, ServeClosed, EndSession, PeerLeaves, Restart,
         Open, vars

\* The server implements Slots: whatever disconnects, probes and lockouts do
\* inside one handler, players come from the line in order and only into a
\* free slot.
THEOREM SlotsImplemented == Spec => ImplementsSlots
<1>1. Init => Abstract!Init
  BY DEF Init, Fresh, Abstract!Init
<1> QED BY <1>1, NextSlots, AlwaysIInv, PTL DEF Spec, ImplementsSlots, Abstract!Spec

-----------------------------------------------------------------------------
(* The order of the queue.                                                 *)

Before(q, a, b) == \E i, j \in 1..Len(q) : i < j /\ q[i] = a /\ q[j] = b

\* Taking the first k out of the queue.
LEMMA RestOrder ==
    ASSUME NEW q \in Seq(Fd), Distinct(q), NEW k \in 0..Len(q), NEW a, NEW b, Before(q, a, b)
    PROVE  LET r == SubSeq(q, k + 1, Len(q))
           IN /\ {a, b} \subseteq Elems(r) => Before(r, a, b)
              /\ k > 0 /\ b = q[k] => a \notin Elems(r)
<1> DEFINE r == SubSeq(q, k + 1, Len(q))
<1>1. /\ r \in Seq(Fd)
      /\ Len(r) = Len(q) - k
      /\ \A i \in 1..Len(r) : r[i] = q[k + i]
  OBVIOUS
<1> HIDE DEF r
<1>2. PICK i \in 1..Len(q), j \in 1..Len(q) : i < j /\ q[i] = a /\ q[j] = b
  BY DEF Before
<1>3. ASSUME NEW x \in 1..Len(q), q[x] \in Elems(r) PROVE x - k \in 1..Len(r) /\ r[x - k] = q[x]
  <2>1. PICK y \in 1..Len(r) : r[y] = q[x]
    BY <1>3 DEF Elems
  <2>2. k + y \in 1..Len(q) /\ q[k + y] = q[x]
    BY <1>1, <2>1
  <2>3. k + y = x
    BY <2>2 DEF Distinct
  <2>4. x \in Int /\ k \in Int /\ y \in Int
    BY <1>1
  <2>5. x - k = y
    BY ONLY <2>3, <2>4
  <2> QED BY <2>1, <2>5
<1>4. ASSUME {a, b} \subseteq Elems(r) PROVE Before(r, a, b)
  <2>1. i - k \in 1..Len(r) /\ j - k \in 1..Len(r) /\ r[i - k] = a /\ r[j - k] = b
    BY <1>2, <1>3, <1>4
  <2>2. i - k < j - k
    BY <1>2
  <2> QED BY <2>1, <2>2 DEF Before
<1>5. ASSUME k > 0, b = q[k], a \in Elems(r) PROVE FALSE
  <2>1. k \in 1..Len(q) /\ q[j] = q[k]
    BY <1>2, <1>5
  <2>2. j = k
    BY <2>1 DEF Distinct
  <2>3. i - k \in 1..Len(r)
    BY <1>2, <1>3, <1>5
  <2> QED BY <1>1, <1>2, <2>2, <2>3
<1> QED BY <1>4, <1>5 DEF r

\* Taking one out of the queue.
LEMMA WithoutOrder ==
    ASSUME NEW q \in Seq(Fd), NEW i \in 1..Len(q), NEW a, NEW b, Before(q, a, b),
           a # q[i], b # q[i]
    PROVE  Before(DropTag(q, i), a, b)
<1> DEFINE s == SubSeq(q, 1, i - 1)
           t == SubSeq(q, i + 1, Len(q))
           r == DropTag(q, i)
<1>1. s \in Seq(Fd) /\ Len(s) = i - 1 /\ \A j \in 1..(i-1) : s[j] = q[j]
  OBVIOUS
<1>2. /\ t \in Seq(Fd)
      /\ Len(t) = Len(q) - i
      /\ \A j \in 1..(Len(q) - i) : t[j] = q[i + j]
  OBVIOUS
<1>3. r = s \o t
  BY DEF DropTag
<1> HIDE DEF s, t, r
<1>4. r \in Seq(Fd) /\ Len(r) = Len(q) - 1
  BY <1>1, <1>2, <1>3
<1>5. ASSUME NEW x \in 1..Len(q), x # i
      PROVE  LET y == IF x < i THEN x ELSE x - 1
             IN y \in 1..Len(r) /\ r[y] = q[x]
  <2>1. CASE x < i
    BY <1>1, <1>2, <1>3, <1>4, <2>1
  <2>2. CASE x > i
    <3>1. x - 1 \in 1..Len(r) /\ r[x - 1] = t[(x - 1) - (i - 1)]
      BY <1>1, <1>2, <1>3, <1>4, <2>2
    <3>2. (x - 1) - (i - 1) = x - i /\ x - i \in 1..(Len(q) - i) /\ i + (x - i) = x
      BY <2>2
    <3>3. t[x - i] = q[x]
      BY <1>2, <3>2
    <3> QED BY <2>2, <3>1, <3>2, <3>3
  <2> QED BY <1>5, <2>1, <2>2
<1>6. PICK x \in 1..Len(q), y \in 1..Len(q) : x < y /\ q[x] = a /\ q[y] = b
  BY DEF Before
<1> DEFINE at(z) == IF z < i THEN z ELSE z - 1
<1>7. /\ at(x) \in 1..Len(r) /\ at(y) \in 1..Len(r) /\ r[at(x)] = a /\ r[at(y)] = b
  BY <1>5, <1>6
<1>8. at(x) < at(y)
  BY <1>6
<1> HIDE DEF at
<1> QED BY <1>7, <1>8 DEF Before, r

\* OfferSlot lets nobody overtake who is in the queue it is given.
LEMMA OfferSlotFair ==
    ASSUME NEW q, NEW w, NEW n, NEW f, NEW c,
           Sound(q, w, n, f, c), OfferSlot(q, w, n, f, c)
    PROVE  /\ Elems(wq') \subseteq Elems(q)
           /\ \A x \in Fd \ Elems(q) : fn'[x] = f[x]
           /\ \A a, b : Before(q, a, b) =>
                /\ fn'[b] = "login" => a \notin Elems(wq')
                /\ {a, b} \subseteq Elems(wq') => Before(wq', a, b)
<1>0. q \in Seq(Fd) /\ Distinct(q) /\ f \in [Fd -> {"closed", "waiting", "login"}]
      /\ \A x \in Elems(q) : x \in Fd /\ f[x] = "waiting"
  BY DEF Sound, Waits
<1>1. CASE Keep(q, w, n, f, c)
  <2>1. wq' = q /\ fn' = f
    BY <1>1 DEF Keep
  <2>2. \A a, b : Before(q, a, b) => b \in Elems(q)
    BY DEF Before, Elems
  <2> QED BY <1>0, <2>1, <2>2
<1>2. ASSUME NEW k \in 1..Len(q), OfferTo(q, w, n, f, c, k)
      PROVE  /\ Elems(wq') \subseteq Elems(q)
             /\ \A x \in Fd \ Elems(q) : fn'[x] = f[x]
             /\ \A a, b : Before(q, a, b) =>
                  /\ fn'[b] = "login" => a \notin Elems(wq')
                  /\ {a, b} \subseteq Elems(wq') => Before(wq', a, b)
  <2> DEFINE Ahead == {q[i] : i \in 1..(k-1)}
             F == CloseAhead(f, q, k)
  <2>1. /\ wq' = SubSeq(q, k + 1, Len(q))
        /\ \/ ProbeFails(n, F, c)
           \/ Promote(q, n, F, c, k)
           \/ RefuseLast(q, n, F, c, k)
    BY <1>2 DEF OfferTo
  <2>2. k \in 0..Len(q) /\ k > 0
    OBVIOUS
  <2>3. q[k] \in Elems(q) /\ Ahead \subseteq Elems(q)
    BY DEF Elems
  <2>4. F = [fd \in Fd |-> IF fd \in Ahead THEN "closed" ELSE f[fd]]
    BY <1>0 DEF CloseAhead, Mark
  <2> HIDE DEF Ahead, F
  <2>5. /\ \A x \in Fd \ Elems(q) : fn'[x] = f[x]
        /\ \A x \in Elems(q) : fn'[x] = "login" => x = q[k]
    BY <1>0, <2>1, <2>3, <2>4 DEF ProbeFails, Promote, RefuseLast, Mark
  <2>6. Elems(wq') \subseteq Elems(q)
    BY <1>0, <2>1, <2>2, RestOfQueue
  <2>7. ASSUME NEW a, NEW b, Before(q, a, b)
        PROVE  /\ fn'[b] = "login" => a \notin Elems(wq')
               /\ {a, b} \subseteq Elems(wq') => Before(wq', a, b)
    <3>1. b \in Elems(q)
      BY <2>7 DEF Before, Elems
    <3>2. /\ {a, b} \subseteq Elems(wq') => Before(wq', a, b)
          /\ b = q[k] => a \notin Elems(wq')
      BY <1>0, <2>1, <2>2, <2>7, RestOrder
    <3> QED BY <2>5, <3>1, <3>2
  <2> QED BY <2>5, <2>6, <2>7
<1> QED BY <1>1, <1>2 DEF OfferSlot

\* What QueueFair says of a step.
Fair ==
    \A a, b \in Fd : Before(wq, a, b) =>
        /\ fn'[b] = "login" => a \notin Elems(wq')
        /\ {a, b} \subseteq Elems(wq') => Before(wq', a, b)

\* A disconnect moves the queue as QueueFair says.
LEMMA DisconnectFair ==
    ASSUME NEW fd \in Fd,
           Sound(wq, Numwaiting, Numplayers, fn, counted),
           disconnect(fd)
    PROVE  Fair
<1> DEFINE f == Mark(fn, {fd}, "closed")
           n == Release(Numplayers, fd)
           c == counted \ {fd}
<1>1. \/ /\ \A i \in 1..Len(wq) : wq[i] # fd
         /\ OfferSlot(wq, Numwaiting, n, f, c)
      \/ \E i \in 1..Len(wq) :
           /\ wq[i] = fd
           /\ OfferSlot(DropTag(wq, i), Numwaiting - 1, n, f, c)
  BY DEF disconnect
<1>2. /\ (\A i \in 1..Len(wq) : wq[i] # fd) => Sound(wq, Numwaiting, n, f, c)
      /\ \A i \in 1..Len(wq) :
           wq[i] = fd => Sound(DropTag(wq, i), Numwaiting - 1, n, f, c)
  BY DisconnectMiddle DEF Elems
<1>3. f[fd] = "closed"
  BY DEF Mark, Sound
<1> HIDE DEF f, n, c
<1>4. CASE /\ \A i \in 1..Len(wq) : wq[i] # fd
           /\ OfferSlot(wq, Numwaiting, n, f, c)
  BY <1>2, <1>4, OfferSlotFair DEF Fair
<1>5. ASSUME NEW i \in 1..Len(wq), wq[i] = fd,
             OfferSlot(DropTag(wq, i), Numwaiting - 1, n, f, c)
      PROVE  Fair
  <2> DEFINE q == DropTag(wq, i)
  <2>1. wq \in Seq(Fd) /\ Distinct(wq)
    BY DEF Sound
  <2>2. Elems(q) = Elems(wq) \ {fd}
    BY <1>5, <2>1, QueueWithout
  <2>3. ASSUME NEW a, NEW b, Before(wq, a, b), a # fd, b # fd PROVE Before(q, a, b)
    BY <1>5, <2>1, <2>3, WithoutOrder
  <2>4. Sound(q, Numwaiting - 1, n, f, c) /\ OfferSlot(q, Numwaiting - 1, n, f, c)
    BY <1>2, <1>5
  <2> HIDE DEF q
  <2>5. /\ Elems(wq') \subseteq Elems(q)
        /\ \A x \in Fd \ Elems(q) : fn'[x] = f[x]
        /\ \A a, b : Before(q, a, b) =>
             /\ fn'[b] = "login" => a \notin Elems(wq')
             /\ {a, b} \subseteq Elems(wq') => Before(wq', a, b)
    BY <2>4, OfferSlotFair
  <2>6. fd \notin Elems(wq') /\ fn'[fd] = "closed"
    BY <1>3, <2>2, <2>5
  <2>7. ASSUME NEW a \in Fd, NEW b \in Fd, Before(wq, a, b)
        PROVE  /\ fn'[b] = "login" => a \notin Elems(wq')
               /\ {a, b} \subseteq Elems(wq') => Before(wq', a, b)
    <3>1. CASE a = fd \/ b = fd
      BY <2>6, <3>1
    <3>2. CASE a # fd /\ b # fd
      BY <2>3, <2>5, <2>7, <3>2
    <3> QED BY <3>1, <3>2
  <2> QED BY <2>7 DEF Fair
<1> QED BY <1>1, <1>4, <1>5

\* So does every step of a running server.
LEMMA NextFair == IInv /\ [Next]_vars => (up' => Fair)
<1> SUFFICES ASSUME IInv, [Next]_vars, up' PROVE Fair
  OBVIOUS
<1>0. Sound(wq, Numwaiting, Numplayers, fn, counted)
  BY DEF IInv
<1>1. \A a, b : Before(wq, a, b) => b \in Elems(wq) /\ fn[b] = "waiting"
  BY <1>0 DEF Before, Elems, Sound, Waits
<1>2. CASE AcceptRefused
  <2>1. OfferSlot(wq, Numwaiting, Numplayers, fn, counted)
    BY <1>2 DEF AcceptRefused
  <2> QED BY <1>0, <2>1, OfferSlotFair DEF Fair
<1>3. CASE AcceptQueued
  <2>1. PICK fd \in Fd :
          fd \notin Open /\ wq' = Append(wq, fd) /\ fn' = [fn EXCEPT ![fd] = "waiting"]
    BY <1>3 DEF AcceptQueued, Accepted
  <2>2. wq \in Seq(Fd) /\ fn \in [Fd -> {"closed", "waiting", "login"}]
    BY <1>0 DEF Sound
  <2>3. Len(wq') = Len(wq) + 1 /\ \A i \in 1..Len(wq) : wq'[i] = wq[i]
    BY <2>1, <2>2
  <2>4. \A a, b : Before(wq, a, b) => Before(wq', a, b)
    BY <2>2, <2>3 DEF Before
  <2>5. \A b : fn[b] = "waiting" => fn'[b] # "login"
    BY <2>1, <2>2
  <2> QED BY <1>1, <2>4, <2>5 DEF Fair
<1>4. CASE AcceptAdmitted
  <2>1. PICK fd \in Fd : fd \notin Open /\ wq' = wq /\ fn' = [fn EXCEPT ![fd] = "login"]
    BY <1>4 DEF AcceptAdmitted, Accepted
  <2>2. \A b : fn[b] = "waiting" => fn'[b] # "login"
    BY <1>0, <2>1 DEF Open, Sound
  <2> QED BY <1>1, <2>1, <2>2 DEF Fair
<1>5. CASE Halt
  BY <1>5 DEF Halt
<1>6. CASE \E fd \in Fd : disconnect(fd)
  BY <1>0, <1>6, DisconnectFair
<1>7. CASE UNCHANGED <<fn, wq>>
  BY <1>1, <1>7 DEF Fair
<1> QED
  BY <1>2, <1>3, <1>4, <1>5, <1>6, <1>7
     DEF Next, Poll, AcceptFatal, ServeInput, ServeClosed, EndSession, PeerLeaves, Restart,
         Open, vars

\* Nobody overtakes in the queue: those who stay keep their order, and who is
\* let in was ahead of everybody who stays.
THEOREM NobodyOvertakes == Spec => QueueFair
<1>1. IInv /\ [Next]_vars =>
        [ up' => \A a, b \in Fd :
           (\E i, j \in 1..Len(wq) : i < j /\ wq[i] = a /\ wq[j] = b)
              => /\ fn'[b] = "login" => a \notin Elems(wq')
                 /\ {a, b} \subseteq Elems(wq') =>
                      \E i, j \in 1..Len(wq') : i < j /\ wq'[i] = a /\ wq'[j] = b
        ]_vars
  BY NextFair DEF Fair, Before
<1> QED BY <1>1, AlwaysIInv, PTL DEF Spec, QueueFair

=============================================================================
