------------------------------ MODULE WireProofs ------------------------------
(***************************************************************************)
(* The input ring holds the text that has not been handled                 *)
(* (RingHoldsText), a command is a line (OneCommandPerLine), and no line   *)
(* is left uncounted (NoLineStuck), for a ring of any size and a counter   *)
(* of any width.                                                           *)
(*                                                                         *)
(* Sound relates the cells between tail and head to the text, and commands *)
(* to its newlines, but for the slips the code is known to make; Whole     *)
(* says that every % in it is doubled, so that a backspace that takes two  *)
(* cells takes one character. Both are kept by Put, Erase and Count, so by *)
(* Accept, which takes one character, so by accept_input, whose loop is    *)
(* taken by induction on the characters of a read.                         *)
(***************************************************************************)
EXTENDS Wire, SequenceTheorems, FiniteSetTheorems, WellFoundedInduction, TLAPS

-----------------------------------------------------------------------------
(* Arithmetic around the end of the array.                                 *)

\* The remainder of what is less than one turn away.
LEMMA Wrap ==
    ASSUME NEW n \in Nat \ {0}, NEW a \in Int, -n <= a, a < 2 * n
    PROVE  a % n = IF a < 0 THEN a + n ELSE IF a < n THEN a ELSE a - n
<1>1. a = n * (a \div n) + (a % n) /\ a % n \in 0..n - 1 /\ a \div n \in Int
  OBVIOUS
<1> DEFINE q == a \div n
<1>2. q \in {-1, 0, 1}
  <2>1. q < 2
    <3> SUFFICES ASSUME q >= 2 PROVE FALSE
      BY <1>1
    <3>1. n * q >= n * 2
      BY <1>1
    <3> QED BY <1>1, <3>1
  <2>2. q > -2
    <3> SUFFICES ASSUME q <= -2 PROVE FALSE
      BY <1>1
    <3>1. n * q <= n * (-2)
      BY <1>1
    <3> QED BY <1>1, <3>1
  <2> QED BY <1>1, <2>1, <2>2
<1> HIDE DEF q
<1>3. CASE q = -1
  BY <1>1, <1>3 DEF q
<1>4. CASE q = 0
  BY <1>1, <1>4 DEF q
<1>5. CASE q = 1
  BY <1>1, <1>5 DEF q
<1> QED BY <1>2, <1>3, <1>4, <1>5

-----------------------------------------------------------------------------
(* The ring.                                                               *)

Rings ==
    [input : [0..IBUFSIZE - 1 -> Stored \cup {"unset"}],
     head : 0..IBUFSIZE - 1, tail : 0..IBUFSIZE - 1, commands : 0..CharSize - 1,
     text : Seq(Stored), slips : SUBSET Slip, last : Typed \cup {"none"}]

\* The slot of the k-th character of the ring.
Slot(s, k) == (s.tail + k - 1) % IBUFSIZE

Holds(s) ==
    /\ Len(s.text) = Pending(s)
    /\ \A k \in 1..Pending(s) : s.input[Slot(s, k)] = s.text[k]

\* What the constants are.
LEMMA Sizes == /\ IBUFSIZE \in Nat /\ IBUFSIZE > 2
               /\ CharSize \in Nat /\ CharSize > 2
               /\ Dropped \in Nat /\ Dropped = CharSize - 1
  BY WireAssumption DEF WireAssumption, Dropped

\* How many characters the ring holds.
LEMMA PendingValue ==
    ASSUME NEW s \in Rings
    PROVE  /\ Pending(s) = IF s.tail <= s.head THEN s.head - s.tail
                                              ELSE s.head - s.tail + IBUFSIZE
           /\ Pending(s) \in 0..IBUFSIZE - 1
<1>1. s.head \in 0..IBUFSIZE - 1 /\ s.tail \in 0..IBUFSIZE - 1
  BY DEF Rings
<1>2. /\ s.head - s.tail \in Int /\ IBUFSIZE \in Nat \ {0}
      /\ -IBUFSIZE <= s.head - s.tail /\ s.head - s.tail < 2 * IBUFSIZE
  BY <1>1, Sizes
<1>3. Pending(s) = IF s.head - s.tail < 0 THEN s.head - s.tail + IBUFSIZE
                   ELSE IF s.head - s.tail < IBUFSIZE THEN s.head - s.tail
                   ELSE s.head - s.tail - IBUFSIZE
  BY <1>2, Wrap DEF Pending
<1> QED BY <1>1, <1>3, Sizes

\* The cell of its k-th character; the head's cell is the one after the last.
LEMMA SlotValue ==
    ASSUME NEW s \in Rings, NEW k \in 1..IBUFSIZE
    PROVE  /\ Slot(s, k) = IF s.tail + k - 1 < IBUFSIZE THEN s.tail + k - 1
                                                       ELSE s.tail + k - 1 - IBUFSIZE
           /\ Slot(s, k) \in 0..IBUFSIZE - 1
           /\ k <= Pending(s) => Slot(s, k) # s.head
           /\ k = Pending(s) + 1 => Slot(s, k) = s.head
<1>1. s.head \in 0..IBUFSIZE - 1 /\ s.tail \in 0..IBUFSIZE - 1 /\ k \in Nat
  BY Sizes DEF Rings
<1> DEFINE a == s.tail + k - 1
<1>2. /\ a \in Int /\ IBUFSIZE \in Nat \ {0}
      /\ -IBUFSIZE <= a /\ a < 2 * IBUFSIZE /\ ~(a < 0)
  BY <1>1, Sizes
<1> HIDE DEF a
<1>3. a % IBUFSIZE = IF a < IBUFSIZE THEN a ELSE a - IBUFSIZE
  BY <1>2, Wrap
<1>4. Slot(s, k) = a % IBUFSIZE
  BY DEF Slot, a
<1>5. Slot(s, k) = IF a < IBUFSIZE THEN a ELSE a - IBUFSIZE
  BY <1>3, <1>4
<1> QED BY <1>1, <1>5, Sizes, PendingValue DEF a

\* The cell after cell i.
LEMMA Next1 ==
    ASSUME NEW i \in 0..IBUFSIZE - 1
    PROVE  /\ (i + 1) % IBUFSIZE = IF i + 1 < IBUFSIZE THEN i + 1 ELSE 0
           /\ (i + 1) % IBUFSIZE \in 0..IBUFSIZE - 1
<1> DEFINE a == i + 1
<1>1. /\ a \in Int /\ IBUFSIZE \in Nat \ {0}
      /\ -IBUFSIZE <= a /\ a < 2 * IBUFSIZE /\ ~(a < 0)
  BY Sizes
<1> HIDE DEF a
<1>2. a % IBUFSIZE = IF a < IBUFSIZE THEN a ELSE a - IBUFSIZE
  BY <1>1, Wrap
<1> DEFINE r == a % IBUFSIZE
<1> HIDE DEF r
<1>3. r = (IF i + 1 < IBUFSIZE THEN i + 1 ELSE 0) /\ r \in 0..IBUFSIZE - 1
  BY <1>2, Sizes DEF a, r
<1> QED BY <1>3, Zenon DEF a, r

\* What Put does to each field.
LEMMA PutFields ==
    ASSUME NEW s \in Rings, NEW c \in Stored
    PROVE  LET t == Put(s, c)
               full == Pending(s) = IBUFSIZE - 1
           IN /\ t \in Rings
              /\ t.input = [s.input EXCEPT ![s.head] = c]
              /\ t.head = (s.head + 1) % IBUFSIZE
              /\ t.tail = IF full THEN (s.tail + 1) % IBUFSIZE ELSE s.tail
              /\ t.text = IF full THEN Tail(Append(s.text, c)) ELSE Append(s.text, c)
              /\ t.slips = IF full /\ Head(Append(s.text, c)) = "LF"
                           THEN s.slips \cup {"overrun"} ELSE s.slips
              /\ t.commands = s.commands /\ t.last = s.last
<1> DEFINE full == Pending(s) = IBUFSIZE - 1
           cells == [s.input EXCEPT ![s.head] = c]
           head == (s.head + 1) % IBUFSIZE
           tail == IF full THEN (s.tail + 1) % IBUFSIZE ELSE s.tail
           rest == IF full THEN Tail(Append(s.text, c)) ELSE Append(s.text, c)
           slip == IF full /\ Head(Append(s.text, c)) = "LF"
                    THEN s.slips \cup {"overrun"} ELSE s.slips
           u == PutFull(s, c)
<1>1. /\ s.input \in [0..IBUFSIZE - 1 -> Stored \cup {"unset"}]
      /\ s.head \in 0..IBUFSIZE - 1 /\ s.tail \in 0..IBUFSIZE - 1
      /\ s.commands \in 0..CharSize - 1 /\ s.text \in Seq(Stored)
      /\ s.slips \in SUBSET Slip /\ s.last \in Typed \cup {"none"}
  BY DEF Rings
<1>2. cells \in [0..IBUFSIZE - 1 -> Stored \cup {"unset"}]
  BY <1>1
<1>3. head \in 0..IBUFSIZE - 1 /\ tail \in 0..IBUFSIZE - 1
  BY <1>1, Next1
<1>4. rest \in Seq(Stored)
  <2>1. Append(s.text, c) \in Seq(Stored) /\ Append(s.text, c) # <<>>
    BY <1>1, AppendProperties
  <2> QED BY <2>1, HeadTailProperties
<1>5. slip \in SUBSET Slip
  BY <1>1 DEF Slip
<1>6. u.input = cells /\ u.head = head /\ u.text = rest /\ u.slips = slip
      /\ u.tail = s.tail /\ u.commands = s.commands /\ u.last = s.last
  BY <1>1 DEF PutFull, Rings
<1>7. Put(s, c) = [u EXCEPT !.tail = tail]
  BY <1>6, Zenon DEF Put
<1> HIDE DEF cells, head, tail, rest, slip
<1> DEFINE v == Put(s, c)
<1>8. u \in Rings
  BY <1>1, <1>2, <1>3, <1>4, <1>5, <1>6 DEF PutFull, Rings
<1> HIDE DEF u
<1>9. v \in Rings /\ v.tail = tail /\ v.input = u.input /\ v.head = u.head
      /\ v.text = u.text /\ v.slips = u.slips /\ v.commands = u.commands
      /\ v.last = u.last
  BY <1>8, <1>7, <1>3 DEF Rings
<1> HIDE DEF v
<1> QED BY <1>6, <1>9 DEF v, cells, head, tail, rest, slip

\* One more slot, or the next slot after the tail has moved.
LEMMA Shifted ==
    ASSUME NEW s \in Rings, NEW t \in Rings, NEW e \in 0..IBUFSIZE - 1,
           t.tail = IF s.tail + e < IBUFSIZE THEN s.tail + e
                                             ELSE s.tail + e - IBUFSIZE,
           NEW k \in 1..IBUFSIZE, k + e <= IBUFSIZE
    PROVE  Slot(t, k) = Slot(s, k + e)
<1>1. k + e \in 1..IBUFSIZE
  BY Sizes
<1>2. Slot(s, k + e) = IF s.tail + (k + e) - 1 < IBUFSIZE THEN s.tail + (k + e) - 1
                       ELSE s.tail + (k + e) - 1 - IBUFSIZE
  BY <1>1, SlotValue
<1>3. Slot(t, k) = IF t.tail + k - 1 < IBUFSIZE THEN t.tail + k - 1
                   ELSE t.tail + k - 1 - IBUFSIZE
  BY SlotValue
<1>4. s.tail \in 0..IBUFSIZE - 1
  BY DEF Rings
<1> QED BY <1>2, <1>3, <1>4, Sizes

\* A character is put after the others; in a full ring the oldest goes.
LEMMA PutHolds ==
    ASSUME NEW s \in Rings, NEW c \in Stored
    PROVE  /\ Pending(Put(s, c)) = IF Pending(s) = IBUFSIZE - 1 THEN Pending(s)
                                                               ELSE Pending(s) + 1
           /\ Len(s.text) <= Pending(s) => Len(Put(s, c).text) <= Pending(Put(s, c))
           /\ Holds(s) => Holds(Put(s, c))
<1> DEFINE t == Put(s, c)
           full == Pending(s) = IBUFSIZE - 1
<1>1. /\ t \in Rings
      /\ t.input = [s.input EXCEPT ![s.head] = c]
      /\ t.head = (s.head + 1) % IBUFSIZE
      /\ t.tail = IF full THEN (s.tail + 1) % IBUFSIZE ELSE s.tail
      /\ t.text = IF full THEN Tail(Append(s.text, c)) ELSE Append(s.text, c)
  BY PutFields, Zenon
<1> HIDE DEF t
<1>2. /\ s.input \in [0..IBUFSIZE - 1 -> Stored \cup {"unset"}]
      /\ s.head \in 0..IBUFSIZE - 1 /\ s.tail \in 0..IBUFSIZE - 1
      /\ s.text \in Seq(Stored)
  BY DEF Rings
<1>3. t.head = (IF s.head + 1 < IBUFSIZE THEN s.head + 1 ELSE 0)
  BY <1>1, <1>2, Next1
<1>4. t.tail = IF full THEN (IF s.tail + 1 < IBUFSIZE THEN s.tail + 1 ELSE 0) ELSE s.tail
  BY <1>1, <1>2, Next1
<1>5. Pending(t) = IF full THEN Pending(s) ELSE Pending(s) + 1
  <2>1. Pending(s) = IF s.tail <= s.head THEN s.head - s.tail
                                        ELSE s.head - s.tail + IBUFSIZE
    BY PendingValue
  <2>2. Pending(t) = IF t.tail <= t.head THEN t.head - t.tail
                                        ELSE t.head - t.tail + IBUFSIZE
    BY <1>1, PendingValue
  <2>3. s.head \in Int /\ s.tail \in Int /\ IBUFSIZE \in Int /\ IBUFSIZE > 2
        /\ 0 <= s.head /\ s.head < IBUFSIZE /\ 0 <= s.tail /\ s.tail < IBUFSIZE
    BY <1>2, Sizes
  <2> HIDE DEF full
  <2>4. CASE full
    BY <2>1, <2>2, <2>3, <2>4, <1>3, <1>4 DEF full
  <2>5. CASE ~full
    BY <2>1, <2>2, <2>3, <2>5, <1>3, <1>4 DEF full
  <2> QED BY <2>4, <2>5
<1>6. /\ Append(s.text, c) \in Seq(Stored)
      /\ Len(Append(s.text, c)) = Len(s.text) + 1
      /\ Append(s.text, c)[Len(s.text) + 1] = c
      /\ \A k \in 1..Len(s.text) : Append(s.text, c)[k] = s.text[k]
      /\ Len(s.text) \in Nat
  BY <1>2, AppendProperties
<1>7. /\ Len(Tail(Append(s.text, c))) = Len(s.text)
      /\ \A k \in 1..Len(s.text) : Tail(Append(s.text, c))[k] = Append(s.text, c)[k + 1]
  BY <1>6, HeadTailProperties
<1>8. Len(s.text) <= Pending(s) => Len(t.text) <= Pending(t)
  BY <1>1, <1>5, <1>6, <1>7, PendingValue
<1>9. Holds(s) => Holds(t)
  <2> SUFFICES ASSUME Holds(s) PROVE Holds(t)
    OBVIOUS
  <2>1. Pending(s) \in Nat /\ Pending(s) < IBUFSIZE /\ Len(s.text) = Pending(s)
    BY PendingValue, Sizes DEF Holds
  <2>2. Len(t.text) = Pending(t)
    BY <2>1, <1>1, <1>5, <1>6, <1>7
  <2>3. ASSUME NEW k \in 1..Pending(t) PROVE t.input[Slot(t, k)] = t.text[k]
    <3> DEFINE j == IF full THEN k + 1 ELSE k
    <3>1. k \in 1..IBUFSIZE /\ j \in 1..Pending(s) + 1 /\ j \in 1..IBUFSIZE
      BY <2>1, <1>5, Sizes
    <3>2. Slot(t, k) = Slot(s, j)
      <4>1. CASE full
        <5>1. 1 \in 0..IBUFSIZE - 1 /\ k + 1 <= IBUFSIZE
              /\ t.tail = IF s.tail + 1 < IBUFSIZE THEN s.tail + 1
                                                   ELSE s.tail + 1 - IBUFSIZE
          BY <4>1, <1>2, <1>4, <2>1, <1>5, Sizes
        <5> QED BY <5>1, <3>1, <1>1, <4>1, Shifted
      <4>2. CASE ~full
        BY <4>2, <1>4, Zenon DEF Slot
      <4> QED BY <4>1, <4>2
    <3>3. t.text[k] = IF j = Pending(s) + 1 THEN c ELSE s.text[j]
      BY <1>1, <1>5, <1>6, <1>7, <2>1, <3>1
    <3>4. CASE j = Pending(s) + 1
      <4>1. Slot(s, j) = s.head
        BY <3>1, <3>4, SlotValue
      <4> HIDE DEF j
      <4> QED BY <4>1, <3>2, <3>3, <3>4, <1>1, <1>2
    <3>5. CASE j # Pending(s) + 1
      <4>1. j \in 1..Pending(s)
        BY <3>1, <3>5, <2>1
      <4>2. Slot(s, j) # s.head /\ Slot(s, j) \in 0..IBUFSIZE - 1
        BY <3>1, <4>1, SlotValue
      <4>3. s.input[Slot(s, j)] = s.text[j]
        BY <4>1 DEF Holds
      <4> HIDE DEF j
      <4> QED BY <4>2, <4>3, <3>2, <3>3, <3>5, <1>1, <1>2
    <3> QED BY <3>4, <3>5
  <2> QED BY <2>2, <2>3 DEF Holds
<1> QED BY <1>5, <1>8, <1>9 DEF t

\* A text without its last character.
LEMMA FrontProperties ==
    ASSUME NEW T, NEW q \in Seq(T)
    PROVE  /\ Front(q) \in Seq(T)
           /\ Len(Front(q)) = IF q = <<>> THEN 0 ELSE Len(q) - 1
           /\ \A k \in 1..Len(q) - 1 : Front(q)[k] = q[k]
<1>1. CASE q = <<>>
  BY <1>1 DEF Front
<1>2. CASE q # <<>>
  <2>1. Len(q) \in Nat /\ Len(q) >= 1
    BY <1>2, EmptySeq
  <2>2. \A k \in 1..Len(q) - 1 : q[k] \in T
    BY <2>1, ElementOfSeq
  <2>3. /\ SubSeq(q, 1, Len(q) - 1) \in Seq(T)
        /\ Len(SubSeq(q, 1, Len(q) - 1)) = Len(q) - 1
        /\ \A k \in 1..Len(q) - 1 : SubSeq(q, 1, Len(q) - 1)[k] = q[k]
    <3> DEFINE m == Len(q) - 1
    <3>1. m \in Nat /\ 1 \in Int /\ m \in Int /\ \A k \in 1..m : q[k] \in T
      BY <2>1, <2>2
    <3> HIDE DEF m
    <3>2. /\ SubSeq(q, 1, m) \in Seq(T)
          /\ Len(SubSeq(q, 1, m)) = IF 1 <= m THEN m - 1 + 1 ELSE 0
          /\ \A k \in 1..m - 1 + 1 : SubSeq(q, 1, m)[k] = q[1 + k - 1]
      BY <3>1, SubSeqProperties
    <3>3. Len(SubSeq(q, 1, m)) = m /\ \A k \in 1..m : SubSeq(q, 1, m)[k] = q[k]
      BY <3>1, <3>2
    <3> QED BY <3>2, <3>3 DEF m
  <2> QED BY <1>2, <2>3 DEF Front
<1> QED BY <1>1, <1>2

\* What Erase does, when the ring is not empty and when no % is torn.
LEMMA EraseFields ==
    ASSUME NEW s \in Rings, s.head # s.tail, Len(s.text) <= Pending(s)
    PROVE  LET t == Erase(s)
               last == s.input[Slot(s, Pending(s))]
               n == IF last = "%" THEN 2 ELSE 1
           IN /\ t \in Rings
              /\ s.slips \subseteq t.slips
              /\ Len(t.text) <= Pending(t)
              /\ t.commands = s.commands
              /\ t.slips \ {"torn", "erased"} = s.slips \ {"torn", "erased"}
              /\ last = "LF" => "erased" \in t.slips
              /\ "torn" \notin t.slips =>
                   /\ n <= Pending(s) /\ Pending(t) = Pending(s) - n
                   /\ t.input = s.input /\ t.tail = s.tail
                   /\ t.text = IF n = 2 THEN Front(Front(s.text)) ELSE Front(s.text)
<1> DEFINE t == Erase(s)
           prev == IF s.head - 1 < 0 THEN IBUFSIZE - 1 ELSE s.head - 1
           two == s.input[prev] = "%"
           torn == two /\ Pending(s) = 1
           back == s.head - (IF two THEN 2 ELSE 1)
           head == IF back < 0 THEN IBUFSIZE + back ELSE back
           rest == IF torn \/ ~two THEN Front(s.text) ELSE Front(Front(s.text))
           slip == s.slips \cup (IF torn THEN {"torn"} ELSE {})
                            \cup (IF s.input[prev] = "LF" THEN {"erased"} ELSE {})
<1>1. /\ s.input \in [0..IBUFSIZE - 1 -> Stored \cup {"unset"}]
      /\ s.head \in 0..IBUFSIZE - 1 /\ s.tail \in 0..IBUFSIZE - 1
      /\ s.commands \in 0..CharSize - 1 /\ s.text \in Seq(Stored)
      /\ s.slips \in SUBSET Slip /\ s.last \in Typed \cup {"none"}
  BY DEF Rings
<1>2. head \in 0..IBUFSIZE - 1
  BY <1>1, Sizes
<1>3. rest \in Seq(Stored) /\ Len(rest) \in Nat
      /\ (Len(rest) = 0 \/ Len(rest) = Len(s.text) - (IF torn \/ ~two THEN 1 ELSE 2))
  <2>1. Front(s.text) \in Seq(Stored) /\ Len(Front(s.text)) \in Nat
        /\ (Len(Front(s.text)) = 0 \/ Len(Front(s.text)) = Len(s.text) - 1)
    BY <1>1, FrontProperties, EmptySeq
  <2>2. Front(Front(s.text)) \in Seq(Stored) /\ Len(Front(Front(s.text))) \in Nat
        /\ (Len(Front(Front(s.text))) = 0
            \/ Len(Front(Front(s.text))) = Len(Front(s.text)) - 1)
    BY <2>1, FrontProperties, EmptySeq
  <2>3. Len(s.text) \in Nat
    BY <1>1
  <2> HIDE DEF two, torn
  <2> QED BY <2>1, <2>2, <2>3
<1>4. slip \in SUBSET Slip
  BY <1>1 DEF Slip
<1>5. t = [s EXCEPT !.head = head, !.text = rest, !.slips = slip]
  BY <1>1, Zenon DEF Erase, Rings
<1> HIDE DEF head, rest, slip, t
<1>6. t \in Rings /\ t.head = head /\ t.text = rest /\ t.slips = slip
      /\ t.input = s.input /\ t.tail = s.tail /\ t.commands = s.commands
  BY <1>1, <1>2, <1>3, <1>4, <1>5 DEF Rings
<1>7. Pending(s) \in 1..IBUFSIZE - 1
      /\ Pending(s) = IF s.tail <= s.head THEN s.head - s.tail
                                          ELSE s.head - s.tail + IBUFSIZE
  BY <1>1, PendingValue, Sizes
<1>8. prev = Slot(s, Pending(s))
  <2>1. Pending(s) \in 1..IBUFSIZE
    BY <1>7, Sizes
  <2>2. Slot(s, Pending(s)) = IF s.tail + Pending(s) - 1 < IBUFSIZE
                              THEN s.tail + Pending(s) - 1
                              ELSE s.tail + Pending(s) - 1 - IBUFSIZE
    BY <2>1, SlotValue
  <2> QED BY <2>2, <1>1, <1>7, Sizes, SMTT(30)
<1>9. Pending(t) = IF torn THEN IBUFSIZE - 1
                   ELSE Pending(s) - (IF two THEN 2 ELSE 1)
  <2>1. Pending(t) = IF t.tail <= t.head THEN t.head - t.tail
                                         ELSE t.head - t.tail + IBUFSIZE
    BY <1>6, PendingValue
  <2> DEFINE a == IF two THEN 2 ELSE 1
  <2>2. t.head = IF s.head - a < 0 THEN IBUFSIZE + (s.head - a) ELSE s.head - a
    BY <1>6 DEF head
  <2>3. a \in {1, 2} /\ torn = (a = 2 /\ Pending(s) = 1)
    OBVIOUS
  <2> HIDE DEF a, two, torn
  <2>4. torn <=> (a = 2 /\ Pending(s) = 1)
    BY <2>3
  <2>5. Pending(t) = IF a = 2 /\ Pending(s) = 1 THEN IBUFSIZE - 1 ELSE Pending(s) - a
    <3>1. /\ s.head \in Int /\ s.tail \in Int /\ IBUFSIZE \in Int /\ IBUFSIZE > 2
          /\ 0 <= s.head /\ s.head < IBUFSIZE /\ 0 <= s.tail /\ s.tail < IBUFSIZE
          /\ t.tail = s.tail /\ s.head # s.tail
      BY <1>1, <1>6, Sizes
    <3> HIDE DEF back
    <3>2. CASE a = 1
      BY <3>1, <3>2, <1>7, <2>1, <2>2, SMTT(30)
    <3>3. CASE a = 2
      BY <3>1, <3>3, <1>7, <2>1, <2>2, SMTT(30)
    <3> QED BY <3>2, <3>3, <2>3
  <2> QED BY <2>4, <2>5 DEF a
<1>10. Len(t.text) <= Pending(t)
  BY <1>1, <1>3, <1>6, <1>7, <1>9, Sizes, SMTT(30)
<1>11. torn <=> (two /\ Pending(s) = 1)
  OBVIOUS
<1> DEFINE last == s.input[Slot(s, Pending(s))]
<1>12. two <=> last = "%"
  BY <1>8
<1>13. last = "LF" => "erased" \in slip
  BY <1>8 DEF slip
<1>14. torn => "torn" \in slip
  BY DEF slip
<1>15. slip \ {"torn", "erased"} = s.slips \ {"torn", "erased"}
       /\ s.slips \subseteq slip
  BY DEF slip
<1>16. ~torn => rest = IF two THEN Front(Front(s.text)) ELSE Front(s.text)
  BY DEF rest
<1> DEFINE n == IF last = "%" THEN 2 ELSE 1
<1>17. n \in {1, 2} /\ (two <=> n = 2)
  BY <1>12
<1> HIDE DEF two, torn, last, n
<1>18. "torn" \notin t.slips =>
        /\ n <= Pending(s) /\ Pending(t) = Pending(s) - n
        /\ t.input = s.input /\ t.tail = s.tail
        /\ t.text = IF n = 2 THEN Front(Front(s.text)) ELSE Front(s.text)
  BY <1>6, <1>7, <1>9, <1>11, <1>14, <1>16, <1>17
<1> QED BY <1>6, <1>10, <1>13, <1>15, <1>18 DEF t, n, last

-----------------------------------------------------------------------------
(* The rest: how many lines it ends, and its doubled %s.                   *)

LFAt(q) == {k \in DOMAIN q : q[k] = "LF"}
LFs(q) == Cardinality(LFAt(q))

\* A text without its first characters.
LEMMA SuffixProperties ==
    ASSUME NEW T, NEW q \in Seq(T), NEW e \in 0..Len(q)
    PROVE  LET r == SubSeq(q, e + 1, Len(q))
           IN /\ r \in Seq(T) /\ Len(r) = Len(q) - e
              /\ \A k \in 1..Len(q) - e : r[k] = q[k + e]
<1> DEFINE L == Len(q)
           d == e + 1
           r == SubSeq(q, d, L)
<1>1. L \in Nat /\ e \in 0..L /\ L \in Int /\ d \in Int /\ d = e + 1
  OBVIOUS
<1>2. \A i \in d..L : q[i] \in T
  BY <1>1, ElementOfSeq
<1> HIDE DEF L, d
<1>3. /\ SubSeq(q, d, L) \in Seq(T)
      /\ Len(SubSeq(q, d, L)) = IF d <= L THEN L - d + 1 ELSE 0
      /\ \A k \in 1..L - d + 1 : SubSeq(q, d, L)[k] = q[d + k - 1]
  BY <1>1, <1>2, SubSeqProperties
<1>4. r \in Seq(T) /\ Len(r) = L - e /\ \A k \in 1..L - e : r[k] = q[k + e]
  BY <1>1, <1>3
<1> QED BY <1>4 DEF L, d

\* Newlines are counted by a number.
LEMMA FiniteLFs ==
    ASSUME NEW q \in Seq(Stored)
    PROVE  /\ LFAt(q) \subseteq 1..Len(q) /\ IsFiniteSet(LFAt(q)) /\ LFs(q) \in Nat
           /\ LFs(q) > 0 <=> \E k \in 1..Len(q) : q[k] = "LF"
<1>1. DOMAIN q = 1..Len(q) /\ Len(q) \in Nat
  OBVIOUS
<1>2. IsFiniteSet(1..Len(q))
  BY <1>1, FS_Interval
<1>3. LFAt(q) \subseteq 1..Len(q)
  BY <1>1 DEF LFAt
<1>4. IsFiniteSet(LFAt(q)) /\ LFs(q) \in Nat
  BY <1>2, <1>3, FS_Subset, FS_CardinalityType DEF LFs
<1>5. LFs(q) = 0 <=> LFAt(q) = {}
  BY <1>4, FS_EmptySet DEF LFs
<1>6. LFAt(q) # {} <=> \E k \in 1..Len(q) : q[k] = "LF"
  BY <1>1 DEF LFAt
<1> QED BY <1>3, <1>4, <1>5, <1>6

\* One more character,
LEMMA AppendLFs ==
    ASSUME NEW q \in Seq(Stored), NEW c \in Stored
    PROVE  LFs(Append(q, c)) = LFs(q) + (IF c = "LF" THEN 1 ELSE 0)
<1> DEFINE L == Len(q)
           r == Append(q, c)
<1>1. /\ L \in Nat /\ DOMAIN q = 1..L /\ DOMAIN r = 1..L + 1 /\ r[L + 1] = c
      /\ \A k \in 1..L : r[k] = q[k]
  BY AppendProperties
<1>2. IsFiniteSet(LFAt(q)) /\ LFs(q) \in Nat /\ L + 1 \notin LFAt(q)
  <2>1. IsFiniteSet(LFAt(q)) /\ LFs(q) \in Nat
    BY FiniteLFs
  <2>2. L + 1 \notin LFAt(q)
    BY <1>1 DEF LFAt
  <2> QED BY <2>1, <2>2
<1> HIDE DEF L, r
<1>3. CASE c = "LF"
  <2>1. LFAt(r) = LFAt(q) \cup {L + 1}
    BY <1>1, <1>3 DEF LFAt
  <2>2. Cardinality(LFAt(q) \cup {L + 1}) = Cardinality(LFAt(q)) + 1
    BY <1>2, FS_AddElement
  <2> QED BY <2>1, <2>2, <1>3 DEF LFs, r
<1>4. CASE c # "LF"
  <2>1. LFAt(r) = LFAt(q)
    BY <1>1, <1>4 DEF LFAt
  <2> QED BY <2>1, <1>2, <1>4 DEF LFs, r
<1> QED BY <1>3, <1>4

\* and one less.
LEMMA FrontLFs ==
    ASSUME NEW q \in Seq(Stored), q # <<>>
    PROVE  LFs(Front(q)) = LFs(q) - (IF q[Len(q)] = "LF" THEN 1 ELSE 0)
<1> DEFINE L == Len(q)
           r == Front(q)
<1>1. /\ L \in Nat \ {0} /\ DOMAIN q = 1..L /\ r \in Seq(Stored)
      /\ Len(r) = L - 1 /\ \A k \in 1..L - 1 : r[k] = q[k]
  BY FrontProperties, EmptySeq
<1>2. DOMAIN r = 1..L - 1
  <2> HIDE DEF L, r
  <2>1. DOMAIN r = 1..Len(r)
    BY <1>1, LenProperties
  <2> QED BY <1>1, <2>1
<1>3. IsFiniteSet(LFAt(q)) /\ LFs(q) \in Nat
  BY FiniteLFs
<1> HIDE DEF L, r
<1>4. CASE q[L] = "LF"
  <2>1. LFAt(r) = LFAt(q) \ {L} /\ L \in LFAt(q)
    BY <1>1, <1>2, <1>4 DEF LFAt
  <2>2. Cardinality(LFAt(q) \ {L}) = Cardinality(LFAt(q)) - 1
    BY <1>3, <2>1, FS_RemoveElement
  <2> QED BY <2>1, <2>2, <1>4 DEF LFs, r, L
<1>5. CASE q[L] # "LF"
  <2>1. LFAt(r) = LFAt(q)
    BY <1>1, <1>2, <1>5 DEF LFAt
  <2> QED BY <2>1, <1>3, <1>5 DEF LFs, r, L
<1> QED BY <1>4, <1>5

\* What is left of a text after a part with at most one newline, at its end.
LEMMA SuffixLFs ==
    ASSUME NEW q \in Seq(Stored), NEW e \in 1..Len(q),
           \A k \in 1..e - 1 : q[k] # "LF"
    PROVE  LFs(SubSeq(q, e + 1, Len(q))) = LFs(q) - (IF q[e] = "LF" THEN 1 ELSE 0)
<1> DEFINE L == Len(q)
           r == SubSeq(q, e + 1, L)
<1>1. /\ L \in Nat /\ e \in 1..L /\ DOMAIN q = 1..L /\ r \in Seq(Stored)
      /\ Len(r) = L - e /\ \A k \in 1..L - e : r[k] = q[k + e]
  <2>1. e \in 0..Len(q)
    OBVIOUS
  <2> QED BY <2>1, SuffixProperties
<1>2. DOMAIN r = 1..L - e
  <2> HIDE DEF L, r
  <2>1. DOMAIN r = 1..Len(r)
    BY <1>1, LenProperties
  <2> QED BY <1>1, <2>1
<1>3. /\ IsFiniteSet(LFAt(q)) /\ LFs(q) \in Nat
      /\ IsFiniteSet(LFAt(r)) /\ LFs(r) \in Nat
  BY <1>1, FiniteLFs
<1> HIDE DEF L, r
<1> DEFINE rest == {k \in e + 1..L : q[k] = "LF"}
           shift == [k \in LFAt(r) |-> k + e]
<1>4. shift \in Bijection(LFAt(r), rest)
  <2>1. shift \in [LFAt(r) -> rest]
    BY <1>1, <1>2 DEF LFAt
  <2>2. ASSUME NEW j \in LFAt(r), NEW k \in LFAt(r), shift[j] = shift[k] PROVE j = k
    BY <2>2, <1>1, <1>2 DEF LFAt
  <2>3. ASSUME NEW k \in rest PROVE \E j \in LFAt(r) : shift[j] = k
    <3>1. k - e \in LFAt(r) /\ (k - e) + e = k
      BY <2>3, <1>1, <1>2 DEF LFAt
    <3> QED BY <3>1
  <2> HIDE DEF shift, rest
  <2>4. DOMAIN shift = LFAt(r)
    BY <2>1
  <2> QED BY <2>1, <2>2, <2>3, <2>4 DEF Bijection, Injection, Surjection, IsInjective
<1>5. LFs(r) = Cardinality(rest)
  BY <1>3, <1>4, FS_Bijection DEF LFs, ExistsBijection
<1>6. CASE q[e] = "LF"
  <2>1. rest = LFAt(q) \ {e} /\ e \in LFAt(q)
    BY <1>1, <1>6 DEF LFAt
  <2>2. Cardinality(LFAt(q) \ {e}) = Cardinality(LFAt(q)) - 1
    BY <1>3, <2>1, FS_RemoveElement
  <2> QED BY <1>5, <2>1, <2>2, <1>6 DEF LFs, r, L
<1>7. CASE q[e] # "LF"
  <2>1. rest = LFAt(q)
    BY <1>1, <1>7 DEF LFAt
  <2>2. LFs(r) = LFs(q)
    BY <1>5, <2>1, Zenon DEF LFs
  <2> QED BY <2>2, <1>3, <1>7 DEF r, L
<1> QED BY <1>6, <1>7

\* D holds the second halves of the doubled %s of q, each % up to n that is
\* not one of them is a first half.  A second half at 1 has lost its first.
PairedBy(q, D, n) ==
    /\ D \subseteq 1..Len(q)
    /\ \A k \in D : q[k] = "%" /\ (k >= 2 => q[k - 1] = "%" /\ k - 1 \notin D)
    /\ \A k \in 1..n : q[k] = "%" /\ k \notin D => k + 1 \in D

Paired(q) == \E D \in SUBSET (1..Len(q)) : PairedBy(q, D, Len(q))

\* The last character is the first half of a % that is being doubled.
Half(q) ==
    /\ q # <<>> /\ q[Len(q)] = "%"
    /\ \E D \in SUBSET (1..Len(q) - 1) : PairedBy(q, D, Len(q) - 1)

\* Whether % comes in pairs, after one more character,
LEMMA AppendPaired ==
    ASSUME NEW q \in Seq(Stored), NEW c \in Stored
    PROVE  /\ Paired(q) /\ c # "%" => Paired(Append(q, c))
           /\ Paired(q) /\ c = "%" => Half(Append(q, c))
           /\ Half(q) /\ c = "%" => Paired(Append(q, c))
<1> DEFINE L == Len(q)
           r == Append(q, c)
<1>1. /\ L \in Nat /\ Len(r) = L + 1 /\ r[L + 1] = c /\ r \in Seq(Stored)
      /\ \A k \in 1..L : r[k] = q[k]
  BY AppendProperties
<1>2. r # <<>>
  BY <1>1, EmptySeq
<1>3. ASSUME NEW D \in SUBSET (1..L), PairedBy(q, D, L), c # "%"
      PROVE  PairedBy(r, D, L + 1)
  <2> HIDE DEF L, r
  <2> QED BY <1>1, <1>3 DEF PairedBy, L
<1>4. ASSUME NEW D \in SUBSET (1..L), PairedBy(q, D, L) PROVE PairedBy(r, D, L)
  <2> HIDE DEF L, r
  <2> QED BY <1>1, <1>4 DEF PairedBy, L
<1>5. ASSUME NEW D \in SUBSET (1..L - 1), PairedBy(q, D, L - 1),
             q # <<>>, q[L] = "%", c = "%"
      PROVE  PairedBy(r, D \cup {L + 1}, L + 1)
  <2>1. L >= 1
    BY <1>5, EmptySeq
  <2> HIDE DEF L, r
  <2>2. D \cup {L + 1} \subseteq 1..L + 1 /\ L \notin D
    BY <1>1
  <2>3. \A k \in D : r[k] = "%" /\ (k >= 2 => r[k - 1] = "%" /\ k - 1 \notin D /\ k - 1 # L + 1)
    BY <1>1, <1>5 DEF PairedBy
  <2>4. r[L + 1] = "%" /\ r[L] = "%"
    BY <1>1, <1>5, <2>1
  <2>5. \A k \in 1..L - 1 : r[k] = "%" /\ k \notin D => k + 1 \in D
    BY <1>1, <1>5 DEF PairedBy
  <2> DEFINE E == D \cup {L + 1}
  <2>6. \A k \in E : r[k] = "%" /\ (k >= 2 => r[k - 1] = "%" /\ k - 1 \notin E)
    BY <1>1, <2>1, <2>2, <2>3, <2>4
  <2>7. \A k \in 1..L + 1 : r[k] = "%" /\ k \notin E => k + 1 \in E
    BY <1>1, <2>1, <2>5
  <2> QED BY <1>1, <2>2, <2>6, <2>7 DEF PairedBy
<1>6. Paired(q) /\ c # "%" => Paired(r)
  <2> HIDE DEF r
  <2> QED BY <1>1, <1>3 DEF Paired
<1>7. Paired(q) /\ c = "%" => Half(r)
  <2> HIDE DEF r
  <2>1. ASSUME NEW D \in SUBSET (1..L), PairedBy(q, D, L), c = "%" PROVE Half(r)
    <3>1. D \in SUBSET (1..Len(r) - 1) /\ Len(r) - 1 = L
      BY <1>1
    <3>2. PairedBy(r, D, Len(r) - 1)
      BY <2>1, <3>1, <1>4
    <3> QED BY <3>1, <3>2, <2>1, <1>1, <1>2 DEF Half
  <2> QED BY <2>1 DEF Paired
<1>8. Half(q) /\ c = "%" => Paired(r)
  <2> HIDE DEF r
  <2>1. ASSUME NEW D \in SUBSET (1..L - 1), PairedBy(q, D, L - 1),
               q # <<>>, q[L] = "%", c = "%"
        PROVE  Paired(r)
    <3>1. PairedBy(r, D \cup {L + 1}, L + 1)
      BY <2>1, <1>5
    <3>2. D \cup {L + 1} \in SUBSET (1..L + 1)
      <4>1. L \in Nat
        BY <1>1
      <4> HIDE DEF L
      <4>2. L + 1 \in 1..L + 1 /\ \A d \in 1..L - 1 : d \in 1..L + 1
        BY <4>1
      <4> QED BY <2>1, <4>2
    <3> QED BY <3>1, <3>2, <1>1 DEF Paired
  <2> QED BY <2>1 DEF Half
<1> QED BY <1>6, <1>7, <1>8

\* without the first ones (a pair may be cut),
LEMMA SuffixPaired ==
    ASSUME NEW q \in Seq(Stored), NEW e \in 0..Len(q)
    PROVE  /\ Paired(q) => Paired(SubSeq(q, e + 1, Len(q)))
           /\ Half(q) /\ e < Len(q) => Half(SubSeq(q, e + 1, Len(q)))
<1> DEFINE L == Len(q)
           r == SubSeq(q, e + 1, L)
<1>1. /\ r \in Seq(Stored) /\ Len(r) = L - e /\ L \in Nat /\ e \in 0..L
      /\ \A k \in 1..L - e : r[k] = q[k + e]
  BY SuffixProperties
<1>2. ASSUME NEW n \in {L, L - 1}, NEW D \in SUBSET (1..n), PairedBy(q, D, n)
      PROVE  \E E \in SUBSET (1..n - e) : PairedBy(r, E, n - e)
  <2> HIDE DEF L, r
  <2> DEFINE E == {k \in 1..n - e : k + e \in D}
  <2>1. E \subseteq 1..L - e
    BY <1>1
  <2>2. \A k \in E : r[k] = "%" /\ (k >= 2 => r[k - 1] = "%" /\ k - 1 \notin E)
    <3> SUFFICES ASSUME NEW k \in E
                 PROVE  r[k] = "%" /\ (k >= 2 => r[k - 1] = "%" /\ k - 1 \notin E)
      OBVIOUS
    <3>1. k + e \in D /\ k \in 1..L - e
      BY <1>1
    <3>2. r[k] = "%"
      BY <1>1, <1>2, <3>1 DEF PairedBy
    <3>3. ASSUME k >= 2 PROVE r[k - 1] = "%" /\ k - 1 \notin E
      <4>1. k + e >= 2 /\ (k + e) - 1 = (k - 1) + e /\ k - 1 \in 1..L - e
        BY <3>1, <3>3, <1>1
      <4>2. q[(k + e) - 1] = "%" /\ (k + e) - 1 \notin D
        BY <1>2, <3>1, <4>1 DEF PairedBy
      <4> QED BY <4>1, <4>2, <1>1
    <3> QED BY <3>2, <3>3
  <2>3. \A k \in 1..n - e : r[k] = "%" /\ k \notin E => k + 1 \in E
    <3> SUFFICES ASSUME NEW k \in 1..n - e, r[k] = "%", k \notin E PROVE k + 1 \in E
      OBVIOUS
    <3>1. k + e \in 1..n /\ k \in 1..L - e /\ (k + e) + 1 = (k + 1) + e
      BY <1>1
    <3>2. q[k + e] = "%" /\ k + e \notin D
      BY <3>1, <1>1
    <3>3. (k + e) + 1 \in D
      BY <3>1, <3>2, <1>2 DEF PairedBy
    <3> QED BY <3>1, <3>3, <1>1
  <2> QED BY <1>1, <2>1, <2>2, <2>3 DEF PairedBy
<1>3. Paired(q) => Paired(r)
  <2> HIDE DEF r
  <2>1. L \in {L, L - 1}
    OBVIOUS
  <2> QED BY <1>1, <1>2, <2>1 DEF Paired
<1>4. Half(q) /\ e < L => Half(r)
  <2> SUFFICES ASSUME Half(q), e < L PROVE Half(r)
    OBVIOUS
  <2> HIDE DEF r, L
  <2>1. L - 1 \in {L, L - 1} /\ Len(r) - 1 = (L - 1) - e
    BY <1>1
  <2>2. r[Len(r)] = "%" /\ r # <<>>
    BY <1>1, EmptySeq DEF Half, L
  <2>3. \E D \in SUBSET (1..L - 1) : PairedBy(q, D, L - 1)
    BY DEF Half, L
  <2>4. \E E \in SUBSET (1..(L - 1) - e) : PairedBy(r, E, (L - 1) - e)
    BY <2>1, <2>3, <1>2
  <2> QED BY <2>1, <2>2, <2>4 DEF Half
<1> QED BY <1>3, <1>4

\* and without the last.
LEMMA FrontPaired ==
    ASSUME NEW q \in Seq(Stored), q # <<>>, Paired(q)
    PROVE  /\ q[Len(q)] # "%" => Paired(Front(q))
           /\ q[Len(q)] = "%" /\ Len(q) >= 2 =>
                q[Len(q) - 1] = "%" /\ Paired(Front(Front(q)))
<1> DEFINE L == Len(q)
           r == Front(q)
           u == Front(Front(q))
<1>1. /\ L \in Nat \ {0} /\ r \in Seq(Stored) /\ Len(r) = L - 1
      /\ \A k \in 1..L - 1 : r[k] = q[k]
  BY FrontProperties, EmptySeq
<1>2. ASSUME L >= 2
      PROVE  /\ u \in Seq(Stored) /\ Len(u) = L - 2
             /\ \A k \in 1..L - 2 : u[k] = q[k]
  <2>1. r # <<>>
    BY <1>1, <1>2, EmptySeq
  <2> HIDE DEF L, r
  <2>2. Front(r) \in Seq(Stored) /\ Len(Front(r)) = Len(r) - 1
        /\ \A k \in 1..Len(r) - 1 : Front(r)[k] = r[k]
    BY <2>1, <1>1, FrontProperties
  <2>3. Front(r) \in Seq(Stored) /\ Len(Front(r)) = L - 2
        /\ \A k \in 1..L - 2 : Front(r)[k] = q[k]
    BY <2>2, <1>1, <1>2
  <2> QED BY <2>3 DEF r
<1>3. PICK D \in SUBSET (1..L) : PairedBy(q, D, L)
  BY DEF Paired
<1> HIDE DEF L, r, u
<1>4. ASSUME q[L] # "%" PROVE Paired(r)
  <2>1. D \subseteq 1..L - 1
    BY <1>1, <1>3, <1>4 DEF PairedBy
  <2>2. PairedBy(r, D, L - 1)
    BY <1>1, <1>3, <1>4, <2>1, SMTT(30) DEF PairedBy
  <2> QED BY <1>1, <2>1, <2>2 DEF Paired
<1>5. ASSUME q[L] = "%", L >= 2 PROVE q[L - 1] = "%" /\ Paired(u)
  <2>1. L \in D
    BY <1>1, <1>3, <1>5 DEF PairedBy
  <2>2. q[L - 1] = "%" /\ L - 1 \notin D
    BY <1>1, <1>3, <1>5, <2>1 DEF PairedBy
  <2> DEFINE E == D \cap 1..L - 2
  <2>3. E \subseteq 1..L - 2
    OBVIOUS
  <2>7. Len(u) = L - 2 /\ \A k \in 1..L - 2 : u[k] = q[k]
    BY <1>2, <1>5
  <2>4. ASSUME NEW k \in E
        PROVE  u[k] = "%" /\ (k >= 2 => u[k - 1] = "%" /\ k - 1 \notin E)
    <3>1. k \in D /\ k \in 1..L - 2
      OBVIOUS
    <3>2. q[k] = "%" /\ (k >= 2 => q[k - 1] = "%" /\ k - 1 \notin D)
      BY <1>3, <3>1 DEF PairedBy
    <3>3. k >= 2 => k - 1 \in 1..L - 2
      BY <1>1, <3>1
    <3> QED BY <2>7, <3>1, <3>2, <3>3
  <2>5. ASSUME NEW k \in 1..L - 2, u[k] = "%", k \notin E PROVE k + 1 \in E
    <3>1. q[k] = "%" /\ k \notin D /\ k \in 1..L
      BY <1>1, <2>5, <2>7
    <3>2. k + 1 \in D
      BY <1>3, <3>1 DEF PairedBy
    <3> QED BY <1>1, <2>2, <3>1, <3>2
  <2>6. PairedBy(u, E, L - 2)
    BY <2>7, <2>3, <2>4, <2>5 DEF PairedBy
  <2> QED BY <2>2, <2>3, <2>6, <2>7 DEF Paired
<1> QED BY <1>4, <1>5 DEF L, r, u

-----------------------------------------------------------------------------
(* What is true of the ring after every character.                         *)

Sound(s) ==
    /\ s \in Rings /\ Len(s.text) <= Pending(s)
    /\ "torn" \notin s.slips => Holds(s)
    /\ "flooded" \notin s.slips => s.commands < Dropped
    /\ s.slips \cap {"torn", "flooded"} = {} => LFs(s.text) <= s.commands
    /\ s.slips = {} => s.commands = LFs(s.text)

\* The doubled %s are whole, or the last one is being doubled.
Whole(s) == "torn" \notin s.slips => Paired(s.text)
Halved(s) == "torn" \notin s.slips => Half(s.text)

\* The text after a character is put.
LEMMA PutText ==
    ASSUME NEW s \in Rings, NEW c \in Stored, "torn" \notin s.slips => Holds(s)
    PROVE  LET t == Put(s, c)
               q == Append(s.text, c)
               full == Pending(s) = IBUFSIZE - 1
           IN /\ t.text = IF full THEN SubSeq(q, 2, Len(q)) ELSE q
              /\ q \in Seq(Stored) /\ Len(q) >= 1
              /\ full /\ "torn" \notin s.slips => Len(q) = IBUFSIZE
              /\ LFs(t.text) = LFs(s.text) + (IF c = "LF" THEN 1 ELSE 0)
                                           - (IF full /\ q[1] = "LF" THEN 1 ELSE 0)
              /\ t.slips = IF full /\ q[1] = "LF" THEN s.slips \cup {"overrun"}
                                                  ELSE s.slips
<1> DEFINE t == Put(s, c)
           q == Append(s.text, c)
           full == Pending(s) = IBUFSIZE - 1
<1>1. /\ t.text = IF full THEN Tail(q) ELSE q
      /\ t.slips = IF full /\ Head(q) = "LF" THEN s.slips \cup {"overrun"} ELSE s.slips
  BY PutFields, Zenon
<1>2. s.text \in Seq(Stored) /\ Len(s.text) \in Nat
  BY DEF Rings
<1>3. q \in Seq(Stored) /\ Len(q) = Len(s.text) + 1 /\ Len(q) >= 1
  BY <1>2, AppendProperties
<1>4. q # <<>> /\ Head(q) = q[1]
  BY <1>3, EmptySeq
<1>5. Tail(q) = SubSeq(q, 2, Len(q))
  BY <1>3, <1>4, TailIsSubSeq
<1>6. full /\ "torn" \notin s.slips => Len(q) = IBUFSIZE
  BY <1>3, <1>2, Sizes DEF Holds
<1>7. LFs(q) = LFs(s.text) + (IF c = "LF" THEN 1 ELSE 0)
  BY <1>2, AppendLFs
<1>8. LFs(s.text) \in Nat /\ LFs(q) \in Nat
  BY <1>2, <1>3, FiniteLFs
<1> HIDE DEF q, t, full
<1>9. LFs(SubSeq(q, 2, Len(q))) = LFs(q) - (IF q[1] = "LF" THEN 1 ELSE 0)
  <2>1. 1 \in 1..Len(q) /\ 1 + 1 = 2 /\ \A k \in 1..1 - 1 : q[k] # "LF"
    BY <1>3
  <2>2. LFs(SubSeq(q, 1 + 1, Len(q))) = LFs(q) - (IF q[1] = "LF" THEN 1 ELSE 0)
    BY <1>3, <2>1, SuffixLFs
  <2> QED BY <2>1, <2>2
<1>10. LFs(t.text) = LFs(s.text) + (IF c = "LF" THEN 1 ELSE 0)
                                - (IF full /\ q[1] = "LF" THEN 1 ELSE 0)
  <2>1. CASE full
    <3>1. LFs(t.text) = LFs(q) - (IF q[1] = "LF" THEN 1 ELSE 0)
      BY <2>1, <1>1, <1>5, <1>9
    <3> QED BY <3>1, <2>1, <1>7, <1>8
  <2>2. CASE ~full
    <3>1. t.text = q
      BY <2>2, <1>1
    <3> QED BY <3>1, <2>2, <1>7, <1>8
  <2> QED BY <2>1, <2>2
<1>11. /\ t.text = IF full THEN SubSeq(q, 2, Len(q)) ELSE q
       /\ t.slips = IF full /\ q[1] = "LF" THEN s.slips \cup {"overrun"} ELSE s.slips
  BY <1>1, <1>4, <1>5
<1> QED BY <1>3, <1>6, <1>10, <1>11 DEF t, q, full

\* Putting a character other than a newline keeps the counts right.
LEMMA PutSound ==
    ASSUME NEW s \in Rings, NEW c \in Stored, Sound(s), c # "LF"
    PROVE  /\ Sound(Put(s, c))
           /\ c # "%" /\ Whole(s) => Whole(Put(s, c))
           /\ c = "%" /\ Whole(s) => Halved(Put(s, c))
           /\ c = "%" /\ Halved(s) => Whole(Put(s, c))
<1> DEFINE t == Put(s, c)
           q == Append(s.text, c)
           full == Pending(s) = IBUFSIZE - 1
<1>1. /\ t.text = IF full THEN SubSeq(q, 2, Len(q)) ELSE q
      /\ q \in Seq(Stored) /\ Len(q) >= 1
      /\ full /\ "torn" \notin s.slips => Len(q) = IBUFSIZE
      /\ LFs(t.text) = LFs(s.text) + (IF c = "LF" THEN 1 ELSE 0)
                                   - (IF full /\ q[1] = "LF" THEN 1 ELSE 0)
      /\ t.slips = IF full /\ q[1] = "LF" THEN s.slips \cup {"overrun"} ELSE s.slips
  BY PutText, Zenon DEF Sound
<1>2. /\ t \in Rings /\ t.commands = s.commands
      /\ Len(t.text) <= Pending(t) /\ (Holds(s) => Holds(t))
  BY PutFields, PutHolds DEF Sound
<1>3. /\ s.text \in Seq(Stored) /\ LFs(s.text) \in Nat /\ s.commands \in Nat
  BY FiniteLFs, Sizes DEF Rings
<1>4. Paired(s.text) /\ c # "%" => Paired(q)
  BY <1>3, AppendPaired
<1>5. Paired(s.text) /\ c = "%" => Half(q)
  BY <1>3, AppendPaired
<1>6. Half(s.text) /\ c = "%" => Paired(q)
  BY <1>3, AppendPaired
<1> HIDE DEF t, q, full
<1>7. Sound(t)
  <2>1. LFs(t.text) <= LFs(s.text)
        /\ (~(full /\ q[1] = "LF") => LFs(t.text) = LFs(s.text))
    BY <1>1, <1>3
  <2>2. s.slips \subseteq t.slips /\ t.slips \subseteq s.slips \cup {"overrun"}
        /\ (t.slips = {} => ~(full /\ q[1] = "LF"))
    BY <1>1
  <2>3. "torn" \notin t.slips => Holds(t)
    BY <1>2, <2>2 DEF Sound
  <2>4. "flooded" \notin t.slips => t.commands < Dropped
    BY <1>2, <2>2 DEF Sound
  <2>5. t.slips \cap {"torn", "flooded"} = {} => LFs(t.text) <= t.commands
    <3>1. t.slips \cap {"torn", "flooded"} = {} => s.slips \cap {"torn", "flooded"} = {}
      BY <2>2
    <3>2. LFs(t.text) \in Nat
      <4>1. t.text \in Seq(Stored)
        BY <1>2 DEF Rings
      <4> QED BY <4>1, FiniteLFs
    <3>3. s.slips \cap {"torn", "flooded"} = {} => LFs(s.text) <= s.commands
      BY DEF Sound
    <3> QED BY <3>1, <3>2, <3>3, <2>1, <1>2, <1>3
  <2>6. t.slips = {} => t.commands = LFs(t.text)
    <3>1. t.slips = {} => s.slips = {}
      BY <2>2
    <3>2. s.slips = {} => s.commands = LFs(s.text)
      BY DEF Sound
    <3> QED BY <3>1, <3>2, <2>1, <2>2, <1>2
  <2> QED BY <1>2, <2>3, <2>4, <2>5, <2>6 DEF Sound
<1>8. "torn" \notin t.slips => "torn" \notin s.slips
  BY <1>1
<1>9. "torn" \notin s.slips => /\ Paired(q) => Paired(t.text)
                               /\ Half(q) => Half(t.text)
  <2> SUFFICES ASSUME "torn" \notin s.slips
               PROVE (Paired(q) => Paired(t.text)) /\ (Half(q) => Half(t.text))
    OBVIOUS
  <2>1. CASE ~full
    BY <2>1, <1>1
  <2>2. CASE full
    <3>1. 1 \in 0..Len(q) /\ 1 < Len(q) /\ 1 + 1 = 2
      BY <1>1, <2>2, Sizes
    <3>2. /\ Paired(q) => Paired(SubSeq(q, 1 + 1, Len(q)))
          /\ Half(q) => Half(SubSeq(q, 1 + 1, Len(q)))
      BY <1>1, <3>1, SuffixPaired
    <3> QED BY <3>1, <3>2, <1>1, <2>2
  <2> QED BY <2>1, <2>2
<1>10. c # "%" /\ Whole(s) => Whole(t)
  BY <1>4, <1>8, <1>9 DEF Whole
<1>11. c = "%" /\ Whole(s) => Halved(t)
  BY <1>5, <1>8, <1>9 DEF Whole, Halved
<1>12. c = "%" /\ Halved(s) => Whole(t)
  BY <1>6, <1>8, <1>9 DEF Whole, Halved
<1> QED BY <1>7, <1>10, <1>11, <1>12 DEF t

\* What is true of a ring depends on no other field.
LEMMA SameRing ==
    ASSUME NEW s, NEW u, u.input = s.input, u.head = s.head, u.tail = s.tail,
           u.text = s.text
    PROVE  Pending(u) = Pending(s) /\ (Holds(s) => Holds(u))
BY DEF Pending, Holds, Slot

\* The last character typed is no part of what is true of the ring.
LEMMA LastSound ==
    ASSUME NEW s \in Rings, NEW c \in Typed \cup {"none"}, Sound(s), Whole(s)
    PROVE  LET t == [s EXCEPT !.last = c] IN Sound(t) /\ Whole(t) /\ t \in Rings
<1> DEFINE t == [s EXCEPT !.last = c]
<1>1. /\ t \in Rings /\ t.input = s.input /\ t.head = s.head /\ t.tail = s.tail
      /\ t.text = s.text /\ t.slips = s.slips /\ t.commands = s.commands
  BY DEF Rings
<1> HIDE DEF t
<1>2. Pending(t) = Pending(s) /\ (Holds(s) => Holds(t))
  BY <1>1, SameRing
<1>3. Sound(t) /\ Whole(t) /\ t \in Rings
  BY <1>1, <1>2 DEF Sound, Whole
<1> QED BY <1>3 DEF t

\* Ending a line keeps the counts right.
LEMMA EndLineSound ==
    ASSUME NEW s \in Rings, Sound(s), Whole(s)
    PROVE  Sound(Put(Count(s), "LF")) /\ Whole(Put(Count(s), "LF"))
<1> DEFINE n == (s.commands + 1) % CharSize
           u == Count(s)
           q == Append(s.text, "LF")
           full == Pending(u) = IBUFSIZE - 1
           t == Put(u, "LF")
<1>1. /\ s.commands \in 0..CharSize - 1 /\ s.text \in Seq(Stored)
      /\ s.slips \in SUBSET Slip /\ LFs(s.text) \in Nat
  BY FiniteLFs DEF Rings
<1>2. n \in 0..CharSize - 1 /\ (s.commands < Dropped => n = s.commands + 1)
  <2> DEFINE a == s.commands + 1
  <2>1. /\ a \in Int /\ CharSize \in Nat \ {0}
        /\ -CharSize <= a /\ a < 2 * CharSize /\ ~(a < 0)
    BY <1>1, Sizes
  <2> HIDE DEF a
  <2>2. a % CharSize = IF a < CharSize THEN a ELSE a - CharSize
    BY <2>1, Wrap
  <2> DEFINE m == a % CharSize
  <2> HIDE DEF m
  <2>3. m \in 0..CharSize - 1 /\ (s.commands < Dropped => m = s.commands + 1)
    BY <1>1, <2>2, Sizes DEF a, m
  <2> QED BY <2>3 DEF a, m
<1> HIDE DEF n
<1>3. u = [s EXCEPT !.commands = n,
                    !.slips = IF n = Dropped THEN s.slips \cup {"flooded"} ELSE s.slips]
  BY Zenon DEF Count, n
<1>4. /\ u \in Rings /\ u.input = s.input /\ u.head = s.head /\ u.tail = s.tail
      /\ u.text = s.text /\ u.commands = n
      /\ u.slips = IF n = Dropped THEN s.slips \cup {"flooded"} ELSE s.slips
  <2> DEFINE sl == IF n = Dropped THEN s.slips \cup {"flooded"} ELSE s.slips
  <2>1. sl \in SUBSET Slip
    BY <1>1 DEF Slip
  <2> HIDE DEF sl, u
  <2>2. u = [s EXCEPT !.commands = n, !.slips = sl]
    BY <1>3 DEF sl
  <2>3. /\ u \in Rings /\ u.input = s.input /\ u.head = s.head /\ u.tail = s.tail
        /\ u.text = s.text /\ u.commands = n /\ u.slips = sl
    BY <1>2, <2>1, <2>2 DEF Rings
  <2> QED BY <2>3 DEF sl
<1> HIDE DEF u
<1>5. Pending(u) = Pending(s) /\ (Holds(s) => Holds(u))
  BY <1>4, SameRing
<1>6. "torn" \notin u.slips => "torn" \notin s.slips /\ Holds(u)
  BY <1>4, <1>5 DEF Sound
<1>7. "LF" \in Stored /\ "LF" # "%"
  BY DEF Stored
<1>8. /\ t.text = IF full THEN SubSeq(q, 2, Len(q)) ELSE q
      /\ q \in Seq(Stored) /\ Len(q) >= 1
      /\ full /\ "torn" \notin u.slips => Len(q) = IBUFSIZE
      /\ LFs(t.text) = LFs(u.text) + 1 - (IF full /\ q[1] = "LF" THEN 1 ELSE 0)
      /\ t.slips = IF full /\ q[1] = "LF" THEN u.slips \cup {"overrun"} ELSE u.slips
  BY <1>4, <1>6, <1>7, PutText, Zenon
<1>9. /\ t \in Rings /\ t.commands = n
      /\ Len(t.text) <= Pending(t) /\ (Holds(u) => Holds(t))
  <2>1. Len(u.text) <= Pending(u)
    BY <1>4, <1>5 DEF Sound
  <2> QED BY <2>1, <1>4, <1>7, PutFields, PutHolds
<1>10. Whole(s) => Paired(q) \/ "torn" \in s.slips
  BY <1>1, <1>7, AppendPaired DEF Whole
<1> HIDE DEF t, q, full
<1>11. s.slips \subseteq t.slips /\ (t.slips = {} => ~(full /\ q[1] = "LF"))
       /\ ("flooded" \notin t.slips => n # Dropped)
  BY <1>4, <1>8
<1>12. "flooded" \notin t.slips => n = s.commands + 1 /\ n < Dropped
  BY <1>1, <1>2, <1>11, Sizes DEF Sound
<1>13. "torn" \notin t.slips => Holds(t)
  BY <1>6, <1>8, <1>9
<1>14. t.slips \cap {"torn", "flooded"} = {} => LFs(t.text) <= t.commands
  <2> SUFFICES ASSUME t.slips \cap {"torn", "flooded"} = {}
               PROVE  LFs(t.text) <= t.commands
    OBVIOUS
  <2>1. s.slips \cap {"torn", "flooded"} = {} /\ "flooded" \notin t.slips
    BY <1>11
  <2>2. LFs(s.text) <= s.commands
    BY <2>1 DEF Sound
  <2> QED BY <2>1, <2>2, <1>1, <1>4, <1>8, <1>9, <1>12
<1>15. t.slips = {} => t.commands = LFs(t.text)
  <2> SUFFICES ASSUME t.slips = {} PROVE t.commands = LFs(t.text)
    OBVIOUS
  <2>1. s.slips = {} /\ "flooded" \notin t.slips
    BY <1>11
  <2>2. LFs(s.text) = s.commands
    BY <2>1 DEF Sound
  <2> QED BY <2>1, <2>2, <1>1, <1>4, <1>8, <1>9, <1>11, <1>12
<1>16. Sound(t)
  BY <1>9, <1>12, <1>13, <1>14, <1>15 DEF Sound
<1>17. Whole(t)
  <2> SUFFICES ASSUME "torn" \notin t.slips PROVE Paired(t.text)
    BY DEF Whole
  <2>1. Paired(q)
    BY <1>10, <1>11
  <2>2. 1 \in 0..Len(q) /\ 1 + 1 = 2
    BY <1>8
  <2>3. Paired(SubSeq(q, 1 + 1, Len(q)))
    BY <1>8, <2>1, <2>2, SuffixPaired
  <2> QED BY <1>8, <2>1, <2>2, <2>3
<1> QED BY <1>16, <1>17 DEF t, u

\* Rubbing out keeps the counts right.
LEMMA EraseSound ==
    ASSUME NEW s \in Rings, Sound(s), Whole(s), s.head # s.tail
    PROVE  Sound(Erase(s)) /\ Whole(Erase(s))
<1> DEFINE t == Erase(s)
           p == Pending(s)
           last == s.input[Slot(s, p)]
           n == IF last = "%" THEN 2 ELSE 1
           q == s.text
<1>1. /\ t \in Rings
      /\ s.slips \subseteq t.slips
      /\ Len(t.text) <= Pending(t)
      /\ t.commands = s.commands
      /\ t.slips \ {"torn", "erased"} = s.slips \ {"torn", "erased"}
      /\ last = "LF" => "erased" \in t.slips
      /\ "torn" \notin t.slips =>
           /\ n <= p /\ Pending(t) = p - n
           /\ t.input = s.input /\ t.tail = s.tail
           /\ t.text = IF n = 2 THEN Front(Front(q)) ELSE Front(q)
  <2>1. Len(s.text) <= Pending(s)
    BY DEF Sound
  <2> QED BY <2>1, EraseFields, Zenon
<1>2. q \in Seq(Stored) /\ Len(q) \in Nat /\ LFs(q) \in Nat
      /\ s.commands \in 0..CharSize - 1
  BY FiniteLFs DEF Rings
<1>3. p \in 1..IBUFSIZE - 1
  BY PendingValue, Sizes DEF Rings
<1> HIDE DEF t
<1>4. LFs(t.text) \in Nat
  BY <1>1, FiniteLFs DEF Rings
<1>5. ASSUME "torn" \notin t.slips
      PROVE  /\ Holds(t) /\ Paired(t.text) /\ LFs(t.text) <= LFs(q)
             /\ last # "LF" => LFs(t.text) = LFs(q)
  <2>1. Holds(s) /\ Paired(q) /\ "torn" \notin s.slips
    BY <1>1, <1>5 DEF Sound, Whole
  <2>2. Len(q) = p /\ last = q[p]
    BY <2>1, <1>3 DEF Holds
  <2>3. q # <<>>
    BY <2>2, <1>3, EmptySeq
  <2>4. /\ Front(q) \in Seq(Stored) /\ Len(Front(q)) = p - 1
        /\ \A k \in 1..p - 1 : Front(q)[k] = q[k]
    BY <1>2, <2>2, <2>3, FrontProperties
  <2>5. LFs(Front(q)) = LFs(q) - (IF last = "LF" THEN 1 ELSE 0)
    BY <1>2, <2>2, <2>3, FrontLFs
  <2>6. /\ last # "%" => Paired(Front(q))
        /\ last = "%" /\ p >= 2 => q[p - 1] = "%" /\ Paired(Front(Front(q)))
    BY <1>2, <2>1, <2>2, <2>3, FrontPaired
  <2>7. n \in {1, 2} /\ (n = 2 <=> last = "%")
    OBVIOUS
  <2> HIDE DEF n, last, q, p
  <2>8. ASSUME n = 2
        PROVE  /\ p >= 2 /\ Len(Front(Front(q))) = p - 2
               /\ \A k \in 1..p - 2 : Front(Front(q))[k] = q[k]
               /\ LFs(Front(Front(q))) = LFs(q)
    <3>1. p >= 2 /\ Front(q) # <<>>
      BY <1>1, <1>3, <1>5, <2>4, <2>8, EmptySeq
    <3>2. /\ Len(Front(Front(q))) = p - 2
          /\ \A k \in 1..p - 2 : Front(Front(q))[k] = Front(q)[k]
      <4>1. /\ Len(Front(Front(q))) = Len(Front(q)) - 1
            /\ \A k \in 1..Len(Front(q)) - 1 : Front(Front(q))[k] = Front(q)[k]
        BY <2>4, <3>1, FrontProperties
      <4> QED BY <4>1, <2>4, <3>1, <1>3
    <3>3. Front(q)[Len(Front(q))] = "%"
      BY <2>4, <2>6, <2>7, <2>8, <3>1, <1>3
    <3>4. LFs(Front(Front(q))) = LFs(Front(q)) - 0
      BY <2>4, <3>1, <3>3, FrontLFs
    <3>5. LFs(Front(Front(q))) = LFs(q)
      BY <3>4, <2>5, <2>7, <2>8, <1>2
    <3> QED BY <3>1, <3>2, <3>5, <2>4, <1>3
  <2>9. /\ Len(t.text) = p - n /\ \A k \in 1..p - n : t.text[k] = q[k]
        /\ Paired(t.text) /\ LFs(t.text) <= LFs(q)
        /\ last # "LF" => LFs(t.text) = LFs(q)
    <3>1. CASE n = 1
      BY <3>1, <1>1, <1>2, <1>5, <2>4, <2>5, <2>6, <2>7
    <3>2. CASE n = 2
      BY <3>2, <1>1, <1>2, <1>5, <2>6, <2>7, <2>8
    <3> QED BY <3>1, <3>2, <2>7
  <2>10. Pending(t) = p - n /\ t.input = s.input /\ t.tail = s.tail
    BY <1>1, <1>5
  <2>11. \A k \in 1..p : s.input[Slot(s, k)] = q[k]
    BY <2>1 DEF Holds, q, p
  <2>12. \A k \in 1..p - n : t.input[Slot(t, k)] = t.text[k]
    BY <2>7, <2>9, <2>10, <2>11, <1>3 DEF Slot
  <2>13. Holds(t)
    BY <2>9, <2>10, <2>12 DEF Holds
  <2> QED BY <2>9, <2>13
<1> HIDE DEF n, last, p
<1>6. "flooded" \notin t.slips => t.commands < Dropped
  <2>1. "flooded" \notin t.slips => "flooded" \notin s.slips
    BY <1>1
  <2> QED BY <2>1, <1>1 DEF Sound
<1>7. t.slips \cap {"torn", "flooded"} = {} => LFs(t.text) <= t.commands
  <2> SUFFICES ASSUME t.slips \cap {"torn", "flooded"} = {}
               PROVE  LFs(t.text) <= t.commands
    OBVIOUS
  <2>1. s.slips \cap {"torn", "flooded"} = {} /\ "torn" \notin t.slips
    BY <1>1
  <2>2. LFs(q) <= s.commands
    BY <2>1 DEF Sound
  <2> QED BY <2>1, <2>2, <1>1, <1>2, <1>4, <1>5
<1>8. t.slips = {} => t.commands = LFs(t.text)
  <2> SUFFICES ASSUME t.slips = {} PROVE t.commands = LFs(t.text)
    OBVIOUS
  <2>1. s.slips = {} /\ "torn" \notin t.slips /\ last # "LF"
    BY <1>1
  <2>2. LFs(q) = s.commands
    BY <2>1 DEF Sound
  <2> QED BY <2>1, <2>2, <1>1, <1>5
<1>9. Sound(t)
  BY <1>1, <1>5, <1>6, <1>7, <1>8 DEF Sound
<1>10. Whole(t)
  BY <1>5 DEF Whole
<1> QED BY <1>9, <1>10 DEF t

\* accept_input takes one character that was typed.
LEMMA AcceptSound ==
    ASSUME NEW s \in Rings, NEW c \in Typed, Sound(s), Whole(s)
    PROVE  Sound(Accept(s, c)) /\ Whole(Accept(s, c))
<1> DEFINE t == [s EXCEPT !.last = c]
<1>1. Sound(t) /\ Whole(t) /\ t \in Rings
  BY LastSound, Zenon
<1>2. s.head = t.head /\ s.tail = t.tail
  BY DEF Rings
<1>3. "%" \in Stored /\ "a" \in Stored /\ "a" # "%" /\ "a" # "LF" /\ "%" # "LF"
  BY DEF Stored
<1>4. Sound(Put(Count(t), "LF")) /\ Whole(Put(Count(t), "LF"))
  BY <1>1, EndLineSound
<1>5. s.head # s.tail => Sound(Erase(t)) /\ Whole(Erase(t))
  BY <1>1, <1>2, EraseSound
<1>6. Sound(Put(t, "a")) /\ Whole(Put(t, "a"))
  BY <1>1, <1>3, PutSound
<1>7. Sound(Put(Put(t, "%"), "%")) /\ Whole(Put(Put(t, "%"), "%"))
  <2>1. Sound(Put(t, "%")) /\ Halved(Put(t, "%"))
    BY <1>1, <1>3, PutSound
  <2>2. Put(t, "%") \in Rings
    BY <2>1 DEF Sound
  <2> QED BY <2>1, <2>2, <1>3, PutSound
<1> HIDE DEF t
<1>8. CASE c = "LF" /\ s.last = "CR"
  <2>1. Accept(s, c) = s
    BY <1>8 DEF Accept
  <2> QED BY <2>1
<1>9. CASE c \in {"CR", "LF"} /\ ~(c = "LF" /\ s.last = "CR")
  <2>1. Accept(s, c) = Put(Count(t), "LF")
    BY <1>9 DEF Accept, t
  <2> QED BY <2>1, <1>4
<1>10. CASE c = "BS"
  <2>1. Accept(s, c) = IF s.head # s.tail THEN Erase(t) ELSE t
    BY <1>10 DEF Accept, t
  <2> QED BY <2>1, <1>1, <1>5
<1>11. CASE c = "%"
  <2>1. Accept(s, c) = Put(Put(t, "%"), "%")
    BY <1>11 DEF Accept, t
  <2> QED BY <2>1, <1>7
<1>12. CASE c = "a"
  <2>1. Accept(s, c) = Put(t, "a")
    BY <1>12 DEF Accept, t
  <2> QED BY <2>1, <1>6
<1> QED BY <1>8, <1>9, <1>10, <1>11, <1>12 DEF Typed

-----------------------------------------------------------------------------
(* The loop over what was read.                                            *)

\* A set of numbers that is not empty has a least member.
LEMMA Least ==
    ASSUME NEW T \in SUBSET Nat, T # {}
    PROVE  \E x \in T : \A y \in T : x <= y
<1>1. IsWellFoundedOn(OpToRel(<, Nat), Nat)
  BY NatLessThanWellFounded
<1>2. PICK x \in T : \A y \in T : <<y, x>> \notin OpToRel(<, Nat)
  BY <1>1, WFMin
<1>3. \A y \in T : ~(y < x)
  BY <1>2 DEF OpToRel
<1> QED BY <1>3

\* The function the loop computes, up to n characters.
Loop(chars, n, f) ==
    /\ DOMAIN f = 0..n
    /\ f = [k \in 0..n |-> IF k = 0 THEN Ring ELSE Accept(f[k - 1], chars[k])]

\* The loop over a read of any length is a function of the characters done.
LEMMA LoopExists ==
    ASSUME NEW chars, NEW L \in Nat
    PROVE  \E f : Loop(chars, L, f)
<1> DEFINE Bad == {n \in Nat : ~ \E f : Loop(chars, n, f)}
<1> SUFFICES ASSUME L \in Bad PROVE FALSE
  OBVIOUS
<1>1. PICK n \in Bad : \A k \in Bad : n <= k
  BY Least
<1>2. n # 0
  <2> DEFINE f == [k \in 0..0 |-> Ring]
  <2>1. Loop(chars, 0, f)
    BY DEF Loop
  <2> QED BY <2>1
<1>3. n - 1 \in Nat /\ n - 1 \notin Bad
  BY <1>1, <1>2
<1>4. PICK g : Loop(chars, n - 1, g)
  BY <1>3
<1> DEFINE f == [k \in 0..n |-> IF k = n THEN Accept(g[n - 1], chars[n]) ELSE g[k]]
<1>5. \A k \in 0..n - 1 :
        g[k] = IF k = 0 THEN Ring ELSE Accept(g[k - 1], chars[k])
  BY <1>4 DEF Loop
<1>6. ASSUME NEW k \in 0..n
      PROVE  f[k] = IF k = 0 THEN Ring ELSE Accept(f[k - 1], chars[k])
  <2>1. CASE k = n
    BY <2>1, <1>2, <1>3
  <2>2. CASE k = 0
    BY <2>2, <1>2, <1>3, <1>5
  <2>3. CASE k # n /\ k # 0
    <3>1. k \in 0..n - 1 /\ k - 1 \in 0..n /\ k - 1 # n
      BY <2>3, <1>3
    <3>2. f[k] = g[k] /\ f[k - 1] = g[k - 1]
      BY <3>1, <2>3
    <3> HIDE DEF f
    <3> QED BY <3>1, <3>2, <2>3, <1>5
  <2> QED BY <2>1, <2>2, <2>3
<1>7. Loop(chars, n, f)
  <2>1. DOMAIN f = 0..n /\ f = [k \in 0..n |-> f[k]]
    OBVIOUS
  <2> HIDE DEF f
  <2>2. f = [k \in 0..n |-> IF k = 0 THEN Ring ELSE Accept(f[k - 1], chars[k])]
    BY <2>1, <1>6
  <2> QED BY <2>1, <2>2 DEF Loop
<1> QED BY <1>1, <1>7

\* accept_input takes a read, by induction on the characters done.
LEMMA AcceptedSound ==
    ASSUME NEW L \in Nat, NEW chars \in [1..L -> Typed], Ring \in Rings,
           Sound(Ring), Whole(Ring)
    PROVE  Sound(Accepted(chars)) /\ Whole(Accepted(chars))
<1> DEFINE loop == CHOOSE f : f = [k \in 0..Len(chars) |->
                       IF k = 0 THEN Ring ELSE Accept(f[k - 1], chars[k])]
<1>1. Accepted(chars) = loop[Len(chars)]
  BY DEF Accepted
<1>2. Len(chars) = L
  OBVIOUS
<1>3. Loop(chars, L, loop)
  <2>1. \E f : Loop(chars, L, f)
    BY LoopExists
  <2>2. \E f : f = [k \in 0..Len(chars) |->
                       IF k = 0 THEN Ring ELSE Accept(f[k - 1], chars[k])]
    BY <2>1, <1>2 DEF Loop
  <2>3. loop = [k \in 0..Len(chars) |->
                       IF k = 0 THEN Ring ELSE Accept(loop[k - 1], chars[k])]
    BY <2>2
  <2> QED BY <2>3, <1>2 DEF Loop
<1> HIDE DEF loop
<1> DEFINE Bad == {k \in 0..L : ~(Sound(loop[k]) /\ Whole(loop[k]))}
<1>4. Bad = {}
  <2> SUFFICES ASSUME Bad # {} PROVE FALSE
    OBVIOUS
  <2>0. Bad \in SUBSET Nat
    OBVIOUS
  <2>1. PICK k \in Bad : \A j \in Bad : k <= j
    <3> HIDE DEF Bad
    <3> QED BY <2>0, Least
  <2>2. loop[k] = IF k = 0 THEN Ring ELSE Accept(loop[k - 1], chars[k])
    BY <1>3 DEF Loop
  <2>3. k # 0
    BY <2>1, <2>2
  <2>4. k - 1 \in 0..L /\ k - 1 \notin Bad /\ k \in 1..L
    BY <2>1, <2>3
  <2>5. Sound(loop[k - 1]) /\ Whole(loop[k - 1]) /\ loop[k - 1] \in Rings
    BY <2>4 DEF Sound
  <2>6. Sound(Accept(loop[k - 1], chars[k])) /\ Whole(Accept(loop[k - 1], chars[k]))
    BY <2>4, <2>5, AcceptSound
  <2> QED BY <2>1, <2>2, <2>3, <2>6
<1> QED BY <1>1, <1>2, <1>4

-----------------------------------------------------------------------------
(* Taking a line.                                                          *)

\* The line that is taken ends at its only newline, or is all there is.
LEMMA LineEndProperties ==
    ASSUME NEW s \in Rings, s.head # s.tail
    PROVE  LET at == {k \in 1..Pending(s) : s.input[Slot(s, k)] = "LF"}
           IN /\ LineEnd(s) \in 1..Pending(s)
              /\ \A k \in 1..LineEnd(s) - 1 : s.input[Slot(s, k)] # "LF"
              /\ at # {} => s.input[Slot(s, LineEnd(s))] = "LF"
              /\ at = {} => LineEnd(s) = Pending(s)
<1> DEFINE at == {k \in 1..Pending(s) : s.input[Slot(s, k)] = "LF"}
<1>1. Pending(s) \in 1..IBUFSIZE - 1
  BY PendingValue, Sizes DEF Rings
<1>2. LineEnd(s) = IF at = {} THEN Pending(s) ELSE Min(at)
  BY DEF LineEnd, Slot
<1>3. CASE at = {}
  BY <1>1, <1>2, <1>3
<1>4. CASE at # {}
  <2>1. at \in SUBSET Nat
    BY <1>1
  <2>2. \E x \in at : \A y \in at : x <= y
    <3> HIDE DEF at
    <3> QED BY <2>1, <1>4, Least
  <2>3. Min(at) \in at /\ \A y \in at : Min(at) <= y
    <3> HIDE DEF at
    <3> QED BY <2>2 DEF Min
  <2> DEFINE m == Min(at)
  <2>4. m \in at /\ (\A y \in at : m <= y) /\ LineEnd(s) = m
    BY <2>3, <1>2, <1>4
  <2> HIDE DEF m
  <2>5. \A k \in 1..m - 1 : s.input[Slot(s, k)] # "LF"
    BY <2>4, <1>1
  <2> QED BY <2>4, <2>5, <1>4
<1> QED BY <1>3, <1>4

\* handle_commands takes a line.
LEMMA TakeSound ==
    ASSUME NEW s \in Rings, Sound(s), Whole(s), s.head # s.tail,
           s.commands \notin {0, Dropped}
    PROVE  Sound(Take(s)) /\ Whole(Take(s))
<1> DEFINE e == LineEnd(s)
           p == Pending(s)
           q == s.text
           tail == (s.tail + e) % IBUFSIZE
           r == SubSeq(q, e + 1, Len(q))
           n == (s.commands - 1) % CharSize
           t == Take(s)
           at == {k \in 1..p : s.input[Slot(s, k)] = "LF"}
<1>1. /\ s.input \in [0..IBUFSIZE - 1 -> Stored \cup {"unset"}]
      /\ s.head \in 0..IBUFSIZE - 1 /\ s.tail \in 0..IBUFSIZE - 1
      /\ s.commands \in 1..CharSize - 1 /\ q \in Seq(Stored) /\ Len(q) \in Nat
      /\ s.slips \in SUBSET Slip /\ LFs(q) \in Nat
  BY FiniteLFs, Sizes DEF Rings
<1>2. p \in 1..IBUFSIZE - 1 /\ e \in 1..p
      /\ (\A k \in 1..e - 1 : s.input[Slot(s, k)] # "LF")
      /\ (at # {} => s.input[Slot(s, e)] = "LF")
      /\ (at = {} => e = p)
  BY LineEndProperties, PendingValue, Sizes, SMTT(30) DEF Rings
<1> HIDE DEF e, p, at
<1>3. tail \in 0..IBUFSIZE - 1
      /\ tail = IF s.tail + e < IBUFSIZE THEN s.tail + e ELSE s.tail + e - IBUFSIZE
  <2> DEFINE a == s.tail + e
  <2>1. /\ a \in Int /\ IBUFSIZE \in Nat \ {0}
        /\ -IBUFSIZE <= a /\ a < 2 * IBUFSIZE /\ ~(a < 0)
    BY <1>1, <1>2, Sizes, SMTT(30)
  <2> HIDE DEF a
  <2>2. a % IBUFSIZE = IF a < IBUFSIZE THEN a ELSE a - IBUFSIZE
    BY <2>1, Wrap
  <2> DEFINE m == a % IBUFSIZE
  <2>3. m = IF a < IBUFSIZE THEN a ELSE a - IBUFSIZE
    BY <2>2
  <2> HIDE DEF m
  <2>4. a \in Int /\ 0 <= a /\ a < 2 * IBUFSIZE - 1
    BY <1>1, <1>2, Sizes DEF a
  <2>5. m \in 0..IBUFSIZE - 1
    BY <2>3, <2>4, Sizes
  <2>6. m \in 0..IBUFSIZE - 1
        /\ m = IF s.tail + e < IBUFSIZE THEN s.tail + e ELSE s.tail + e - IBUFSIZE
    BY <1>1, <1>2, <2>3, <2>5, Sizes DEF a
  <2> QED BY <2>6 DEF a, m
<1>4. n = s.commands - 1
  <2> DEFINE a == s.commands - 1
  <2>1. /\ a \in Int /\ CharSize \in Nat \ {0} /\ a < CharSize
        /\ -CharSize <= a /\ a < 2 * CharSize /\ ~(a < 0)
    BY <1>1, Sizes
  <2> HIDE DEF a
  <2>2. a % CharSize = a
    BY <2>1, Wrap
  <2> QED BY <2>2 DEF a
<1>5. /\ r \in Seq(Stored) /\ Len(r) = IF e <= Len(q) THEN Len(q) - e ELSE 0
      /\ e <= Len(q) => \A k \in 1..Len(q) - e : r[k] = q[k + e]
  <2>1. CASE e <= Len(q)
    <3>1. e \in 0..Len(q)
      BY <2>1, <1>1, <1>2
    <3> QED BY <3>1, <2>1, <1>1, SuffixProperties
  <2>2. CASE e > Len(q)
    <3>1. e + 1 \in Int /\ Len(q) \in Int /\ Len(q) < e + 1
      BY <2>2, <1>1, <1>2
    <3>2. r = <<>>
      BY <3>1, SubSeqEmpty
    <3> HIDE DEF r
    <3> QED BY <3>2, <2>2, <1>1, <1>2, EmptySeq
  <2> QED BY <2>1, <2>2, <1>1, <1>2
<1>6. Take(s) = [s EXCEPT !.tail = tail, !.text = r, !.commands = n]
  <2>1. TakeUncounted(s) = [s EXCEPT !.tail = tail, !.text = r]
    BY Zenon DEF TakeUncounted, e, tail, r
  <2> DEFINE u == TakeUncounted(s)
  <2>2. u.commands = s.commands
    BY <2>1 DEF Rings
  <2>3. Take(s) = [u EXCEPT !.commands = n]
    BY <2>2, Zenon DEF Take, n
  <2> HIDE DEF u, n, tail, r
  <2> QED BY <2>1, <2>3, Zenon DEF u
<1> HIDE DEF tail, r, n
<1>7. /\ t \in Rings /\ t.tail = tail /\ t.text = r /\ t.commands = n
      /\ t.input = s.input /\ t.head = s.head /\ t.slips = s.slips
  <2>1. n \in 0..CharSize - 1
    BY <1>1, <1>4, Sizes
  <2> QED BY <1>1, <1>3, <1>5, <1>6, <2>1 DEF Rings
<1> HIDE DEF t
<1>8. Pending(t) = p - e
  <2>1. Pending(t) = IF t.tail <= t.head THEN t.head - t.tail
                                         ELSE t.head - t.tail + IBUFSIZE
    BY <1>7, PendingValue
  <2>2. p = IF s.tail <= s.head THEN s.head - s.tail ELSE s.head - s.tail + IBUFSIZE
    BY PendingValue DEF p
  <2>3. /\ s.head \in Int /\ s.tail \in Int /\ IBUFSIZE \in Int /\ e \in Int /\ p \in Int
        /\ 0 <= s.head /\ s.head < IBUFSIZE /\ 0 <= s.tail /\ s.tail < IBUFSIZE
        /\ 1 <= e /\ e <= p /\ p < IBUFSIZE
    BY <1>1, <1>2, Sizes
  <2>4. t.head = s.head /\ t.tail = tail
    BY <1>7
  <2>5. CASE s.tail + e < IBUFSIZE
    <3>1. t.tail = s.tail + e
      BY <2>4, <2>5, <1>3
    <3> QED BY <3>1, <2>1, <2>2, <2>3, <2>4
  <2>6. CASE ~(s.tail + e < IBUFSIZE)
    <3>1. t.tail = s.tail + e - IBUFSIZE
      BY <2>4, <2>6, <1>3
    <3> QED BY <3>1, <2>1, <2>2, <2>3, <2>4, <2>6
  <2> QED BY <2>5, <2>6
<1>9. Len(t.text) <= Pending(t)
  BY <1>1, <1>2, <1>5, <1>7, <1>8 DEF Sound, p
<1>10. ASSUME "torn" \notin s.slips
       PROVE  /\ Holds(t) /\ Paired(t.text)
              /\ LFs(t.text) = LFs(q) - (IF at # {} THEN 1 ELSE 0)
              /\ at # {} <=> LFs(q) > 0
  <2>1. Holds(s) /\ Paired(q) /\ Len(q) = p /\ \A k \in 1..p : s.input[Slot(s, k)] = q[k]
    BY <1>10 DEF Sound, Whole, Holds, q, p
  <2>2. ASSUME NEW k \in 1..p - e PROVE t.input[Slot(t, k)] = t.text[k]
    <3>1. k \in 1..IBUFSIZE /\ e \in 0..IBUFSIZE - 1 /\ k + e <= IBUFSIZE
          /\ k + e \in 1..p
      BY <1>2, Sizes
    <3>2. Slot(t, k) = Slot(s, k + e)
      BY <3>1, <1>3, <1>7, Shifted
    <3>3. t.text[k] = q[k + e]
      BY <1>2, <1>5, <1>7, <2>1
    <3> QED BY <3>1, <3>2, <3>3, <2>1, <1>7
  <2>3. Holds(t)
    BY <2>1, <2>2, <1>2, <1>5, <1>7, <1>8 DEF Holds
  <2>4. e \in 0..Len(q) /\ e \in 1..Len(q) /\ \A k \in 1..e - 1 : q[k] # "LF"
    BY <2>1, <1>2
  <2>5. Paired(t.text)
    BY <2>1, <2>4, <1>1, <1>7, SuffixPaired DEF r
  <2>6. LFs(t.text) = LFs(q) - (IF q[e] = "LF" THEN 1 ELSE 0)
    BY <2>4, <1>1, <1>7, SuffixLFs DEF r
  <2>7. at # {} <=> q[e] = "LF"
    <3>1. q[e] = s.input[Slot(s, e)]
      BY <2>1, <1>2
    <3>2. ASSUME q[e] = "LF" PROVE e \in at
      BY <3>1, <3>2, <1>2 DEF at
    <3> QED BY <3>1, <3>2, <1>2
  <2>8. at # {} <=> LFs(q) > 0
    <3>1. LFs(q) > 0 <=> \E k \in 1..Len(q) : q[k] = "LF"
      BY <1>1, FiniteLFs
    <3> QED BY <3>1, <2>1 DEF at
  <2> HIDE DEF q
  <2> QED BY <2>3, <2>5, <2>6, <2>7, <2>8
<1> HIDE DEF q
<1>11. "flooded" \notin t.slips => t.commands < Dropped
  BY <1>1, <1>4, <1>7, Sizes
<1>12. t.slips \cap {"torn", "flooded"} = {} => LFs(t.text) <= t.commands
  <2>1. t.slips \cap {"torn", "flooded"} = {} => LFs(q) <= s.commands /\ "torn" \notin s.slips
    BY <1>7 DEF Sound, q
  <2> QED BY <2>1, <1>1, <1>4, <1>7, <1>10
<1>13. t.slips = {} => t.commands = LFs(t.text)
  <2>1. t.slips = {} => LFs(q) = s.commands /\ "torn" \notin s.slips
    BY <1>7 DEF Sound, q
  <2> QED BY <2>1, <1>1, <1>4, <1>7, <1>10
<1>14. Sound(t) /\ Whole(t)
  BY <1>7, <1>9, <1>10, <1>11, <1>12, <1>13 DEF Sound, Whole
<1> QED BY <1>14 DEF t

-----------------------------------------------------------------------------
(* The socket.                                                             *)

\* The inductive invariant: every ring that the functions leave is sound and
\* its doubled %s are whole.
WInv ==
    /\ open \in BOOLEAN /\ intrpt \in BOOLEAN
    /\ pc \in {"io_check", "output_buf", "handle_commands", "update_game"}
    /\ out \in {"empty", "some", "high"}
    /\ Sound(Ring) /\ Whole(Ring)

\* A new ring is sound.
LEMMA EmptySound ==
    ASSUME NEW s, s = [input |-> [i \in 0..IBUFSIZE - 1 |-> "unset"], head |-> 0,
                       tail |-> 0, commands |-> 0, text |-> <<>>, slips |-> {},
                       last |-> "none"]
    PROVE  Sound(s) /\ Whole(s)
<1>1. s \in Rings /\ s.head = 0 /\ s.tail = 0 /\ s.text = <<>> /\ s.commands = 0
      /\ s.slips = {}
  BY Sizes, EmptySeq DEF Rings
<1>2. Pending(s) = 0
  BY <1>1, PendingValue
<1>3. Len(<<>>) = 0 /\ <<>> \in Seq(Stored)
  BY EmptySeq
<1>4. LFs(<<>>) = 0
  <2>1. LFAt(<<>>) \subseteq 1..0
    BY <1>3, FiniteLFs
  <2>2. LFAt(<<>>) = {}
    BY <2>1
  <2> QED BY <2>2, FS_EmptySet DEF LFs
<1>5. Paired(<<>>)
  BY <1>3, SMTT(30) DEF Paired, PairedBy
<1>6. Holds(s)
  <2>1. Len(s.text) = Pending(s)
    BY <1>1, <1>2, <1>3
  <2>2. \A k \in 1..Pending(s) : FALSE
    BY <1>2
  <2> QED BY <2>1, <2>2, Zenon DEF Holds
<1> QED BY <1>1, <1>2, <1>3, <1>4, <1>5, <1>6, Sizes DEF Sound, Whole

\* The variables take what a record of them says.
LEMMA BecomesSound ==
    ASSUME NEW s \in Rings, Sound(s), Whole(s), Becomes(s)
    PROVE  Sound(Ring') /\ Whole(Ring')
<1> DEFINE u == [s EXCEPT !.last = "none"]
<1>1. Sound(u) /\ Whole(u)
  BY LastSound, Zenon
<1>2. Ring' = u
  BY DEF Becomes, Ring, Rings
<1> QED BY <1>1, <1>2

\* The ring is empty at first.
LEMMA Initial == Init => WInv
<1> SUFFICES ASSUME Init PROVE WInv
  OBVIOUS
<1>1. Ring = [input |-> [i \in 0..IBUFSIZE - 1 |-> "unset"], head |-> 0,
              tail |-> 0, commands |-> 0, text |-> <<>>, slips |-> {},
              last |-> "none"]
  BY DEF Init, Ring
<1>2. Sound(Ring) /\ Whole(Ring)
  BY <1>1, EmptySound
<1> QED BY <1>2 DEF Init, WInv

\* Steps that do not touch the ring.
LEMMA SameRingVars ==
    ASSUME UNCHANGED ring_vars, WInv
    PROVE  Sound(Ring') /\ Whole(Ring')
<1>1. Ring' = Ring
  BY DEF ring_vars, Ring
<1> QED BY <1>1 DEF WInv

\* Every step keeps the invariant.
LEMMA Inductive == WInv /\ [Next]_vars => WInv'
<1> SUFFICES ASSUME WInv, [Next]_vars PROVE WInv'
  OBVIOUS
<1> DEFINE Rest == /\ open' \in BOOLEAN /\ intrpt' \in BOOLEAN
                   /\ pc' \in {"io_check", "output_buf", "handle_commands", "update_game"}
                   /\ out' \in {"empty", "some", "high"}
<1>1. Ring \in Rings
  BY DEF WInv, Sound
<1>2. SUFFICES Rest /\ Sound(Ring') /\ Whole(Ring')
  BY DEF WInv
<1>3. ASSUME NEW n \in 1..MaxRead, NEW chars \in [1..n -> Typed], accept_input(chars)
      PROVE  Rest /\ Sound(Ring') /\ Whole(Ring')
  <2>1. Sound(Accepted(chars)) /\ Whole(Accepted(chars))
    <3>1. n \in Nat
      BY WireAssumption DEF WireAssumption
    <3> QED BY <3>1, <1>1, AcceptedSound DEF WInv
  <2>2. Accepted(chars) \in Rings
    BY <2>1 DEF Sound
  <2>3. Sound(Ring') /\ Whole(Ring')
    BY <2>1, <2>2, <1>3, BecomesSound DEF accept_input
  <2>4. Rest
    BY <1>3 DEF WInv, accept_input, Calls
  <2> QED BY <2>3, <2>4
<1>4. ASSUME accept_connect PROVE Rest /\ Sound(Ring') /\ Whole(Ring')
  <2>1. Ring' = [input |-> [i \in 0..IBUFSIZE - 1 |-> "unset"], head |-> 0,
                 tail |-> 0, commands |-> 0, text |-> <<>>, slips |-> {},
                 last |-> "none"]
    BY <1>4 DEF accept_connect, Ring
  <2>2. Sound(Ring') /\ Whole(Ring')
    BY <2>1, EmptySound
  <2> QED BY <2>2, <1>4 DEF accept_connect
<1>5. CASE NothingRead
  BY <1>5, SameRingVars DEF WInv, NothingRead, Calls
<1>6. CASE PeerGone
  BY <1>6, SameRingVars DEF WInv, PeerGone, disconnect
<1>7. CASE output_buf
  BY <1>7, SameRingVars DEF WInv, output_buf, disconnect, Calls
<1>8. CASE handle_commands
  <2>1. CASE open /\ pc = "handle_commands" /\ commands = Dropped /\ disconnect
    BY <2>1, SameRingVars DEF WInv, disconnect
  <2>2. CASE Calls("handle_commands", "update_game")
             /\ UNCHANGED <<open, ring_vars, intrpt, out>>
    BY <2>2, SameRingVars DEF WInv, Calls
  <2>3. CASE /\ Calls("handle_commands", "update_game")
             /\ commands \notin {0, Dropped} /\ ihead # itail
             /\ Becomes(Take(Ring))
             /\ intrpt' \in {intrpt, FALSE}
             /\ out' \in IF out = "high" THEN {"high"} ELSE {out, "some", "high"}
             /\ open' \in BOOLEAN
    <3>1. Ring.head = ihead /\ Ring.tail = itail /\ Ring.commands = commands
      BY DEF Ring
    <3>2. Sound(Take(Ring)) /\ Whole(Take(Ring))
      BY <3>1, <2>3, <1>1, TakeSound DEF WInv
    <3>3. Take(Ring) \in Rings
      BY <3>2 DEF Sound
    <3>4. Sound(Ring') /\ Whole(Ring')
      BY <2>3, <3>2, <3>3, BecomesSound
    <3>5. Rest
      BY <2>3 DEF WInv, Calls
    <3> QED BY <3>4, <3>5
  <2> QED BY <1>8, <2>1, <2>2, <2>3 DEF handle_commands
<1>9. CASE update_game
  BY <1>9, SameRingVars DEF WInv, update_game, Calls
<1>10. CASE UNCHANGED vars
  BY <1>10, SameRingVars DEF WInv, vars, ring_vars
<1> QED BY <1>3, <1>4, <1>5, <1>6, <1>7, <1>8, <1>9, <1>10 DEF Next

\* So it always holds.
LEMMA Invariant == Spec => []WInv
BY Initial, Inductive, PTL DEF Spec

\* What the ring holds, in the terms of the properties.
LEMMA Meaning ==
    ASSUME WInv
    PROVE  /\ TypeOK
           /\ "torn" \notin slips => Contents = text /\ Newlines = LFs(text)
<1>1. /\ Ring \in Rings /\ Len(text) <= Pending(Ring)
      /\ "torn" \notin slips => Holds(Ring)
  BY DEF WInv, Sound, Ring
<1>2. /\ input \in [0..IBUFSIZE - 1 -> Stored \cup {"unset"}]
      /\ ihead \in 0..IBUFSIZE - 1 /\ itail \in 0..IBUFSIZE - 1
      /\ commands \in 0..CharSize - 1 /\ text \in Seq(Stored)
      /\ slips \in SUBSET Slip
  BY <1>1 DEF Rings, Ring
<1>3. Pending(Ring) \in 0..IBUFSIZE - 1
  BY <1>1, PendingValue
<1>4. TypeOK
  BY <1>1, <1>2, <1>3, Sizes DEF TypeOK, WInv
<1>5. ASSUME "torn" \notin slips PROVE Contents = text /\ Newlines = LFs(text)
  <2> DEFINE P == Pending(Ring)
  <2>1. /\ Len(text) = P
        /\ \A k \in 1..P : input[(itail + k - 1) % IBUFSIZE] = text[k]
    BY <1>1, <1>5 DEF Holds, Slot, Ring
  <2>2. Contents = [k \in 1..P |-> input[(itail + k - 1) % IBUFSIZE]]
    BY DEF Contents
  <2> HIDE DEF P
  <2>3. text = [k \in 1..P |-> text[k]]
    BY <2>1, <1>2
  <2>4. Contents = text
    BY <2>1, <2>2, <2>3
  <2> QED BY <2>4 DEF Newlines, LFs, LFAt
<1> QED BY <1>4, <1>5

\* The ring that accept_input writes, rubs out in and overwrites, and
\* handle_commands takes from, holds the text that is still to be handled,
\* whatever its size, until half of a doubled % has been overwritten.
THEOREM RingHoldsTextHolds == Spec => []RingHoldsText
<1>1. WInv => RingHoldsText
  BY Meaning DEF RingHoldsText
<1> QED BY <1>1, Invariant, PTL

\* The count that accept_input and handle_commands keep is the number of
\* newlines in the ring.
THEOREM OneCommandPerLineHolds == Spec => []OneCommandPerLine
<1>1. WInv => OneCommandPerLine
  <2> SUFFICES ASSUME WInv, slips = {} PROVE commands = Newlines
    BY DEF OneCommandPerLine
  <2>1. commands = LFs(text)
    BY DEF WInv, Sound, Ring
  <2> QED BY <2>1, Meaning
<1> QED BY <1>1, Invariant, PTL

\* No newline of the ring is without its count, so that handle_commands comes
\* to every line.
THEOREM NoLineStuckHolds == Spec => []NoLineStuck
<1>1. WInv => NoLineStuck
  <2> SUFFICES ASSUME WInv, slips \cap {"torn", "flooded"} = {}
               PROVE  Newlines <= commands
    BY DEF NoLineStuck
  <2>1. LFs(text) <= commands /\ "torn" \notin slips
    BY DEF WInv, Sound, Ring
  <2> QED BY <2>1, Meaning
<1> QED BY <1>1, Invariant, PTL
=============================================================================
