----------------------------- MODULE PurseProofs ------------------------------
(***************************************************************************)
(* Who has PLOANB owes the bank and nobody else does (DebtIsFlagged), only *)
(* the known handlers make or use up gold (GoldConserved), and a crash     *)
(* makes none (CrashMakesNone), for any players, prices, fees and limits.  *)
(*                                                                         *)
(* DebtIsFlagged is inductive beside the types of what the bank keeps: the *)
(* handlers of the bank are the only ones that change it, and a crash      *)
(* brings back what a file says, of which DebtIsFlagged speaks too.        *)
(*                                                                         *)
(* The other two speak of sums over any number of purses. A sum is defined *)
(* by a recursive function on the subsets of a finite set, which the first *)
(* lemmas show to exist and to add up whatever element is taken first, by  *)
(* induction on the size of the set. For CrashMakesNone the files are      *)
(* followed player by player (Covered): who has lost gold is unsaved, or   *)
(* is the next to be saved. A handler is Mild when it makes no gold and    *)
(* Equal when it only moves it.                                            *)
(***************************************************************************)
EXTENDS Purse, FiniteSetTheorems, SequenceTheorems, WellFoundedInduction, TLAPS

BankTyped ==
    /\ bal \in [Ply -> Int]
    /\ loan \subseteq Ply
    /\ DOMAIN file = Ply
    /\ \A p \in Ply : file[p].bal \in Int /\ file[p].loan \in BOOLEAN

IInv == BankTyped /\ DebtIsFlagged

-----------------------------------------------------------------------------

\* A fee is no more than what it is taken from.
LEMMA Fee ==
    ASSUME NEW amt \in Nat, NEW share \in Nat \ {0}
    PROVE  amt \div share \in Nat /\ amt \div share <= amt
  OBVIOUS

\* What the assumption says of the terms of the bank.
LEMMA Terms ==
    /\ DepositShare \in Nat \ {0} /\ TransferShare \in Nat \ {0} /\ LoanShare \in Nat \ {0}
    /\ BalanceFee \in Nat /\ SmallBalance \in Nat /\ BalanceFee <= SmallBalance
    /\ Tithe \in Nat /\ MinLoan \in Nat \ {0} /\ MaxLoan \in Nat /\ MaxGold \in Nat
  BY PurseAssumption

\* At the start nobody owes anything.
LEMMA InitIInv == Init => IInv
<1> SUFFICES ASSUME Init PROVE IInv
  OBVIOUS
<1>1. \A p \in Ply : bal[p] = 0 /\ file[p].bal = 0 /\ file[p].loan = FALSE
  BY DEF Init
<1>2. bal \in [Ply -> Int] /\ loan = {} /\ DOMAIN file = Ply
  BY DEF Init
<1>3. \A p \in Ply : ~file[p].loan /\ file[p].loan \in BOOLEAN
  BY <1>1
<1>4. BankTyped
  BY <1>1, <1>2, <1>3 DEF BankTyped
<1>5. DebtIsFlagged
  <2> SUFFICES ASSUME NEW p \in Ply
               PROVE  (p \in loan <=> bal[p] < 0) /\ (file[p].loan <=> file[p].bal < 0)
    BY DEF DebtIsFlagged
  <2>1. ~(bal[p] < 0) /\ ~(file[p].bal < 0)
    BY <1>1
  <2> QED BY <2>1, <1>2, <1>3, Zenon
<1> QED BY <1>4, <1>5 DEF IInv

\* A step that leaves the accounts and the files alone.
LEMMA Unchanged == IInv /\ UNCHANGED <<bal, loan, file>> => IInv'
  BY DEF IInv, BankTyped, DebtIsFlagged

\* A save writes the debt and the flag together, a crash reads them together.
LEMMA SaveStep == IInv /\ (SaveNext \/ Crash) => IInv'
<1> USE DEF IInv, BankTyped, DebtIsFlagged
<1>1. ASSUME IInv, SaveNext PROVE IInv'
  <2> DEFINE p == Head(todo)
  <2>1. /\ file' = [file EXCEPT ![p] = [gold |-> gold[p], bal |-> bal[p],
                                        loan |-> p \in loan, used |-> p \in used]]
        /\ UNCHANGED <<bal, loan>>
    BY <1>1 DEF SaveNext, bank
  <2>2. ASSUME NEW q \in Ply
        PROVE  \/ file'[q] = file[q]
               \/ file'[q].bal = bal[q] /\ file'[q].loan = (q \in loan)
    BY <1>1, <2>1
  <2>3. DOMAIN file' = Ply
    BY <1>1, <2>1
  <2>4. \A q \in Ply : (q \in loan) \in BOOLEAN
    OBVIOUS
  <2> QED BY <1>1, <2>1, <2>2, <2>3, <2>4
<1>2. ASSUME IInv, Crash PROVE IInv'
  BY <1>2 DEF Crash
<1> QED BY <1>1, <1>2

\* The handlers that touch an account, each with why the flag is still right.
LEMMA BalanceStep == ASSUME IInv, NEW p \in Ply, bank_balance(p) PROVE IInv'
  BY Terms DEF bank_balance, IInv, BankTyped, DebtIsFlagged

\* A withdrawal.
LEMMA WithdrawStep ==
    ASSUME IInv, NEW p \in Ply, NEW amt \in Nat, bank_withdraw(p, amt) PROVE IInv'
  BY DEF bank_withdraw, IInv, BankTyped, DebtIsFlagged

\* A deposit repays all of a debt.
LEMMA DepositStep ==
    ASSUME IInv, NEW p \in Ply, NEW amt \in Nat, bank_deposit(p, amt) PROVE IInv'
<1>1. amt \div DepositShare \in Nat /\ amt \div DepositShare <= amt
  BY Fee, Terms
<1>2. CASE p \in loan
  BY <1>2 DEF bank_deposit, IInv, BankTyped, DebtIsFlagged
<1>3. CASE p \notin loan
  <2>1. bal' = [bal EXCEPT ![p] = @ + amt - amt \div DepositShare]
    BY <1>3 DEF bank_deposit
  <2>2. loan' = loan /\ file' = file
    BY <1>3 DEF bank_deposit, IInv, BankTyped
  <2>3. bal'[p] \in Int /\ bal'[p] >= 0
    BY <1>1, <1>3, <2>1 DEF IInv, BankTyped, DebtIsFlagged
  <2> QED BY <1>3, <2>1, <2>2, <2>3 DEF IInv, BankTyped, DebtIsFlagged
<1> QED BY <1>2, <1>3

\* The payer has what he pays, so he owes nothing, before or after; the flag
\* of the receiver goes with the last of his debt.
LEMMA TransferStep ==
    ASSUME IInv, NEW p \in Ply, NEW q \in Ply, NEW amt \in Nat, bank_transfer(p, q, amt)
    PROVE  IInv'
<1> DEFINE fee == amt \div TransferShare
<1>1. fee \in Nat
  BY Fee, Terms
<1> HIDE DEF fee
<1>2. /\ p # q /\ amt + fee <= bal[p] /\ file' = file
      /\ bal' = [bal EXCEPT ![p] = @ - (amt + fee), ![q] = @ + amt]
      /\ loan' = IF PaidOff(bal'[q]) THEN loan \ {q} ELSE loan
  BY DEF bank_transfer, fee
<1>3. bal[p] \in Int /\ bal[q] \in Int
  BY DEF IInv, BankTyped
<1>4. /\ bal'[p] = bal[p] - (amt + fee) /\ bal'[q] = bal[q] + amt
      /\ \A r \in Ply \ {p, q} : bal'[r] = bal[r]
      /\ bal' \in [Ply -> Int]
  BY <1>1, <1>2, <1>3 DEF IInv, BankTyped
<1>5. p \notin loan /\ p \notin loan' /\ bal'[p] >= 0
  BY <1>1, <1>2, <1>3, <1>4 DEF IInv, DebtIsFlagged
<1>6. q \in loan' <=> bal'[q] < 0
  BY <1>2, <1>3, <1>4 DEF IInv, DebtIsFlagged, PaidOff
<1> QED BY <1>2, <1>4, <1>5, <1>6 DEF IInv, BankTyped, DebtIsFlagged

\* A loan starts from nothing and is a debt.
LEMMA LoanStep ==
    ASSUME IInv, NEW p \in Ply, NEW amt \in Nat, bank_loan(p, amt) PROVE IInv'
<1> DEFINE debt == amt + amt \div LoanShare
<1>1. amt > 0 /\ amt \div LoanShare \in Nat
  BY Fee, Terms DEF bank_loan
<1>2. debt \in Nat /\ debt > 0
  BY <1>1
<1> HIDE DEF debt
<1>3. /\ bal[p] <= 0 /\ p \notin loan /\ file' = file
      /\ bal' = [bal EXCEPT ![p] = -(@ + debt)]
      /\ loan' = loan \cup {p}
  BY DEF bank_loan, debt
<1>4. bal[p] = 0
  BY <1>3 DEF IInv, BankTyped, DebtIsFlagged
<1>5. bal'[p] \in Int /\ bal'[p] < 0
  BY <1>2, <1>3, <1>4 DEF IInv, BankTyped
<1> QED BY <1>3, <1>5 DEF IInv, BankTyped, DebtIsFlagged

\* Absolution.
LEMMA AbsolveStep == ASSUME IInv, NEW p \in Ply, absolve(p) PROVE IInv'
  BY Terms DEF absolve, IInv, BankTyped, DebtIsFlagged

\* Training.
LEMMA TrainStep ==
    ASSUME IInv, NEW p \in Ply, NEW cost \in Nat, train(p, cost) PROVE IInv'
  BY DEF train, MayTrain, IInv, BankTyped, DebtIsFlagged

-----------------------------------------------------------------------------

\* The other handlers move gold and no balance.
LEMMA MakesStep == IInv /\ Makes => IInv'
  BY Unchanged
     DEF Makes, Appear, sell, transmute, pledge, recycle, Earns, bank

\* Handlers that may use gold up.
LEMMA UsesStep == IInv /\ Uses => IInv'
<1> SUFFICES ASSUME IInv, Uses PROVE IInv'
  OBVIOUS
<1>0. \A amt \in Amount : amt \in Nat
  BY Terms DEF Amount
<1>1. ASSUME NEW p \in Ply, NEW amt \in Amount,
             \/ buy(p, amt) \/ purchase(p, amt) \/ recharge_wand(p, amt)
             \/ rescind(p, amt) \/ silver_renew(p, amt) \/ repair(p, amt)
             \/ renew(p, amt) \/ gatekeeper(p, amt) \/ train_gold(p, amt)
             \/ drop_slime(p, amt)
             \/ \E m \in Mon : bribe(p, m, amt)
      PROVE  IInv'
  BY <1>1, Unchanged
     DEF buy, purchase, recharge_wand, rescind, silver_renew, repair, renew,
         gatekeeper, train_gold, drop_slime, bribe, Pays, bank
<1>2. ASSUME NEW p \in Ply, horns(p) \/ drop_negative(p) PROVE IInv'
  BY <1>2, Unchanged DEF horns, drop_negative, Pays, bank
<1>3. ASSUME NEW m \in Mon, NEW h \in Heap, die(m, h) PROVE IInv'
  BY <1>3, Unchanged DEF die, bank
<1> QED BY <1>0, <1>1, <1>2, <1>3, BalanceStep, DepositStep, TransferStep, LoanStep,
           AbsolveStep, TrainStep
        DEF Uses

\* Handlers that only move it.
LEMMA MovesStep == IInv /\ Moves => IInv'
<1> SUFFICES ASSUME IInv, Moves PROVE IInv'
  OBVIOUS
<1>1. ASSUME NEW p \in Ply, NEW amt \in 0..MaxGold, bank_withdraw(p, amt) PROVE IInv'
  BY <1>1, WithdrawStep, Terms
<1>2. ASSUME SaveNext PROVE IInv'
  BY <1>2, SaveStep
<1>3. ASSUME NEW p \in Ply,
             \/ savegame(p)
             \/ \E amt \in Amount :
                  \/ \E q \in Purses : give_money(p, q, amt)
                  \/ \E m \in Mon : pay_porter(p, m, amt)
                  \/ \E h \in Heap : drop(p, amt, h)
             \/ \E q \in Purses : stealgold(p, q)
             \/ \E fol \in SUBSET Purses :
                  \/ \E h \in Heap : get_obj(p, h, fol)
                  \/ \E hs \in SUBSET Heap \ {{}} : get_all_rom(p, hs, fol)
      PROVE  IInv'
  BY <1>3, Unchanged
     DEF savegame, give_money, pay_porter, drop, stealgold, get_obj, get_all_rom, bank
<1> QED BY <1>1, <1>2, <1>3 DEF Moves

\* No step parts a debt from its flag.
LEMMA NextIInv == IInv /\ [Next]_vars => IInv'
<1>1. IInv /\ UNCHANGED vars => IInv'
  BY Unchanged DEF vars, bank
<1> QED BY <1>1, MakesStep, UsesStep, MovesStep, SaveStep DEF Next

\* Who has PLOANB owes the bank, and nobody else does, in memory and in the
\* files.
THEOREM DebtAlwaysFlagged == Spec => []DebtIsFlagged
<1>1. IInv => DebtIsFlagged
  BY DEF IInv
<1> QED BY <1>1, InitIInv, NextIInv, PTL DEF Spec

-----------------------------------------------------------------------------
(* Sets and sums.                                                          *)

\* Every set of numbers has a least one.
LEMMA Least ==
    ASSUME NEW T \in SUBSET Nat, T # {}
    PROVE  \E x \in T : \A y \in T : x <= y
<1>1. IsWellFoundedOn(OpToRel(<, Nat), Nat)
  BY NatLessThanWellFounded
<1>2. PICK x \in T : \A y \in T : <<y, x>> \notin OpToRel(<, Nat)
  BY <1>1, WFMin
<1>3. \A y \in T : ~(y < x)
  BY <1>2 DEF OpToRel
<1> QED BY <1>3

\* What holds of the empty set, and of a set with one element more whenever it
\* holds of the set, holds of a finite set: Good is the set of the sets it
\* holds of.
LEMMA SetInduction ==
    ASSUME NEW S, IsFiniteSet(S), NEW Good, {} \in Good,
           \A T \in SUBSET S : \A x \in S \ T : T \in Good => T \cup {x} \in Good
    PROVE  S \in Good
<1> DEFINE Bad == {n \in Nat : \E T \in SUBSET S : T \notin Good /\ Cardinality(T) = n}
<1>1. \A T \in SUBSET S : IsFiniteSet(T) /\ Cardinality(T) \in Nat
  BY FS_Subset, FS_CardinalityType
<1>2. Bad = {}
  <2> SUFFICES ASSUME Bad # {} PROVE FALSE
    OBVIOUS
  <2>1. PICK n \in Bad : \A k \in Bad : n <= k
    <3>1. Bad \in SUBSET Nat
      OBVIOUS
    <3> HIDE DEF Bad
    <3> QED BY <3>1, Least
  <2>2. PICK T \in SUBSET S : T \notin Good /\ Cardinality(T) = n
    OBVIOUS
  <2>3. PICK x \in T : TRUE
    BY <2>2
  <2> DEFINE U == T \ {x}
  <2>4. Cardinality(U) = n - 1 /\ n - 1 \in Nat /\ U \in SUBSET S /\ U \cup {x} = T
        /\ x \in S \ U
    <3>1. Cardinality(U) = Cardinality(T) - 1
      BY <1>1, <2>2, <2>3, FS_RemoveElement
    <3>2. Cardinality(U) \in Nat
      BY <1>1
    <3>3. U \cup {x} = T
      BY <2>3
    <3> QED BY <2>2, <3>1, <3>2, <3>3
  <2>5. U \notin Good
    BY <2>2, <2>4
  <2>6. n - 1 \in Bad
    BY <2>4, <2>5
  <2> QED BY <2>1, <2>4, <2>6
<1> QED BY <1>1, <1>2

-----------------------------------------------------------------------------
(* Sums.                                                                   *)

SumOver(f, S) == MapThenSumSet(LAMBDA x : f[x], S)
Pick(T) == CHOOSE x \in T : TRUE

\* The recursion of MapThenSumSet.
Adds(f, S, it) ==
    it = [T \in SUBSET S |-> IF T = {} THEN 0 ELSE f[Pick(T)] + it[T \ {Pick(T)}]]

\* A sum over S is a function on the subsets of S.
LEMMA SumDef ==
    ASSUME NEW f, NEW S
    PROVE  SumOver(f, S) = (CHOOSE it : Adds(f, S, it))[S]
BY DEF SumOver, MapThenSumSet, MapThenFoldSet, Pick, Adds

\* it adds f up on the sets of no more than n elements.
AddsUpTo(f, S, n, it) ==
    /\ it = [T \in {U \in SUBSET S : Cardinality(U) <= n} |->
                IF T = {} THEN 0 ELSE f[Pick(T)] + it[T \ {Pick(T)}]]

\* A set without one of its elements has one less.
LEMMA Picked ==
    ASSUME NEW S, IsFiniteSet(S), NEW T \in SUBSET S, T # {}
    PROVE  /\ Pick(T) \in T /\ IsFiniteSet(T) /\ Cardinality(T) \in Nat \ {0}
           /\ T \ {Pick(T)} \in SUBSET S
           /\ Cardinality(T \ {Pick(T)}) = Cardinality(T) - 1
<1>1. Pick(T) \in T
  BY DEF Pick
<1>2. IsFiniteSet(T) /\ Cardinality(T) \in Nat
  BY FS_Subset, FS_CardinalityType
<1>3. Cardinality(T) # 0
  BY <1>2, FS_EmptySet
<1>4. Cardinality(T \ {Pick(T)}) = Cardinality(T) - 1
  BY <1>1, <1>2, FS_RemoveElement
<1> QED BY <1>1, <1>2, <1>3, <1>4

\* There is such a function, by induction on the size of S.
LEMMA AddsExists ==
    ASSUME NEW f, NEW S, IsFiniteSet(S)
    PROVE  \E it : Adds(f, S, it)
<1> DEFINE Small(n) == {U \in SUBSET S : Cardinality(U) <= n}
           Bad == {n \in Nat : ~ \E it : AddsUpTo(f, S, n, it)}
           Val(it, T) == IF T = {} THEN 0 ELSE f[Pick(T)] + it[T \ {Pick(T)}]
<1>1. Bad = {}
  <2> SUFFICES ASSUME Bad # {} PROVE FALSE
    OBVIOUS
  <2>1. PICK n \in Bad : \A k \in Bad : n <= k
    <3>1. Bad \in SUBSET Nat
      OBVIOUS
    <3> HIDE DEF Bad
    <3> QED BY <3>1, Least
  <2>2. \E g : n # 0 => AddsUpTo(f, S, n - 1, g)
    <3>1. CASE n = 0
      BY <3>1
    <3>2. CASE n # 0
      <4>1. n - 1 \in Nat /\ ~(n <= n - 1)
        BY <3>2
      <4>2. n - 1 \notin Bad
        BY <2>1, <4>1
      <4> QED BY <4>1, <4>2
    <3> QED BY <3>1, <3>2
  <2>3. PICK g : n # 0 => AddsUpTo(f, S, n - 1, g)
    BY <2>2
  <2> DEFINE it == [T \in Small(n) |-> Val(g, T)]
  <2>4. ASSUME NEW T \in Small(n) PROVE Val(g, T) = Val(it, T)
    <3>1. CASE T = {}
      BY <3>1
    <3>2. CASE T # {}
      <4> DEFINE U == T \ {Pick(T)}
      <4>1. U \in Small(n - 1) /\ U \in Small(n) /\ n # 0
        <5>1. Cardinality(T) \in Nat \ {0} /\ Cardinality(U) = Cardinality(T) - 1
              /\ U \in SUBSET S
          BY <3>2, Picked
        <5> HIDE DEF U
        <5> QED BY <5>1
      <4>2. g[U] = Val(g, U)
        <5>1. g = [V \in Small(n - 1) |-> Val(g, V)]
          BY <2>3, <4>1 DEF AddsUpTo
        <5> HIDE DEF U, Val, Small
        <5> QED BY <5>1, <4>1
      <4>3. it[U] = Val(g, U)
        <5> HIDE DEF U, Val, Small
        <5> QED BY <4>1
      <4> HIDE DEF it
      <4> QED BY <3>2, <4>2, <4>3
    <3> QED BY <3>1, <3>2
  <2>5. it = [T \in Small(n) |-> Val(it, T)]
    <3>1. it = [T \in Small(n) |-> Val(g, T)]
      OBVIOUS
    <3> HIDE DEF it, Val, Small
    <3> QED BY <3>1, <2>4
  <2>6. AddsUpTo(f, S, n, it)
    BY <2>5, Zenon DEF AddsUpTo
  <2> QED BY <2>1, <2>6
<1>2. Cardinality(S) \in Nat /\ Small(Cardinality(S)) = SUBSET S
  BY FS_CardinalityType, FS_Subset
<1>3. PICK it : AddsUpTo(f, S, Cardinality(S), it)
  BY <1>1, <1>2
<1>4. Adds(f, S, it)
  BY <1>2, <1>3, Zenon DEF Adds, AddsUpTo
<1> QED BY <1>4

\* Two recursions agree where both are defined.
LEMMA AddsAgree ==
    ASSUME NEW f, NEW S, IsFiniteSet(S), NEW T \in SUBSET S,
           NEW it, Adds(f, S, it), NEW jt, Adds(f, T, jt)
    PROVE  it[T] = jt[T]
<1> DEFINE Bad == {n \in Nat : \E U \in SUBSET T : Cardinality(U) = n /\ it[U] # jt[U]}
<1>0. IsFiniteSet(T)
  BY FS_Subset
<1>1. Bad = {}
  <2> SUFFICES ASSUME Bad # {} PROVE FALSE
    OBVIOUS
  <2>1. PICK n \in Bad : \A k \in Bad : n <= k
    <3>1. Bad \in SUBSET Nat
      OBVIOUS
    <3> HIDE DEF Bad
    <3> QED BY <3>1, Least
  <2>2. PICK U \in SUBSET T : Cardinality(U) = n /\ it[U] # jt[U]
    OBVIOUS
  <2>3. /\ it[U] = IF U = {} THEN 0 ELSE f[Pick(U)] + it[U \ {Pick(U)}]
        /\ jt[U] = IF U = {} THEN 0 ELSE f[Pick(U)] + jt[U \ {Pick(U)}]
    <3>1. U \in SUBSET S /\ U \in SUBSET T
      OBVIOUS
    <3> QED BY <3>1, Zenon DEF Adds
  <2>4. U # {}
    BY <2>2, <2>3
  <2> DEFINE V == U \ {Pick(U)}
  <2>5. Cardinality(V) = n - 1 /\ n - 1 \in Nat /\ V \in SUBSET T /\ ~(n <= n - 1)
    BY <1>0, <2>2, <2>4, Picked
  <2>6. n - 1 \notin Bad
    BY <2>1, <2>5
  <2>7. it[V] = jt[V]
    BY <2>5, <2>6
  <2> HIDE DEF V
  <2> QED BY <2>2, <2>3, <2>4, <2>7 DEF V
<1>2. Cardinality(T) \in Nat
  BY <1>0, FS_CardinalityType
<1> QED BY <1>1, <1>2

\* A sum is one element and the sum of the others.
LEMMA SumRecursion ==
    ASSUME NEW f, NEW S, IsFiniteSet(S)
    PROVE  SumOver(f, S) = IF S = {} THEN 0 ELSE f[Pick(S)] + SumOver(f, S \ {Pick(S)})
<1> DEFINE it == CHOOSE it : Adds(f, S, it)
           T == S \ {Pick(S)}
           jt == CHOOSE jt : Adds(f, T, jt)
<1>1. Adds(f, S, it) /\ SumOver(f, S) = it[S]
  BY AddsExists, SumDef
<1>2. IsFiniteSet(T) /\ T \in SUBSET S
  BY FS_Subset
<1>3. Adds(f, T, jt) /\ SumOver(f, T) = jt[T]
  <2> HIDE DEF T
  <2> QED BY <1>2, AddsExists, SumDef
<1> HIDE DEF it, jt
<1>4. it[T] = jt[T]
  <2> HIDE DEF T
  <2> QED BY <1>1, <1>2, <1>3, AddsAgree
<1>5. S \in SUBSET S
  OBVIOUS
<1>6. it[S] = IF S = {} THEN 0 ELSE f[Pick(S)] + it[T]
  BY <1>1, <1>5, Zenon DEF Adds
<1> HIDE DEF T
<1>7. SumOver(f, S) = IF S = {} THEN 0 ELSE f[Pick(S)] + SumOver(f, T)
  BY <1>1, <1>3, <1>4, <1>6
<1> QED BY <1>7 DEF T

\* The sum is a number, and any element can be the last that is added.
LEMMA SumAnyLast ==
    ASSUME NEW f, NEW S, IsFiniteSet(S), \A x \in S : f[x] \in Int
    PROVE  /\ SumOver(f, S) \in Int
           /\ \A x \in S : SumOver(f, S) = f[x] + SumOver(f, S \ {x})
<1> DEFINE OK(T) == SumOver(f, T) \in Int /\ \A x \in T : SumOver(f, T) = f[x] + SumOver(f, T \ {x})
           Bad == {n \in Nat : \E T \in SUBSET S : Cardinality(T) = n /\ ~OK(T)}
<1>1. Bad = {}
  <2> SUFFICES ASSUME Bad # {} PROVE FALSE
    OBVIOUS
  <2>1. PICK n \in Bad : \A k \in Bad : n <= k
    <3>1. Bad \in SUBSET Nat
      OBVIOUS
    <3> HIDE DEF Bad
    <3> QED BY <3>1, Least
  <2>2. PICK T \in SUBSET S : Cardinality(T) = n /\ ~OK(T)
    OBVIOUS
  <2>3. \A U \in SUBSET S : IsFiniteSet(U) /\ Cardinality(U) \in Nat
    BY FS_Subset, FS_CardinalityType
  <2>4. ASSUME NEW U \in SUBSET T, U # T PROVE OK(U)
    <3>1. Cardinality(U) <= n /\ Cardinality(U) # n
      BY <2>2, <2>3, <2>4, FS_Subset
    <3>2. Cardinality(U) \notin Bad /\ Cardinality(U) \in Nat /\ U \in SUBSET S
      BY <2>1, <2>3, <3>1
    <3> HIDE DEF OK
    <3> QED BY <3>2
  <2>5. SumOver(f, T) = IF T = {} THEN 0 ELSE f[Pick(T)] + SumOver(f, T \ {Pick(T)})
    BY <2>3, SumRecursion
  <2>6. CASE T = {}
    BY <2>2, <2>5, <2>6
  <2>7. CASE T # {}
    <3> DEFINE c == Pick(T)
    <3>1. c \in T
      BY <2>7 DEF Pick
    <3> HIDE DEF c
    <3>2. SumOver(f, T) = f[c] + SumOver(f, T \ {c})
      BY <2>5, <2>7 DEF c
    <3>3. OK(T \ {c})
      BY <2>4, <3>1
    <3>4. f[c] \in Int /\ SumOver(f, T) \in Int
      BY <3>1, <3>2, <3>3
    <3>5. ASSUME NEW x \in T PROVE SumOver(f, T) = f[x] + SumOver(f, T \ {x})
      <4>1. CASE x = c
        BY <4>1, <3>2
      <4>2. CASE x # c
        <5> DEFINE W == (T \ {c}) \ {x}
        <5>1. x \in T \ {c} /\ c \in T \ {x} /\ W = (T \ {x}) \ {c} /\ W # T
          BY <3>1, <4>2
        <5>2. SumOver(f, T \ {c}) = f[x] + SumOver(f, W)
          BY <3>3, <5>1
        <5>3. OK(T \ {x}) /\ OK(W)
          BY <2>4, <5>1
        <5>4. SumOver(f, T \ {x}) = f[c] + SumOver(f, W)
          BY <5>1, <5>3
        <5>5. f[x] \in Int /\ SumOver(f, W) \in Int
          BY <5>3
        <5> HIDE DEF W
        <5> QED BY <3>2, <3>4, <5>2, <5>4, <5>5
      <4> QED BY <4>1, <4>2
    <3> QED BY <2>2, <3>4, <3>5
  <2> QED BY <2>6, <2>7
<1>2. Cardinality(S) \in Nat /\ S \in SUBSET S
  BY FS_CardinalityType
<1> HIDE DEF OK
<1>3. OK(S)
  BY <1>1, <1>2
<1> QED BY <1>3 DEF OK

\* What one element adds to the sum over a subset of S.
LEMMA SumsOf ==
    ASSUME NEW f, NEW S, IsFiniteSet(S), \A x \in S : f[x] \in Int
    PROVE  /\ SumOver(f, {}) = 0
           /\ \A T \in SUBSET S : SumOver(f, T) \in Int /\ IsFiniteSet(T)
           /\ \A T \in SUBSET S : \A x \in S \ T : SumOver(f, T \cup {x}) = SumOver(f, T) + f[x]
<1>1. \A T \in SUBSET S : SumOver(f, T) \in Int /\ IsFiniteSet(T)
  BY FS_Subset, SumAnyLast
<1>2. SumOver(f, {}) = 0
  <2>1. IsFiniteSet({})
    BY FS_EmptySet
  <2> QED BY <2>1, SumRecursion
<1>3. ASSUME NEW T \in SUBSET S, NEW x \in S \ T
      PROVE  SumOver(f, T \cup {x}) = SumOver(f, T) + f[x]
  <2> DEFINE U == T \cup {x}
             W == U \ {x}
  <2>1. U \in SUBSET S /\ x \in U /\ (\A y \in U : f[y] \in Int)
    OBVIOUS
  <2>2. W = T
    OBVIOUS
  <2>3. IsFiniteSet(U)
    BY <2>1, <1>1
  <2> HIDE DEF U
  <2>4. SumOver(f, U) = f[x] + SumOver(f, W)
    BY <2>1, <2>3, SumAnyLast
  <2> HIDE DEF W
  <2>5. SumOver(f, U) = SumOver(f, T) + f[x]
    BY <1>1, <2>2, <2>4
  <2> QED BY <2>5 DEF U
<1> QED BY <1>1, <1>2, <1>3

\* A sum can be told by its value for the empty set and by what each element
\* adds: F gives the sum over each subset of S.
LEMMA SumIs ==
    ASSUME NEW f, NEW S, IsFiniteSet(S), \A x \in S : f[x] \in Int,
           NEW F, F[{}] = 0,
           \A T \in SUBSET S : \A x \in S \ T : F[T \cup {x}] = F[T] + f[x]
    PROVE  SumOver(f, S) = F[S]
<1> DEFINE Good == {T \in SUBSET S : SumOver(f, T) = F[T]}
<1>1. {} \in Good
  BY SumsOf
<1>2. ASSUME NEW T \in SUBSET S, NEW x \in S \ T, T \in Good PROVE T \cup {x} \in Good
  <2>1. SumOver(f, T \cup {x}) = SumOver(f, T) + f[x]
    BY SumsOf
  <2>2. F[T \cup {x}] = F[T] + f[x] /\ SumOver(f, T) = F[T]
    BY <1>2
  <2>3. SumOver(f, T \cup {x}) = F[T \cup {x}] /\ T \cup {x} \in SUBSET S
    BY <2>1, <2>2, Zenon
  <2> QED BY <2>3
<1>3. S \in Good
  <2> HIDE DEF Good
  <2> QED BY <1>1, <1>2, SetInduction
<1> QED BY <1>3

\* The sum is over the values on S only.
LEMMA SumSame ==
    ASSUME NEW f, NEW g, NEW S, IsFiniteSet(S), \A x \in S : f[x] = g[x] /\ g[x] \in Int
    PROVE  SumOver(f, S) = SumOver(g, S)
<1> DEFINE F == [T \in SUBSET S |-> SumOver(g, T)]
<1>0. \A x \in S : g[x] \in Int
  OBVIOUS
<1>1. F[{}] = 0
  BY <1>0, SumsOf
<1>2. ASSUME NEW T \in SUBSET S, NEW x \in S \ T
      PROVE  F[T \cup {x}] = F[T] + f[x]
  <2>1. SumOver(g, T \cup {x}) = SumOver(g, T) + g[x]
    BY <1>0, SumsOf
  <2>2. F[T] = SumOver(g, T) /\ F[T \cup {x}] = SumOver(g, T \cup {x}) /\ f[x] = g[x]
    OBVIOUS
  <2> HIDE DEF F
  <2> QED BY <2>1, <2>2
<1>5. F[S] = SumOver(g, S)
  OBVIOUS
<1>3. \A x \in S : f[x] \in Int
  OBVIOUS
<1> HIDE DEF F
<1>9. IsFiniteSet(S)
  OBVIOUS
<1>4. SumOver(f, S) = F[S]
  BY ONLY <1>9, <1>1, <1>2, <1>3, SumIs, ZenonT(40)
<1> QED BY <1>4, <1>5

\* One value more or less.
LEMMA SumExcept ==
    ASSUME NEW S, IsFiniteSet(S), NEW f \in [S -> Int], NEW g \in [S -> Int],
           NEW x \in S, \A y \in S \ {x} : g[y] = f[y]
    PROVE  SumOver(g, S) = SumOver(f, S) - f[x] + g[x]
<1> DEFINE T == S \ {x}
<1>1. (\A y \in S : f[y] \in Int /\ g[y] \in Int) /\ \A y \in T : g[y] = f[y] /\ f[y] \in Int
  OBVIOUS
<1>2. IsFiniteSet(T)
  BY FS_Subset
<1>3. SumOver(g, S) = g[x] + SumOver(g, T) /\ SumOver(f, S) = f[x] + SumOver(f, T)
  BY <1>1, SumAnyLast
<1>4. SumOver(g, T) = SumOver(f, T) /\ SumOver(f, T) \in Int
  <2> HIDE DEF T
  <2> QED BY <1>1, <1>2, SumSame, SumAnyLast
<1> HIDE DEF T
<1> QED BY <1>1, <1>3, <1>4

\* Sums of functions add.
LEMMA SumPlus ==
    ASSUME NEW S, IsFiniteSet(S), NEW f, NEW g, NEW h,
           \A x \in S : f[x] \in Int /\ g[x] \in Int /\ h[x] = f[x] + g[x]
    PROVE  SumOver(h, S) = SumOver(f, S) + SumOver(g, S)
<1> DEFINE F == [T \in SUBSET S |-> SumOver(f, T) + SumOver(g, T)]
<1>0. (\A x \in S : f[x] \in Int) /\ (\A x \in S : g[x] \in Int)
  OBVIOUS
<1>1. F[{}] = 0
  <2>1. SumOver(f, {}) = 0 /\ SumOver(g, {}) = 0
    BY <1>0, SumsOf
  <2> QED BY <2>1
<1>5. F[S] = SumOver(f, S) + SumOver(g, S)
  OBVIOUS
<1>2. ASSUME NEW T \in SUBSET S, NEW x \in S \ T
      PROVE  F[T \cup {x}] = F[T] + h[x]
  <2>1. /\ SumOver(f, T) \in Int /\ SumOver(f, T \cup {x}) = SumOver(f, T) + f[x]
        /\ SumOver(g, T) \in Int /\ SumOver(g, T \cup {x}) = SumOver(g, T) + g[x]
    BY <1>0, SumsOf
  <2>2. F[T] = SumOver(f, T) + SumOver(g, T)
        /\ F[T \cup {x}] = SumOver(f, T \cup {x}) + SumOver(g, T \cup {x})
    OBVIOUS
  <2>3. f[x] \in Int /\ g[x] \in Int /\ h[x] = f[x] + g[x]
    OBVIOUS
  <2> HIDE DEF F
  <2> QED BY <2>1, <2>2, <2>3
<1>3. \A x \in S : h[x] \in Int
  OBVIOUS
<1> HIDE DEF F
<1>9. IsFiniteSet(S)
  OBVIOUS
<1>4. SumOver(h, S) = F[S]
  BY ONLY <1>9, <1>1, <1>2, <1>3, SumIs, ZenonT(40)
<1> QED BY <1>4, <1>5

\* A sum of what is not negative is not.
LEMMA SumNotNegative ==
    ASSUME NEW S, IsFiniteSet(S), NEW f, \A x \in S : f[x] \in Nat
    PROVE  SumOver(f, S) \in Nat
<1> DEFINE Good == {T \in SUBSET S : SumOver(f, T) \in Nat}
<1>0. \A x \in S : f[x] \in Int
  OBVIOUS
<1>1. {} \in Good
  <2>1. SumOver(f, {}) = 0
    BY <1>0, SumsOf
  <2> QED BY <2>1
<1>2. ASSUME NEW T \in SUBSET S, NEW x \in S \ T, T \in Good PROVE T \cup {x} \in Good
  <2>1. SumOver(f, T \cup {x}) = SumOver(f, T) + f[x]
    BY <1>0, SumsOf
  <2>2. SumOver(f, T \cup {x}) \in Nat
    BY <1>2, <2>1
  <2> QED BY <2>2
<1> HIDE DEF Good
<1>3. S \in Good
  BY <1>1, <1>2, SetInduction
<1> QED BY <1>3 DEF Good

\* A sum of what is no more is no more.
LEMMA SumLeq ==
    ASSUME NEW S, IsFiniteSet(S), NEW f, NEW g,
           \A x \in S : f[x] \in Int /\ g[x] \in Int /\ f[x] <= g[x]
    PROVE  SumOver(f, S) <= SumOver(g, S)
<1> DEFINE d == [x \in S |-> g[x] - f[x]]
<1>1. \A x \in S : d[x] \in Nat /\ d[x] \in Int /\ g[x] = f[x] + d[x]
  OBVIOUS
<1> HIDE DEF d
<1>2. SumOver(g, S) = SumOver(f, S) + SumOver(d, S)
  BY <1>1, SumPlus
<1>3. SumOver(d, S) \in Nat
  BY <1>1, SumNotNegative
<1>4. SumOver(f, S) \in Int
  BY SumAnyLast
<1> QED BY <1>2, <1>3, <1>4

\* What is 0 off a subset can be summed over the subset.
LEMMA SumOn ==
    ASSUME NEW S, IsFiniteSet(S), NEW A \in SUBSET S, NEW f, NEW g,
           \A x \in A : f[x] \in Int,
           \A x \in S : g[x] = IF x \in A THEN f[x] ELSE 0
    PROVE  SumOver(g, S) = SumOver(f, A)
<1> DEFINE F == [T \in SUBSET S |-> SumOver(f, T \cap A)]
<1>0. IsFiniteSet(A)
  BY FS_Subset
<1>1. F[{}] = 0
  <2>1. {} \cap A = {}
    OBVIOUS
  <2> QED BY <2>1, SumRecursion, FS_EmptySet
<1>2. ASSUME NEW T \in SUBSET S, NEW x \in S \ T
      PROVE  F[T \cup {x}] = F[T] + g[x]
  <2>1. F[T] = SumOver(f, T \cap A) /\ F[T \cup {x}] = SumOver(f, (T \cup {x}) \cap A)
    OBVIOUS
  <2>2. SumOver(f, T \cap A) \in Int
    <3>1. IsFiniteSet(T \cap A) /\ \A y \in T \cap A : f[y] \in Int
      BY <1>0, FS_Subset
    <3> QED BY <3>1, SumAnyLast
  <2> HIDE DEF F
  <2>3. CASE x \in A
    <3>1. (T \cup {x}) \cap A = (T \cap A) \cup {x}
      BY <2>3
    <3> DEFINE V == T \cap A
    <3>2. V \in SUBSET A /\ x \notin V
      OBVIOUS
    <3> HIDE DEF V
    <3>3. SumOver(f, V \cup {x}) = SumOver(f, V) + f[x]
      BY <1>0, <2>3, <3>2, SumsOf
    <3> QED BY <2>1, <2>3, <3>1, <3>3 DEF V
  <2>4. CASE x \notin A
    <3> DEFINE V == T \cap A
               W == (T \cup {x}) \cap A
    <3>1. W = V /\ g[x] = 0
      BY <2>4
    <3>2. F[T] = SumOver(f, V) /\ F[T \cup {x}] = SumOver(f, W) /\ SumOver(f, V) \in Int
      BY <2>1, <2>2
    <3> HIDE DEF V, W
    <3> QED BY <3>1, <3>2
  <2> QED BY <2>3, <2>4
<1>3. \A x \in S : g[x] \in Int
  OBVIOUS
<1> HIDE DEF F
<1>9. IsFiniteSet(S)
  OBVIOUS
<1>4. SumOver(g, S) = F[S]
  BY ONLY <1>9, <1>1, <1>2, <1>3, SumIs, ZenonT(40)
<1> DEFINE B == S \cap A
<1>5. B = A /\ F[S] = SumOver(f, B)
  BY DEF F
<1> HIDE DEF B
<1> QED BY <1>4, <1>5

\* A sum of equal values.
LEMMA SumConstant ==
    ASSUME NEW S, IsFiniteSet(S), NEW v \in Int, NEW f, \A x \in S : f[x] = v
    PROVE  SumOver(f, S) = v * Cardinality(S)
<1> DEFINE F == [T \in SUBSET S |-> v * Cardinality(T)]
<1>1. F[{}] = 0
  BY FS_EmptySet
<1>2. ASSUME NEW T \in SUBSET S, NEW x \in S \ T
      PROVE  F[T \cup {x}] = F[T] + f[x]
  <2>1. Cardinality(T \cup {x}) = Cardinality(T) + 1 /\ Cardinality(T) \in Nat
    BY FS_Subset, FS_AddElement, FS_CardinalityType
  <2> DEFINE n == Cardinality(T)
  <2>2. F[T] = v * n /\ F[T \cup {x}] = v * (n + 1) /\ n \in Nat
    BY <2>1
  <2> HIDE DEF F, n
  <2>3. v * (n + 1) = v * n + v
    BY <2>2
  <2> QED BY <2>2, <2>3
<1> HIDE DEF F
<1>4. \A x \in S : f[x] \in Int
  OBVIOUS
<1>9. IsFiniteSet(S)
  OBVIOUS
<1>3. SumOver(f, S) = F[S]
  BY ONLY <1>9, <1>1, <1>2, <1>4, SumIs, ZenonT(40)
<1> QED BY <1>3 DEF F

-----------------------------------------------------------------------------
(* Totals.                                                                 *)

\* Total is the sum over a function's domain.
LEMMA TotalIs ==
    ASSUME NEW S, NEW f, DOMAIN f = S
    PROVE  Total(f) = SumOver(f, S)
BY DEF Total, SumOver

\* A total after one value has changed.
LEMMA TotalExcept ==
    ASSUME NEW S, IsFiniteSet(S), NEW f \in [S -> Int], NEW g \in [S -> Int],
           NEW x \in S, \A y \in S \ {x} : g[y] = f[y]
    PROVE  /\ Total(f) \in Int
           /\ Total(g) = Total(f) - f[x] + g[x]
<1>1. DOMAIN f = S /\ DOMAIN g = S /\ \A y \in S : f[y] \in Int
  OBVIOUS
<1>2. SumOver(g, S) = SumOver(f, S) - f[x] + g[x]
  BY SumExcept
<1>3. Total(f) = SumOver(f, S) /\ Total(g) = SumOver(g, S)
  BY <1>1, TotalIs
<1>4. SumOver(f, S) \in Int
  BY <1>1, SumAnyLast
<1> QED BY <1>2, <1>3, <1>4

\* From one to another.
LEMMA TotalExcept2 ==
    ASSUME NEW S, IsFiniteSet(S), NEW f \in [S -> Int], NEW g \in [S -> Int],
           NEW x \in S, NEW y \in S, x # y, \A z \in S \ {x, y} : g[z] = f[z]
    PROVE  Total(g) = Total(f) - f[x] - f[y] + g[x] + g[y]
<1> DEFINE h == [f EXCEPT ![x] = g[x]]
<1>1. /\ h \in [S -> Int] /\ h[x] = g[x] /\ h[y] = f[y]
      /\ f[x] \in Int /\ f[y] \in Int /\ g[x] \in Int /\ g[y] \in Int
      /\ (\A z \in S \ {x} : h[z] = f[z]) /\ (\A z \in S \ {y} : g[z] = h[z])
  OBVIOUS
<1> HIDE DEF h
<1>2. Total(f) \in Int /\ Total(h) = Total(f) - f[x] + h[x]
  BY <1>1, TotalExcept
<1>3. Total(g) = Total(h) - h[y] + g[y]
  BY <1>1, TotalExcept
<1> QED BY <1>1, <1>2, <1>3

\* What the assumption says of the parties.
LEMMA Parties ==
    /\ IsFiniteSet(Purses) /\ IsFiniteSet(Heap) /\ IsFiniteSet(Ply)
    /\ Ply \subseteq Purses /\ Mon \subseteq Purses /\ Ply \cap Mon = {}
    /\ Limit \in Nat /\ Pittance \in Nat /\ MaxGold \in Nat
<1>1. Ply \subseteq Purses /\ Mon \subseteq Purses
  BY DEF Purses
<1>2. IsFiniteSet(Purses) /\ IsFiniteSet(Heap) /\ Ply \cap Mon = {}
  BY PurseAssumption
<1>3. IsFiniteSet(Ply)
  BY <1>1, <1>2, FS_Subset
<1> QED BY <1>1, <1>2, <1>3, PurseAssumption

\* Totals are numbers.
LEMMA TotalsTyped ==
    ASSUME TypeOK
    PROVE  Total(gold) \in Int /\ Total(bal) \in Int /\ Total(floor) \in Int
<1>1. /\ DOMAIN gold = Purses /\ DOMAIN bal = Ply /\ DOMAIN floor = Heap
      /\ \A x \in Purses : gold[x] \in Int
      /\ \A x \in Ply : bal[x] \in Int
      /\ \A x \in Heap : floor[x] \in Int
  BY DEF TypeOK
<1>2. /\ SumOver(gold, Purses) \in Int /\ SumOver(bal, Ply) \in Int
      /\ SumOver(floor, Heap) \in Int
  BY <1>1, Parties, SumAnyLast
<1> QED BY <1>1, <1>2, TotalIs

\* So is all the gold there is.
LEMMA WorthTyped == TypeOK => Worth \in Int
BY TotalsTyped DEF Worth

\* What the players have is no more than all there is.
LEMMA PlayersWorth ==
    ASSUME TypeOK, \A p \in Ply : file[p].gold + file[p].bal <= gold[p] + bal[p]
    PROVE  FileWorth <= Worth
<1> DEFINE fw == [p \in Ply |-> file[p].gold + file[p].bal]
           mine == [c \in Purses |-> IF c \in Ply THEN gold[c] ELSE 0]
           w == [p \in Ply |-> gold[p] + bal[p]]
<1>1. /\ \A c \in Purses : gold[c] \in Nat
      /\ \A p \in Ply : bal[p] \in Int /\ file[p].gold \in Nat /\ file[p].bal \in Int
      /\ \A h \in Heap : floor[h] \in Nat
      /\ DOMAIN gold = Purses /\ DOMAIN bal = Ply /\ DOMAIN floor = Heap
  BY DEF TypeOK, Account
<1>2. FileWorth = SumOver(fw, Ply)
  <2>1. DOMAIN fw = Ply /\ FileWorth = Total(fw)
    BY DEF FileWorth
  <2> HIDE DEF fw
  <2> QED BY <2>1, TotalIs
<1>3. SumOver(fw, Ply) <= SumOver(w, Ply)
  <2>1. \A p \in Ply : fw[p] \in Int /\ w[p] \in Int /\ fw[p] <= w[p]
    BY <1>1, Parties
  <2> HIDE DEF fw, w
  <2> QED BY <2>1, Parties, SumLeq
<1>4. SumOver(w, Ply) = SumOver(gold, Ply) + SumOver(bal, Ply)
  <2>1. \A p \in Ply : gold[p] \in Int /\ bal[p] \in Int /\ w[p] = gold[p] + bal[p]
    BY <1>1, Parties
  <2> HIDE DEF w
  <2> QED BY <2>1, Parties, SumPlus
<1>5. SumOver(mine, Purses) = SumOver(gold, Ply)
  <2>1. /\ \A p \in Ply : gold[p] \in Int
        /\ \A c \in Purses : mine[c] = IF c \in Ply THEN gold[c] ELSE 0
    BY <1>1, Parties
  <2> HIDE DEF mine
  <2> QED BY <2>1, Parties, SumOn
<1>6. SumOver(mine, Purses) <= SumOver(gold, Purses)
  <2>1. \A c \in Purses : mine[c] \in Int /\ gold[c] \in Int /\ mine[c] <= gold[c]
    BY <1>1
  <2> HIDE DEF mine
  <2> QED BY <2>1, Parties, SumLeq
<1>7. SumOver(floor, Heap) \in Nat
  BY <1>1, Parties, SumNotNegative
<1>8. Total(gold) = SumOver(gold, Purses) /\ Total(bal) = SumOver(bal, Ply)
      /\ Total(floor) = SumOver(floor, Heap)
  BY <1>1, TotalIs
<1>9. /\ SumOver(fw, Ply) \in Int /\ SumOver(gold, Ply) \in Int /\ SumOver(bal, Ply) \in Int
      /\ SumOver(gold, Purses) \in Int
  <2>1. /\ \A p \in Ply : fw[p] \in Int /\ gold[p] \in Int /\ bal[p] \in Int
        /\ \A c \in Purses : gold[c] \in Int
    BY <1>1, Parties
  <2> HIDE DEF fw
  <2> QED BY <2>1, Parties, SumAnyLast
<1> HIDE DEF fw, w, mine
<1> QED BY <1>2, <1>3, <1>4, <1>5, <1>6, <1>7, <1>8, <1>9 DEF Worth

-----------------------------------------------------------------------------
(* What a handler leaves.                                                  *)

\* What is true of all that have been saved since they last lost something:
\* the file says no more than they have, but for the one who is to be saved
\* next.
Covered ==
    \A p \in Ply \ unsaved :
        (todo # <<>> => p # Head(todo)) => file[p].gold + file[p].bal <= gold[p] + bal[p]

FilesInLimit == \A p \in Ply : file[p].bal <= Limit

MInv == TypeOK /\ DebtIsFlagged /\ FilesInLimit /\ Covered /\ CrashMakesNone

\* A handler leaves nobody with less unless he is unsaved from then on, or is
\* saved next and others have what he lost.
Settled ==
    /\ todo = <<>> /\ TypeOK' /\ file' = file /\ unsaved \subseteq unsaved'
    /\ \A p \in Ply \ unsaved' :
          \/ gold'[p] + bal'[p] >= gold[p] + bal[p]
          \/ todo' # <<>> /\ p = Head(todo') /\ Worth' = Worth

\* A handler that settles keeps the invariant, if debts stay flagged.
LEMMA SettledKeeps ==
    ASSUME MInv, Settled, DebtIsFlagged'
    PROVE  MInv'
<1>1. \A p \in Ply : /\ file[p].gold \in Int /\ file[p].bal \in Int
                     /\ gold[p] \in Int /\ bal[p] \in Int
                     /\ gold'[p] \in Int /\ bal'[p] \in Int
  BY Parties DEF MInv, Settled, TypeOK, Account
<1>2. \A p \in Ply \ unsaved : file[p].gold + file[p].bal <= gold[p] + bal[p]
  BY DEF MInv, Settled, Covered
<1>3. Covered'
  <2> SUFFICES ASSUME NEW p \in Ply \ unsaved', todo' # <<>> => p # Head(todo')
               PROVE  file'[p].gold + file'[p].bal <= gold'[p] + bal'[p]
    BY DEF Covered
  <2>1. gold'[p] + bal'[p] >= gold[p] + bal[p] /\ file' = file /\ p \in Ply \ unsaved
    BY DEF Settled
  <2> QED BY <1>1, <1>2, <2>1
<1>4. CrashMakesNone'
  <2> SUFFICES ASSUME unsaved' = {} PROVE FileWorth' <= Worth'
    BY DEF CrashMakesNone, Settled
  <2>1. unsaved = {} /\ FileWorth' = FileWorth /\ FileWorth <= Worth
    BY DEF Settled, MInv, CrashMakesNone, FileWorth
  <2>2. CASE Worth' = Worth
    BY <2>1, <2>2
  <2>3. CASE Worth' # Worth
    <3>1. \A p \in Ply : file'[p].gold + file'[p].bal <= gold'[p] + bal'[p]
      <4> SUFFICES ASSUME NEW p \in Ply
                   PROVE  file'[p].gold + file'[p].bal <= gold'[p] + bal'[p]
        OBVIOUS
      <4>1. p \in Ply \ unsaved' /\ p \in Ply \ unsaved
        BY <2>1
      <4>2. gold'[p] + bal'[p] >= gold[p] + bal[p] /\ file' = file
        BY <4>1, <2>3 DEF Settled
      <4> QED BY <1>1, <1>2, <4>1, <4>2
    <3>2. (TypeOK /\ (\A p \in Ply : file[p].gold + file[p].bal <= gold[p] + bal[p])
             => FileWorth <= Worth)'
      BY PlayersWorth, PTL
    <3> QED BY <3>1, <3>2 DEF Settled
  <2> QED BY <2>2, <2>3
<1>5. FilesInLimit'
  BY DEF MInv, Settled, FilesInLimit
<1> QED BY <1>3, <1>4, <1>5 DEF MInv, Settled

\* What a step does to the totals, from what it does to one of each.
LEMMA GoldTotal ==
    ASSUME TypeOK, gold' \in [Purses -> Nat], NEW p \in Purses,
           \A q \in Purses \ {p} : gold'[q] = gold[q]
    PROVE  Total(gold') = Total(gold) - gold[p] + gold'[p]
<1>1. gold \in [Purses -> Int] /\ gold' \in [Purses -> Int] /\ IsFiniteSet(Purses)
  BY Parties DEF TypeOK
<1> QED BY <1>1, TotalExcept

\* What the bank holds after one balance has changed.
LEMMA BalanceTotal ==
    ASSUME TypeOK, bal' \in [Ply -> Int], NEW p \in Ply,
           \A q \in Ply \ {p} : bal'[q] = bal[q]
    PROVE  Total(bal') = Total(bal) - bal[p] + bal'[p]
<1>1. bal \in [Ply -> Int] /\ IsFiniteSet(Ply)
  BY Parties DEF TypeOK
<1> QED BY <1>1, TotalExcept

\* After two have.
LEMMA BalanceTotal2 ==
    ASSUME TypeOK, bal' \in [Ply -> Int], NEW p \in Ply, NEW q \in Ply, p # q,
           \A r \in Ply \ {p, q} : bal'[r] = bal[r]
    PROVE  Total(bal') = Total(bal) - bal[p] - bal[q] + bal'[p] + bal'[q]
<1>1. bal \in [Ply -> Int] /\ IsFiniteSet(Ply)
  BY Parties DEF TypeOK
<1> QED BY <1>1, TotalExcept2

\* What lies on floors after one heap has changed.
LEMMA FloorTotal ==
    ASSUME TypeOK, floor' \in [Heap -> Nat], NEW h \in Heap,
           \A k \in Heap \ {h} : floor'[k] = floor[k]
    PROVE  Total(floor') = Total(floor) - floor[h] + floor'[h]
<1>1. floor \in [Heap -> Int] /\ floor' \in [Heap -> Int] /\ IsFiniteSet(Heap)
  BY Parties DEF TypeOK
<1> QED BY <1>1, TotalExcept

\* Gold that one party gains or loses.
LEMMA OneChanges ==
    ASSUME TypeOK, NEW p \in Purses, NEW d \in Int, gold[p] + d >= 0,
           gold' = [gold EXCEPT ![p] = @ + d]
    PROVE  /\ gold' \in [Purses -> Nat]
           /\ gold'[p] = gold[p] + d /\ \A q \in Purses \ {p} : gold'[q] = gold[q]
           /\ Total(gold') = Total(gold) + d
<1>1. /\ gold' \in [Purses -> Nat] /\ gold[p] \in Nat
      /\ gold'[p] = gold[p] + d /\ \A q \in Purses \ {p} : gold'[q] = gold[q]
  BY DEF TypeOK
<1>2. Total(gold') = Total(gold) - gold[p] + gold'[p]
  BY ONLY TypeOK, p \in Purses, <1>1, GoldTotal
<1> QED BY <1>1, <1>2, TotalsTyped

\* Gold that goes from one to another.
LEMMA TwoChange ==
    ASSUME TypeOK, NEW p \in Purses, NEW q \in Purses, p # q, NEW d \in Nat, d <= gold[p],
           gold' = Hand(p, q, d)
    PROVE  /\ gold' \in [Purses -> Nat]
           /\ gold'[p] = gold[p] - d /\ gold'[q] = gold[q] + d
           /\ \A r \in Purses \ {p, q} : gold'[r] = gold[r]
           /\ Total(gold') = Total(gold)
<1>1. gold \in [Purses -> Int] /\ gold \in [Purses -> Nat]
  BY DEF TypeOK
<1>2. /\ gold' \in [Purses -> Nat] /\ gold' \in [Purses -> Int]
      /\ gold'[p] = gold[p] - d /\ gold'[q] = gold[q] + d
      /\ \A r \in Purses \ {p, q} : gold'[r] = gold[r]
  BY <1>1 DEF Hand
<1>3. Total(gold) \in Int
  BY TotalsTyped
<1>4. Total(gold') = Total(gold) - gold[p] - gold[q] + gold'[p] + gold'[q]
  BY <1>1, <1>2, Parties, TotalExcept2
<1> QED BY <1>1, <1>2, <1>3, <1>4

\* A balance that changes.
LEMMA BalanceChanges ==
    ASSUME TypeOK, NEW p \in Ply, NEW v \in Int, v <= Limit, bal' = [bal EXCEPT ![p] = v]
    PROVE  /\ bal' \in [Ply -> Int] /\ (\A q \in Ply : bal'[q] <= Limit)
           /\ bal'[p] = v /\ (\A q \in Ply \ {p} : bal'[q] = bal[q])
           /\ Total(bal') = Total(bal) - bal[p] + v
<1>1. bal \in [Ply -> Int] /\ \A q \in Ply : bal[q] <= Limit
  BY DEF TypeOK
<1>2. /\ bal' \in [Ply -> Int] /\ bal'[p] = v /\ \A q \in Ply \ {p} : bal'[q] = bal[q]
  BY <1>1
<1>3. Total(bal') = Total(bal) - bal[p] + bal'[p]
  BY ONLY TypeOK, p \in Ply, <1>2, BalanceTotal
<1>4. \A q \in Ply : bal'[q] <= Limit
  BY <1>1, <1>2
<1> QED BY <1>2, <1>3, <1>4

\* The worth of the game after a step, from the totals.
LEMMA WorthAfter == Worth' = Total(gold') + Total(bal') + Total(floor')
BY DEF Worth

-----------------------------------------------------------------------------
(* The handlers, one after the other.                                      *)

Mild == Settled /\ Worth' <= Worth     \* what a handler of Uses does
Equal == Settled /\ Worth' = Worth     \* what a handler of Moves does

\* Paying makes no gold.
LEMMA PaysSettled ==
    ASSUME TypeOK, NEW p \in Ply, NEW cost \in Nat, NEW back \in 0..cost,
           Pays(p, cost, back), todo' \in Seq(Ply)
    PROVE  Mild
<1> DEFINE d == back - cost
<1>0. p \in Purses /\ d \in Int /\ d <= 0 /\ gold[p] \in Nat /\ cost <= gold[p]
      /\ gold[p] + d >= 0
  BY Parties DEF TypeOK, Pays
<1>1. gold' = [gold EXCEPT ![p] = @ + d]
  <2>1. gold' = [gold EXCEPT ![p] = @ - (cost - back)]
    BY DEF Pays, Loses
  <2>2. gold[p] - (cost - back) = gold[p] + d
    BY <1>0
  <2> QED BY <2>1, <2>2, Zenon
<1> HIDE DEF d
<1>2. /\ gold' \in [Purses -> Nat]
      /\ gold'[p] = gold[p] + d /\ \A q \in Purses \ {p} : gold'[q] = gold[q]
      /\ Total(gold') = Total(gold) + d
  BY <1>0, <1>1, OneChanges
<1>3. /\ todo = <<>> /\ bal' = bal /\ loan' = loan /\ used' = used /\ floor' = floor
      /\ file' = file /\ unsaved' = unsaved \cup {p}
  BY DEF Pays, Idle, Unsaved, bank
<1>4. TypeOK'
  BY <1>2, <1>3 DEF TypeOK
<1>5. Worth' <= Worth
  BY <1>0, <1>2, <1>3, TotalsTyped DEF Worth
<1>6. \A q \in Ply \ unsaved' : gold'[q] + bal'[q] >= gold[q] + bal[q]
  BY <1>2, <1>3, Parties DEF TypeOK
<1> QED BY <1>3, <1>4, <1>5, <1>6 DEF Mild, Settled

\* One who loses gold, and is unsaved from then on.
LEMMA LessGold ==
    ASSUME TypeOK, Idle, NEW p \in Purses, gold' \in [Purses -> Nat], gold'[p] <= gold[p],
           \A q \in Purses \ {p} : gold'[q] = gold[q],
           UNCHANGED <<bank, floor, file>>, Unsaved(p), todo' \in Seq(Ply)
    PROVE  Mild
<1>1. /\ todo = <<>> /\ bal' = bal /\ loan' = loan /\ used' = used /\ floor' = floor
      /\ file' = file /\ unsaved' = unsaved \cup ({p} \cap Ply)
  BY DEF Idle, Unsaved, bank
<1>2. TypeOK'
  BY <1>1 DEF TypeOK
<1>3. Total(gold') = Total(gold) - gold[p] + gold'[p]
  BY GoldTotal
<1>4. Worth' <= Worth
  <2>1. gold[p] \in Nat /\ gold'[p] \in Nat
    BY DEF TypeOK
  <2> QED BY <1>1, <1>3, <2>1, TotalsTyped DEF Worth
<1>5. \A q \in Ply \ unsaved' : gold'[q] + bal'[q] >= gold[q] + bal[q]
  BY <1>1, Parties DEF TypeOK
<1> QED BY <1>1, <1>2, <1>4, <1>5 DEF Mild, Settled

\* One whose balance falls, and who is unsaved from then on.
LEMMA LessBalance ==
    ASSUME TypeOK, Idle, NEW p \in Ply, bal' \in [Ply -> Int], bal'[p] <= bal[p],
           \A q \in Ply \ {p} : bal'[q] = bal[q],
           UNCHANGED <<gold, floor, file>>, loan' \subseteq Ply, used' \subseteq Ply,
           Unsaved(p), todo' \in Seq(Ply)
    PROVE  Mild
<1>1. /\ todo = <<>> /\ gold' = gold /\ floor' = floor
      /\ file' = file /\ unsaved' = unsaved \cup {p}
  BY DEF Idle, Unsaved
<1>2. TypeOK'
  <2>1. \A q \in Ply : bal[q] \in Int /\ bal[q] <= Limit /\ bal'[q] \in Int
    BY DEF TypeOK
  <2>2. \A q \in Ply : bal'[q] <= Limit
    <3> SUFFICES ASSUME NEW q \in Ply PROVE bal'[q] <= Limit
      OBVIOUS
    <3> QED BY <2>1, Parties
  <2> QED BY <1>1, <2>2 DEF TypeOK
<1>3. Total(bal') = Total(bal) - bal[p] + bal'[p]
  BY BalanceTotal
<1>4. Worth' <= Worth
  <2>1. bal[p] \in Int /\ bal'[p] \in Int
    BY DEF TypeOK
  <2> QED BY <1>1, <1>3, <2>1, TotalsTyped DEF Worth
<1>5. \A q \in Ply \ unsaved' : gold'[q] + bal'[q] >= gold[q] + bal[q]
  BY <1>1, Parties DEF TypeOK
<1> QED BY <1>1, <1>2, <1>4, <1>5 DEF Mild, Settled

\* The prices.
LEMMA PricesMild ==
    ASSUME TypeOK, NEW p \in Ply, NEW amt \in Amount,
           \/ buy(p, amt) \/ purchase(p, amt) \/ recharge_wand(p, amt) \/ rescind(p, amt)
           \/ silver_renew(p, amt) \/ repair(p, amt) \/ renew(p, amt)
           \/ gatekeeper(p, amt) \/ train_gold(p, amt)
    PROVE  Mild
<1>1. amt \in Nat /\ 0 \in 0..amt /\ amt \in 0..amt /\ amt \div 2 \in 0..amt
  BY Parties DEF Amount
<1>2. todo' \in Seq(Ply)
  <2>1. todo' = todo \/ todo' = <<p>>
    BY DEF buy, purchase, recharge_wand, rescind, silver_renew, repair, renew, gatekeeper,
           train_gold, NoSave, Saves
  <2>2. todo \in Seq(Ply) /\ <<p>> \in Seq(Ply)
    BY DEF TypeOK
  <2> QED BY <2>1, <2>2, Zenon
<1>3. PICK back \in 0..amt : Pays(p, amt, back)
  BY <1>1 DEF buy, purchase, recharge_wand, rescind, silver_renew, repair, renew,
              gatekeeper, train_gold
<1> QED BY <1>1, <1>2, <1>3, PaysSettled

\* Nor do the Great Horns.
LEMMA HornsMild == ASSUME TypeOK, NEW p \in Ply, horns(p) PROVE Mild
<1>1. gold[p] \in Nat /\ 0 \in 0..gold[p] /\ todo' \in Seq(Ply) /\ Pays(p, gold[p], 0)
  BY Parties DEF horns, TypeOK, NoSave
<1> QED BY <1>1, PaysSettled

\* What is dropped into slime, and what is halved.
LEMMA SlimeMild ==
    ASSUME TypeOK, NEW p \in Ply, NEW amt \in Amount, drop_slime(p, amt) PROVE Mild
<1>1. p \in Purses /\ gold[p] \in Nat /\ amt \in Nat /\ amt <= gold[p]
  BY Parties DEF TypeOK, drop_slime, Amount
<1>2. /\ gold' \in [Purses -> Nat] /\ gold'[p] <= gold[p]
      /\ \A q \in Purses \ {p} : gold'[q] = gold[q]
  BY <1>1 DEF drop_slime, Loses, TypeOK
<1>3. Idle /\ UNCHANGED <<bank, floor, file>> /\ Unsaved(p) /\ todo' \in Seq(Ply)
  BY DEF drop_slime, Saves
<1> QED BY <1>1, <1>2, <1>3, LessGold

\* Nor does dropping a negative sum.
LEMMA NegativeMild == ASSUME TypeOK, NEW p \in Ply, drop_negative(p) PROVE Mild
<1> DEFINE left == IF gold[p] \div 2 < Pittance THEN 0 ELSE gold[p] \div 2
<1>1. p \in Purses /\ gold[p] \in Nat /\ left \in Nat /\ left <= gold[p]
      /\ gold' = [gold EXCEPT ![p] = left]
  BY Parties DEF TypeOK, drop_negative
<1> HIDE DEF left
<1>2. /\ gold' \in [Purses -> Nat] /\ gold'[p] <= gold[p]
      /\ \A q \in Purses \ {p} : gold'[q] = gold[q]
  BY <1>1 DEF TypeOK
<1>3. Idle /\ UNCHANGED <<bank, floor, file>> /\ Unsaved(p) /\ todo' \in Seq(Ply)
  BY DEF drop_negative, Saves
<1> QED BY <1>1, <1>2, <1>3, LessGold

\* A bribe takes all that the monster has out of the game.
LEMMA BribeMild ==
    ASSUME TypeOK, NEW p \in Ply, NEW m \in Mon, NEW amt \in Amount, bribe(p, m, amt)
    PROVE  Mild
<1>1. /\ p \in Purses /\ m \in Purses /\ p # m /\ amt \in Nat /\ amt <= gold[p]
      /\ gold[p] \in Nat /\ gold[m] \in Nat
      /\ gold \in [Purses -> Int]
  BY Parties DEF TypeOK, bribe, Amount
<1>2. /\ gold' \in [Purses -> Nat] /\ gold' \in [Purses -> Int]
      /\ gold'[p] = gold[p] - amt /\ gold'[m] = 0
      /\ \A q \in Purses \ {p, m} : gold'[q] = gold[q]
  BY <1>1 DEF bribe, TypeOK
<1>3. Total(gold') = Total(gold) - gold[p] - gold[m] + gold'[p] + gold'[m]
  BY <1>1, <1>2, Parties, TotalExcept2
<1>4. /\ todo = <<>> /\ todo' = todo /\ bal' = bal /\ loan' = loan /\ used' = used
      /\ floor' = floor /\ file' = file /\ unsaved' = unsaved \cup {p}
  BY DEF bribe, Idle, Unsaved, NoSave, bank
<1>5. TypeOK'
  BY <1>2, <1>4 DEF TypeOK
<1>6. Worth' <= Worth
  BY <1>1, <1>2, <1>3, <1>4, TotalsTyped DEF Worth
<1>7. \A q \in Ply \ unsaved' : gold'[q] + bal'[q] >= gold[q] + bal[q]
  <2> SUFFICES ASSUME NEW q \in Ply \ unsaved'
               PROVE  gold'[q] + bal'[q] >= gold[q] + bal[q]
    OBVIOUS
  <2>1. q # p /\ q # m /\ q \in Purses
    BY <1>4, Parties
  <2>2. gold'[q] = gold[q] /\ bal'[q] = bal[q] /\ gold[q] \in Nat /\ bal[q] \in Int
    BY <1>2, <1>4, <2>1 DEF TypeOK
  <2> QED BY <2>2
<1> QED BY <1>4, <1>5, <1>6, <1>7 DEF Mild, Settled

\* A monster dies: its gold falls to the floor or is lost.
LEMMA DieMild ==
    ASSUME TypeOK, NEW m \in Mon, NEW h \in Heap, die(m, h) PROVE Mild
<1>1. m \in Purses /\ m \notin Ply /\ gold[m] \in Nat /\ floor[h] = 0
  BY Parties DEF TypeOK, die
<1>2. /\ gold' \in [Purses -> Nat] /\ gold'[m] = 0
      /\ \A q \in Purses \ {m} : gold'[q] = gold[q]
  BY <1>1 DEF die, TypeOK
<1>3. /\ floor' \in [Heap -> Nat] /\ floor'[h] \in {0, gold[m]}
      /\ \A k \in Heap \ {h} : floor'[k] = floor[k]
  BY <1>1 DEF die, TypeOK
<1>4. /\ todo = <<>> /\ todo' = todo /\ bal' = bal /\ loan' = loan /\ used' = used
      /\ file' = file /\ unsaved' = unsaved
  BY DEF die, Idle, NoSave, bank
<1>5. TypeOK'
  BY <1>2, <1>3, <1>4 DEF TypeOK
<1>6. Total(gold') = Total(gold) - gold[m] + gold'[m]
  BY ONLY TypeOK, <1>1, <1>2, GoldTotal
<1>7. Total(floor') = Total(floor) - floor[h] + floor'[h]
  BY ONLY TypeOK, h \in Heap, <1>3, FloorTotal
<1>8. Worth' <= Worth
  BY <1>1, <1>2, <1>3, <1>4, <1>6, <1>7, TotalsTyped DEF Worth
<1>9. \A q \in Ply \ unsaved' : gold'[q] + bal'[q] >= gold[q] + bal[q]
  <2> SUFFICES ASSUME NEW q \in Ply \ unsaved'
               PROVE  gold'[q] + bal'[q] >= gold[q] + bal[q]
    OBVIOUS
  <2>1. q # m /\ q \in Purses
    BY <1>1, Parties
  <2>2. gold'[q] = gold[q] /\ bal'[q] = bal[q] /\ gold[q] \in Nat /\ bal[q] \in Int
    BY <1>2, <1>4, <2>1 DEF TypeOK
  <2> QED BY <2>2
<1> QED BY <1>4, <1>5, <1>8, <1>9 DEF Mild, Settled

\* What is left of a balance that is looked at.
LEMMA BalanceMild ==
    ASSUME TypeOK, DebtIsFlagged, NEW p \in Ply, bank_balance(p) PROVE Mild
<1> DEFINE left == IF bal[p] <= SmallBalance THEN 0 ELSE bal[p] - BalanceFee
<1>1. /\ bal[p] \in Int /\ bal[p] >= 0 /\ left \in Int /\ left <= bal[p]
      /\ bal' = [bal EXCEPT ![p] = left]
  BY Terms DEF TypeOK, DebtIsFlagged, bank_balance
<1> HIDE DEF left
<1>2. /\ bal' \in [Ply -> Int] /\ bal'[p] <= bal[p] /\ \A q \in Ply \ {p} : bal'[q] = bal[q]
  BY <1>1 DEF TypeOK
<1>3. /\ Idle /\ UNCHANGED <<gold, floor, file>> /\ Unsaved(p)
      /\ loan' \subseteq Ply /\ used' \subseteq Ply /\ todo' \in Seq(Ply)
  BY DEF bank_balance, NoSave, TypeOK
<1> QED BY <1>2, <1>3, LessBalance

\* Nor does absolution.
LEMMA AbsolveMild == ASSUME TypeOK, NEW p \in Ply, absolve(p) PROVE Mild
<1>1. bal[p] \in Int /\ Tithe \in Nat /\ bal' = [bal EXCEPT ![p] = @ - Tithe]
  BY PurseAssumption DEF TypeOK, absolve
<1>2. /\ bal' \in [Ply -> Int] /\ bal'[p] <= bal[p] /\ \A q \in Ply \ {p} : bal'[q] = bal[q]
  BY <1>1 DEF TypeOK
<1>3. /\ Idle /\ UNCHANGED <<gold, floor, file>> /\ Unsaved(p)
      /\ loan' \subseteq Ply /\ used' \subseteq Ply /\ todo' \in Seq(Ply)
  BY DEF absolve, NoSave, TypeOK
<1> QED BY <1>2, <1>3, LessBalance

\* A new debt; there was none.
LEMMA LoanMild ==
    ASSUME TypeOK, DebtIsFlagged, NEW p \in Ply, NEW amt \in Amount, bank_loan(p, amt)
    PROVE  Mild
<1> DEFINE debt == amt + amt \div LoanShare
<1>1. amt \in Nat /\ amt \div LoanShare \in Nat
  BY Terms, Fee, PurseAssumption DEF Amount
<1>2. /\ bal[p] \in Int /\ bal[p] = 0 /\ debt \in Nat
      /\ bal' = [bal EXCEPT ![p] = -(bal[p] + debt)]
  BY <1>1 DEF TypeOK, DebtIsFlagged, bank_loan
<1> HIDE DEF debt
<1>3. /\ bal' \in [Ply -> Int] /\ bal'[p] <= bal[p] /\ \A q \in Ply \ {p} : bal'[q] = bal[q]
  BY <1>2 DEF TypeOK
<1>4. /\ Idle /\ UNCHANGED <<gold, floor, file>> /\ Unsaved(p)
      /\ loan' \subseteq Ply /\ used' \subseteq Ply /\ todo' \in Seq(Ply)
  BY DEF bank_loan, Saves, TypeOK
<1> QED BY <1>3, <1>4, LessBalance

\* Training is paid from the balance, or nothing is paid at all.
LEMMA TrainMild ==
    ASSUME TypeOK, NEW p \in Ply, NEW amt \in Amount, train(p, amt) PROVE Mild
<1>1. amt \in Nat /\ bal[p] \in Int
  BY Parties DEF TypeOK, Amount
<1>2. CASE p \in loan
  <2>1. /\ todo = <<>> /\ todo' = todo /\ bal' = bal /\ unsaved' = unsaved /\ gold' = gold
        /\ loan' = loan /\ floor' = floor /\ file' = file /\ used' = used \cup {p}
    BY <1>2 DEF train, Idle, NoSave
  <2>2. TypeOK'
    BY <2>1 DEF TypeOK
  <2>3. Worth' = Worth /\ Worth \in Int
    BY <2>1, TotalsTyped DEF Worth
  <2>4. \A q \in Ply : gold'[q] + bal'[q] >= gold[q] + bal[q]
    BY <2>1, Parties DEF TypeOK
  <2> QED BY <2>1, <2>2, <2>3, <2>4 DEF Mild, Settled
<1>3. CASE p \notin loan
  <2>1. bal' = [bal EXCEPT ![p] = @ - amt] /\ Unsaved(p) /\ used' = used
    BY <1>3 DEF train
  <2>2. /\ bal' \in [Ply -> Int] /\ bal'[p] <= bal[p]
        /\ \A q \in Ply \ {p} : bal'[q] = bal[q]
    BY <1>1, <2>1 DEF TypeOK
  <2>3. /\ Idle /\ UNCHANGED <<gold, floor, file>>
        /\ loan' \subseteq Ply /\ used' \subseteq Ply /\ todo' \in Seq(Ply)
    BY <2>1 DEF train, NoSave, TypeOK
  <2> QED BY <2>1, <2>2, <2>3, LessBalance
<1> QED BY <1>2, <1>3

\* What is paid into an account and into a debt; the fee is lost.
LEMMA DepositMild ==
    ASSUME TypeOK, NEW p \in Ply, NEW amt \in Amount, bank_deposit(p, amt) PROVE Mild
<1> DEFINE fee == IF p \in loan THEN 0 ELSE amt \div DepositShare
<1>1. amt \in Nat /\ fee \in Nat /\ fee <= amt
  BY Terms, Fee, PurseAssumption DEF Amount
<1>2. /\ p \in Purses /\ gold[p] \in Nat /\ bal[p] \in Int /\ amt <= gold[p]
      /\ amt + bal[p] <= Limit /\ Limit \in Nat
  BY Parties DEF TypeOK, bank_deposit, Accepts
<1>3. /\ gold' \in [Purses -> Nat] /\ gold'[p] = gold[p] - amt
      /\ \A q \in Purses \ {p} : gold'[q] = gold[q]
  BY <1>1, <1>2 DEF TypeOK, bank_deposit, Loses
<1>4. bal' = [bal EXCEPT ![p] = @ + amt - fee]
  <2>1. CASE p \in loan
    <3>1. bal' = [bal EXCEPT ![p] = @ + amt] /\ bal[p] + amt = bal[p] + amt - fee
      BY <1>1, <1>2, <2>1 DEF bank_deposit
    <3> HIDE DEF fee
    <3> QED BY <3>1
  <2>2. CASE p \notin loan
    <3>1. bal' = [bal EXCEPT ![p] = @ + amt - amt \div DepositShare]
      BY <2>2 DEF bank_deposit
    <3>2. fee = amt \div DepositShare
      BY <2>2
    <3> QED BY <3>1, <3>2, Zenon
  <2> QED BY <2>1, <2>2
<1>5. /\ todo = <<>> /\ loan' = loan \ {p} /\ used' \subseteq Ply /\ todo' \in Seq(Ply)
      /\ floor' = floor /\ file' = file
      /\ unsaved' = unsaved \/ unsaved' = unsaved \cup {p}
      /\ fee # 0 => unsaved' = unsaved \cup {p}
  <2>1. todo = <<>> /\ loan' = loan \ {p} /\ floor' = floor /\ file' = file
    BY DEF bank_deposit, Idle
  <2>2. CASE p \in loan
    BY <2>1, <2>2 DEF bank_deposit, NoSave, TypeOK
  <2>3. CASE p \notin loan
    <3>1. todo' = <<p>> /\ unsaved' = unsaved \cup ({p} \cap Ply) /\ used' = used
      BY <2>3 DEF bank_deposit, Saves, Unsaved
    <3>2. <<p>> \in Seq(Ply) /\ unsaved \cup ({p} \cap Ply) = unsaved \cup {p}
      OBVIOUS
    <3>3. used \subseteq Ply
      BY DEF TypeOK
    <3> HIDE DEF fee
    <3> QED BY <2>1, <3>1, <3>2, <3>3, Zenon
  <2> QED BY <2>2, <2>3
<1> HIDE DEF fee
<1>6. /\ bal' \in [Ply -> Int] /\ bal'[p] = bal[p] + amt - fee
      /\ \A q \in Ply \ {p} : bal'[q] = bal[q]
  BY <1>1, <1>2, <1>4 DEF TypeOK
<1>7. \A q \in Ply : bal'[q] <= Limit
  <2> SUFFICES ASSUME NEW q \in Ply PROVE bal'[q] <= Limit
    OBVIOUS
  <2>1. bal[q] \in Int /\ bal[q] <= Limit
    BY DEF TypeOK
  <2>2. CASE q = p
    BY <1>1, <1>2, <1>6, <2>2
  <2>3. CASE q # p
    BY <1>6, <2>1, <2>3
  <2> QED BY <2>2, <2>3
<1>8. TypeOK'
  BY <1>3, <1>5, <1>6, <1>7 DEF TypeOK
<1>9. Total(gold') = Total(gold) - gold[p] + gold'[p]
  BY ONLY TypeOK, <1>2, <1>3, GoldTotal
<1>10. Total(bal') = Total(bal) - bal[p] + bal'[p]
  BY ONLY TypeOK, p \in Ply, <1>6, BalanceTotal
<1>11. Worth' <= Worth
  <2>1. Total(gold) \in Int /\ Total(bal) \in Int /\ Total(floor) \in Int
    BY TotalsTyped
  <2>2. Total(gold') = Total(gold) - amt
    BY <1>1, <1>2, <1>3, <1>9, <2>1
  <2>3. Total(bal') = Total(bal) + amt - fee
    BY <1>1, <1>2, <1>6, <1>10, <2>1
  <2> QED BY <1>1, <1>5, <2>1, <2>2, <2>3 DEF Worth
<1>12. \A q \in Ply \ unsaved' : gold'[q] + bal'[q] >= gold[q] + bal[q]
  <2> SUFFICES ASSUME NEW q \in Ply \ unsaved'
               PROVE  gold'[q] + bal'[q] >= gold[q] + bal[q]
    OBVIOUS
  <2>1. CASE q = p
    BY <1>1, <1>2, <1>3, <1>5, <1>6, <2>1
  <2>2. CASE q # p
    <3>1. gold'[q] = gold[q] /\ bal'[q] = bal[q] /\ gold[q] \in Nat /\ bal[q] \in Int
      BY <1>3, <1>6, <2>2, Parties DEF TypeOK
    <3> QED BY <3>1
  <2> QED BY <2>1, <2>2
<1> QED BY <1>5, <1>8, <1>11, <1>12 DEF Mild, Settled

\* From one account to another; the fee is lost.
LEMMA TransferMild ==
    ASSUME TypeOK, NEW p \in Ply, NEW q \in Ply, NEW amt \in Amount, bank_transfer(p, q, amt)
    PROVE  Mild
<1> DEFINE fee == amt \div TransferShare
<1>1. amt \in Nat /\ fee \in Nat
  BY Terms, Fee, PurseAssumption DEF Amount
<1>2. /\ p # q /\ amt + bal[q] <= Limit
      /\ bal' = [bal EXCEPT ![p] = @ - (amt + fee), ![q] = @ + amt]
  BY DEF bank_transfer, Accepts
<1>3. /\ todo = <<>> /\ loan' \subseteq Ply /\ used' = used /\ gold' = gold
      /\ floor' = floor /\ file' = file /\ unsaved' = unsaved \cup {p}
      /\ todo' = <<p, q>>
  BY DEF bank_transfer, Idle, Saves, SaveOrder, Unsaved, TypeOK
<1> HIDE DEF fee
<1>4. bal \in [Ply -> Int] /\ bal[p] \in Int /\ bal[q] \in Int
  BY DEF TypeOK
<1>5. /\ bal' \in [Ply -> Int] /\ bal'[p] = bal[p] - (amt + fee) /\ bal'[q] = bal[q] + amt
      /\ \A r \in Ply \ {p, q} : bal'[r] = bal[r]
  BY <1>1, <1>2, <1>4
<1>6. \A r \in Ply : bal'[r] <= Limit
  <2> SUFFICES ASSUME NEW r \in Ply PROVE bal'[r] <= Limit
    OBVIOUS
  <2>1. bal[r] \in Int /\ bal[r] <= Limit /\ bal[p] <= Limit /\ Limit \in Nat
    BY Parties DEF TypeOK
  <2>2. CASE r = p
    BY <1>1, <1>4, <1>5, <2>1, <2>2
  <2>3. CASE r = q
    BY <1>1, <1>2, <1>4, <1>5, <2>1, <2>3
  <2>4. CASE r \notin {p, q}
    BY <1>5, <2>1, <2>4
  <2> QED BY <2>2, <2>3, <2>4
<1>7. TypeOK'
  BY <1>3, <1>5, <1>6 DEF TypeOK
<1>8. Total(bal') = Total(bal) - bal[p] - bal[q] + bal'[p] + bal'[q]
  <2>1. p # q
    BY <1>2
  <2> QED BY ONLY TypeOK, p \in Ply, q \in Ply, <2>1, <1>5, BalanceTotal2
<1>9. Worth' <= Worth
  <2>1. Total(gold) \in Int /\ Total(bal) \in Int /\ Total(floor) \in Int
    BY TotalsTyped
  <2>2. Total(bal') = Total(bal) - fee
    BY <1>1, <1>4, <1>5, <1>8, <2>1
  <2> QED BY <1>1, <1>3, <2>1, <2>2 DEF Worth
<1>10. \A r \in Ply \ unsaved' : gold'[r] + bal'[r] >= gold[r] + bal[r]
  <2> SUFFICES ASSUME NEW r \in Ply \ unsaved'
               PROVE  gold'[r] + bal'[r] >= gold[r] + bal[r]
    OBVIOUS
  <2>1. gold'[r] = gold[r] /\ gold[r] \in Nat /\ bal[r] \in Int /\ r # p
    BY <1>3, Parties DEF TypeOK
  <2>2. bal'[r] = bal[r] \/ bal'[r] = bal[r] + amt
    BY <1>5, <2>1
  <2> QED BY <1>1, <2>1, <2>2
<1> QED BY <1>3, <1>7, <1>9, <1>10 DEF Mild, Settled

\* No handler of Uses makes gold, and who loses by it is unsaved from then on.
LEMMA UsesMild == ASSUME TypeOK, DebtIsFlagged, Uses PROVE Mild
BY PricesMild, HornsMild, SlimeMild, NegativeMild, BribeMild, DieMild, BalanceMild,
   AbsolveMild, LoanMild, TrainMild, DepositMild, TransferMild
   DEF Uses

\* What a handler of Moves takes from one it gives to another, and it saves
\* the one who loses first, or he is unsaved from then on.
LEMMA MovesOver ==
    ASSUME TypeOK, Idle, NEW p \in Purses, NEW q \in Purses, p # q, NEW d \in Nat, d <= gold[p],
           gold' = Hand(p, q, d), UNCHANGED <<bank, floor, file>>, unsaved \subseteq unsaved',
           unsaved' \subseteq Ply, todo' \in Seq(Ply),
           p \in Ply => p \in unsaved' \/ (todo' # <<>> /\ p = Head(todo'))
    PROVE  Equal
<1>1. /\ gold' \in [Purses -> Nat]
      /\ gold'[p] = gold[p] - d /\ gold'[q] = gold[q] + d
      /\ \A r \in Purses \ {p, q} : gold'[r] = gold[r]
      /\ Total(gold') = Total(gold)
  BY TwoChange
<1>2. todo = <<>> /\ bal' = bal /\ loan' = loan /\ used' = used /\ floor' = floor /\ file' = file
  BY DEF Idle, bank
<1>3. TypeOK'
  BY <1>1, <1>2 DEF TypeOK
<1>4. Worth' = Worth
  BY <1>1, <1>2 DEF Worth
<1>5. ASSUME NEW r \in Ply \ unsaved', r # p
      PROVE  gold'[r] + bal'[r] >= gold[r] + bal[r]
  <2>1. gold[r] \in Nat /\ bal[r] \in Int /\ bal'[r] = bal[r]
    BY <1>2, Parties DEF TypeOK
  <2>2. gold'[r] = gold[r] \/ gold'[r] = gold[r] + d
    BY <1>1, <1>5, Parties
  <2> QED BY <2>1, <2>2
<1> QED BY <1>2, <1>3, <1>4, <1>5 DEF Equal, Settled

\* A gift moves gold.
LEMMA GiveEqual ==
    ASSUME TypeOK, NEW p \in Ply, NEW q \in Purses, NEW amt \in Amount, give_money(p, q, amt)
    PROVE  Equal
<1>1. /\ p \in Purses /\ amt \in Nat /\ amt <= gold[p] /\ p # q /\ Idle
      /\ gold' = Hand(p, q, amt) /\ UNCHANGED <<bank, floor, file>>
      /\ unsaved' = unsaved /\ unsaved \subseteq Ply
  BY Parties DEF give_money, Amount, TypeOK
<1>2. todo' \in Seq(Ply) /\ todo' # <<>> /\ p = Head(todo')
  <2>1. todo' = SaveOrder(p, q)
    BY DEF give_money, Saves
  <2>2. CASE q \in Ply
    <3>1. todo' = <<p, q>>
      BY <2>1, <2>2 DEF SaveOrder
    <3> QED BY <2>2, <3>1
  <2>3. CASE q \notin Ply
    <3>1. todo' = <<p>>
      BY <2>1, <2>3 DEF SaveOrder
    <3> QED BY <3>1
  <2> QED BY <2>2, <2>3
<1> QED BY <1>1, <1>2, MovesOver

\* So does paying a porter,
LEMMA PorterEqual ==
    ASSUME TypeOK, NEW p \in Ply, NEW m \in Mon, NEW amt \in Amount, pay_porter(p, m, amt)
    PROVE  Equal
<1>1. /\ p \in Purses /\ m \in Purses /\ p # m
      /\ amt \in Nat /\ amt <= gold[p] /\ Idle
      /\ gold' = Hand(p, m, amt) /\ UNCHANGED <<bank, floor, file>>
      /\ unsaved' = unsaved \cup {p} /\ unsaved' \subseteq Ply /\ todo' \in Seq(Ply)
  BY Parties DEF pay_porter, Amount, TypeOK, Unsaved, NoSave
<1> QED BY <1>1, MovesOver

\* theft,
LEMMA StealEqual ==
    ASSUME TypeOK, NEW p \in Ply, NEW q \in Purses, stealgold(p, q) PROVE Equal
<1>1. /\ p \in Purses /\ p # q /\ gold[q] \in Nat /\ gold[q] <= gold[q] /\ Idle
      /\ gold' = Hand(q, p, gold[q]) /\ UNCHANGED <<bank, floor, file>>
      /\ unsaved \subseteq unsaved' /\ unsaved' \subseteq Ply /\ todo' \in Seq(Ply)
      /\ q \in Ply => q \in unsaved'
  BY Parties DEF stealgold, TypeOK, Unsaved, NoSave
<1> QED BY <1>1, MovesOver

\* dropping,
LEMMA DropEqual ==
    ASSUME TypeOK, NEW p \in Ply, NEW amt \in Amount, NEW h \in Heap, drop(p, amt, h)
    PROVE  Equal
<1>1. p \in Purses /\ gold[p] \in Nat /\ amt \in Nat /\ amt <= gold[p] /\ floor[h] = 0
  BY Parties DEF TypeOK, drop, Amount
<1>2. /\ gold' \in [Purses -> Nat] /\ gold'[p] = gold[p] - amt
      /\ \A q \in Purses \ {p} : gold'[q] = gold[q]
  BY <1>1 DEF drop, Loses, TypeOK
<1>3. /\ floor' \in [Heap -> Nat] /\ floor'[h] = amt
      /\ \A k \in Heap \ {h} : floor'[k] = floor[k]
  BY <1>1 DEF drop, TypeOK
<1>4. /\ todo = <<>> /\ todo' = <<p>> /\ bal' = bal /\ loan' = loan /\ used' = used
      /\ file' = file /\ unsaved' = unsaved
  BY DEF drop, Idle, Saves, bank
<1>5. TypeOK'
  BY <1>2, <1>3, <1>4 DEF TypeOK
<1>6. Total(gold') = Total(gold) - gold[p] + gold'[p]
  BY ONLY TypeOK, <1>1, <1>2, GoldTotal
<1>7. Total(floor') = Total(floor) - floor[h] + floor'[h]
  BY ONLY TypeOK, h \in Heap, <1>3, FloorTotal
<1>8. Worth' = Worth
  BY <1>1, <1>2, <1>3, <1>4, <1>6, <1>7, TotalsTyped DEF Worth
<1>9. ASSUME NEW q \in Ply \ unsaved', q # p
      PROVE  gold'[q] + bal'[q] >= gold[q] + bal[q]
  <2>1. gold'[q] = gold[q] /\ bal'[q] = bal[q] /\ gold[q] \in Nat /\ bal[q] \in Int
    BY <1>2, <1>4, <1>9, Parties DEF TypeOK
  <2> QED BY <2>1
<1> QED BY <1>4, <1>5, <1>8, <1>9 DEF Equal, Settled

\* From the account into the purse.
LEMMA WithdrawEqual ==
    ASSUME TypeOK, NEW p \in Ply, NEW amt \in 0..MaxGold, bank_withdraw(p, amt) PROVE Equal
<1>1. p \in Purses /\ gold[p] \in Nat /\ bal[p] \in Int /\ amt \in Nat
  BY Parties DEF TypeOK
<1>2. /\ gold' \in [Purses -> Nat] /\ gold'[p] = gold[p] + amt
      /\ \A q \in Purses \ {p} : gold'[q] = gold[q]
  BY <1>1 DEF bank_withdraw, Gains, TypeOK
<1>3. /\ bal' \in [Ply -> Int] /\ bal'[p] = bal[p] - amt
      /\ \A q \in Ply \ {p} : bal'[q] = bal[q]
  BY <1>1 DEF bank_withdraw, TypeOK
<1>4. /\ todo = <<>> /\ todo' = <<p>> /\ loan' = loan /\ used' = used /\ floor' = floor
      /\ file' = file /\ unsaved' = unsaved
  BY DEF bank_withdraw, Idle, Saves
<1>5. \A q \in Ply : bal'[q] <= Limit
  <2> SUFFICES ASSUME NEW q \in Ply PROVE bal'[q] <= Limit
    OBVIOUS
  <2>1. bal[q] \in Int /\ bal[q] <= Limit /\ Limit \in Nat
    BY Parties DEF TypeOK
  <2>2. bal'[q] = bal[q] \/ bal'[q] = bal[q] - amt
    BY <1>3
  <2> QED BY <1>1, <2>1, <2>2
<1>6. TypeOK'
  BY <1>2, <1>3, <1>4, <1>5 DEF TypeOK
<1>7. Total(gold') = Total(gold) - gold[p] + gold'[p]
  BY ONLY TypeOK, <1>1, <1>2, GoldTotal
<1>8. Total(bal') = Total(bal) - bal[p] + bal'[p]
  BY ONLY TypeOK, p \in Ply, <1>3, BalanceTotal
<1>9. Worth' = Worth
  BY <1>1, <1>2, <1>3, <1>4, <1>7, <1>8, TotalsTyped, SMTT(30) DEF Worth
<1>10. ASSUME NEW q \in Ply \ unsaved', q # p
       PROVE  gold'[q] + bal'[q] >= gold[q] + bal[q]
  <2>1. gold'[q] = gold[q] /\ bal'[q] = bal[q] /\ gold[q] \in Nat /\ bal[q] \in Int
    BY <1>2, <1>3, <1>10, Parties DEF TypeOK
  <2> QED BY <2>1
<1> QED BY <1>4, <1>6, <1>9, <1>10 DEF Equal, Settled

\* and a save moves none.
LEMMA SavegameEqual == ASSUME TypeOK, NEW p \in Ply, savegame(p) PROVE Equal
<1>1. /\ todo = <<>> /\ todo' = <<p>> /\ gold' = gold /\ bal' = bal /\ loan' = loan
      /\ used' = used /\ floor' = floor /\ file' = file /\ unsaved' = unsaved
  BY DEF savegame, Idle, Saves, bank
<1>2. TypeOK'
  BY <1>1 DEF TypeOK
<1>3. Worth' = Worth
  BY <1>1 DEF Worth
<1>4. \A q \in Ply : gold'[q] + bal'[q] >= gold[q] + bal[q]
  BY <1>1, Parties DEF TypeOK
<1> QED BY <1>1, <1>2, <1>3, <1>4 DEF Equal, Settled

-----------------------------------------------------------------------------
(* Gold that is divided.                                                   *)

\* Euclidean division.
LEMMA Euclid ==
    ASSUME NEW v \in Nat, NEW n \in Nat \ {0}
    PROVE  v = n * (v \div n) + (v % n) /\ v \div n \in Nat /\ v % n \in Nat
  OBVIOUS

\* What is not shared evenly is left over.
LEMMA Division ==
    ASSUME NEW v \in Nat, NEW m \in Nat
    PROVE  /\ v \div (1 + m) \in Nat /\ v % (1 + m) \in Nat
           /\ (v % (1 + m)) + (v \div (1 + m)) + (v \div (1 + m)) * m = v
<1> DEFINE n == 1 + m
           a == v \div n
           b == v % n
<1>1. n \in Nat \ {0} /\ n = 1 + m
  OBVIOUS
<1> HIDE DEF n
<1>2. a \in Nat /\ b \in Nat /\ v = n * a + b
  BY <1>1, Euclid, Zenon
<1> HIDE DEF a, b
<1>3. n * a = a + a * m
  BY <1>1, <1>2
<1>4. b + a + a * m = v
  <2> DEFINE c == a * m
             e == n * a
  <2>1. c \in Int /\ e \in Int /\ v = e + b /\ e = a + c
    BY <1>1, <1>2, <1>3
  <2> HIDE DEF c, e
  <2>2. b + a + c = v
    BY <2>1, <1>2
  <2> QED BY <2>2 DEF c
<1> QED BY <1>2, <1>4 DEF a, b, n

\* All that is divided is in the purses afterwards, and nobody has less.
LEMMA SharedWhole ==
    ASSUME TypeOK, NEW p \in Ply, NEW fol \in SUBSET Purses, p \notin fol, NEW v \in Nat,
           gold' = Shared(p, fol, v)
    PROVE  /\ gold' \in [Purses -> Nat] /\ \A c \in Purses : gold'[c] >= gold[c]
           /\ Total(gold') = Total(gold) + v
<1>0. p \in Purses /\ \A c \in Purses : gold[c] \in Nat
  BY Parties DEF TypeOK
<1>1. CASE v <= 1
  <2>1. gold' = [gold EXCEPT ![p] = @ + v] /\ gold[p] + v >= 0
    BY <1>0, <1>1 DEF Shared
  <2>2. /\ gold' \in [Purses -> Nat]
        /\ gold'[p] = gold[p] + v /\ \A q \in Purses \ {p} : gold'[q] = gold[q]
        /\ Total(gold') = Total(gold) + v
    <3>1. v \in Int
      OBVIOUS
    <3> QED BY ONLY TypeOK, <1>0, <3>1, <2>1, OneChanges, Zenon
  <2> QED BY <1>0, <2>2
<1>2. CASE ~(v <= 1)
  <2> DEFINE m == Cardinality(fol)
             a == v \div (1 + m)
             b == v % (1 + m)
             e == [c \in Purses |-> IF c = p THEN b + a ELSE IF c \in fol THEN a ELSE 0]
             even == [c \in fol |-> a]
             R == Purses \ {p}
  <2>1. IsFiniteSet(fol) /\ IsFiniteSet(R) /\ fol \in SUBSET R
    BY Parties, FS_Subset
  <2>2. m \in Nat
    BY <2>1, FS_CardinalityType
  <2>3. a \in Nat /\ b \in Nat /\ b + a + a * m = v
    <3> HIDE DEF m
    <3> QED BY <2>2, Division
  <2>4. gold' = [c \in Purses |->
                   gold[c] + (IF c = p THEN b + a ELSE IF c \in fol THEN a ELSE 0)]
    BY <1>2 DEF Shared
  <2> HIDE DEF a, b
  <2>5. /\ e[p] = b + a
        /\ \A c \in Purses : e[c] \in Nat /\ gold'[c] = gold[c] + e[c]
        /\ \A c \in R : e[c] = IF c \in fol THEN even[c] ELSE 0
        /\ \A c \in fol : even[c] \in Int /\ even[c] = a
        /\ DOMAIN gold' = Purses /\ gold' \in [Purses -> Int]
    BY <1>0, <2>3, <2>4
  <2>6. gold' \in [Purses -> Nat] /\ \A c \in Purses : gold'[c] >= gold[c]
    BY <1>0, <2>4, <2>5
  <2> HIDE DEF e, even
  <2>7. SumOver(e, R) = SumOver(even, fol)
    <3> HIDE DEF R
    <3> QED BY <2>1, <2>5, SumOn
  <2>8. SumOver(even, fol) = a * m
    BY <2>1, <2>3, <2>5, SumConstant
  <2>9. SumOver(e, Purses) = e[p] + SumOver(e, R)
    BY <1>0, <2>5, Parties, SumAnyLast
  <2>10. SumOver(gold', Purses) = SumOver(gold, Purses) + SumOver(e, Purses)
    <3>1. \A c \in Purses : gold[c] \in Int /\ e[c] \in Int /\ gold'[c] = gold[c] + e[c]
      BY <1>0, <2>5
    <3> QED BY <3>1, Parties, SumPlus
  <2>11. Total(gold) = SumOver(gold, Purses) /\ Total(gold') = SumOver(gold', Purses)
    BY <2>5, TotalIs DEF TypeOK
  <2>12. SumOver(e, Purses) = v
    <3> DEFINE am == a * m
    <3>1. am \in Int
      <4> HIDE DEF m
      <4> QED BY <2>2, <2>3
    <3>2. b + a + am = v /\ SumOver(e, R) = am
      BY <2>3, <2>7, <2>8
    <3> HIDE DEF am
    <3> QED BY <2>3, <2>5, <2>9, <3>1, <3>2
  <2> QED BY <2>6, <2>10, <2>11, <2>12
<1> QED BY <1>1, <1>2

\* Gold goes from the floor, v of it, into the purses.
LEMMA TakesUp ==
    ASSUME TypeOK, NEW p \in Ply, NEW fol \in SUBSET Purses, p \notin fol, NEW v \in Nat,
           gold' = Shared(p, fol, v), floor' \in [Heap -> Nat],
           Total(floor') = Total(floor) - v, Idle, NoSave, UNCHANGED <<bank, file, unsaved>>
    PROVE  Equal
<1>1. /\ gold' \in [Purses -> Nat] /\ \A c \in Purses : gold'[c] >= gold[c]
      /\ Total(gold') = Total(gold) + v
  BY SharedWhole
<1>2. /\ todo = <<>> /\ todo' = todo /\ bal' = bal /\ loan' = loan /\ used' = used
      /\ file' = file /\ unsaved' = unsaved
  BY DEF Idle, NoSave, bank
<1>3. TypeOK'
  BY <1>1, <1>2 DEF TypeOK
<1>4. Worth' = Worth
  BY <1>1, <1>2, TotalsTyped DEF Worth
<1>5. \A q \in Ply \ unsaved' : gold'[q] + bal'[q] >= gold[q] + bal[q]
  <2> SUFFICES ASSUME NEW q \in Ply PROVE gold'[q] + bal'[q] >= gold[q] + bal[q]
    OBVIOUS
  <2>1. /\ gold[q] \in Nat /\ bal[q] \in Int /\ gold'[q] \in Nat /\ gold'[q] >= gold[q]
        /\ bal'[q] = bal[q]
    BY <1>1, <1>2, Parties DEF TypeOK
  <2> QED BY <2>1
<1> QED BY <1>2, <1>3, <1>4, <1>5 DEF Equal, Settled

\* Picking up a heap shares it among followers to the last piece.
LEMMA GetEqual ==
    ASSUME TypeOK, NEW p \in Ply, NEW fol \in SUBSET Purses, p \notin fol, NEW h \in Heap,
           get_obj(p, h, fol)
    PROVE  Equal
<1>1. /\ Idle /\ NoSave /\ UNCHANGED <<bank, file, unsaved>>
      /\ gold' = Shared(p, fol, floor[h])
      /\ floor' = [floor EXCEPT ![h] = 0]
  BY DEF get_obj
<1>2. /\ floor[h] \in Nat /\ floor' \in [Heap -> Nat] /\ floor'[h] = 0
      /\ \A k \in Heap \ {h} : floor'[k] = floor[k]
  BY <1>1 DEF TypeOK
<1>3. Total(floor') = Total(floor) - floor[h] + floor'[h]
  BY ONLY TypeOK, h \in Heap, <1>2, FloorTotal
<1>4. Total(floor') = Total(floor) - floor[h]
  BY <1>2, <1>3, TotalsTyped
<1> QED BY <1>1, <1>2, <1>4, TakesUp

\* So does picking up several.
LEMMA GetAllEqual ==
    ASSUME TypeOK, NEW p \in Ply, NEW fol \in SUBSET Purses, p \notin fol,
           NEW hs \in SUBSET Heap, get_all_rom(p, hs, fol)
    PROVE  Equal
<1> DEFINE v == SumOver(floor, hs)
           off == [h \in Heap |-> IF h \in hs THEN floor[h] ELSE 0]
<1>1. /\ Idle /\ NoSave /\ UNCHANGED <<bank, file, unsaved>>
      /\ gold' = Shared(p, fol, v)
      /\ floor' = [h \in Heap |-> IF h \in hs THEN 0 ELSE floor[h]]
  BY DEF get_all_rom, SumOver
<1>2. /\ \A h \in Heap : floor[h] \in Nat
      /\ floor' \in [Heap -> Nat] /\ DOMAIN floor = Heap /\ DOMAIN floor' = Heap
      /\ \A h \in Heap : off[h] = IF h \in hs THEN floor[h] ELSE 0
      /\ \A h \in Heap : off[h] \in Int /\ floor'[h] \in Int /\ floor[h] = floor'[h] + off[h]
  BY <1>1 DEF TypeOK
<1>3. IsFiniteSet(hs) /\ IsFiniteSet(Heap)
  BY Parties, FS_Subset
<1>4. v \in Nat
  BY <1>2, <1>3, SumNotNegative
<1> HIDE DEF off
<1>5. SumOver(floor, Heap) = SumOver(floor', Heap) + SumOver(off, Heap)
  BY <1>2, <1>3, SumPlus
<1>6. SumOver(off, Heap) = v
  <2>1. \A h \in hs : floor[h] \in Int
    BY <1>2
  <2> QED BY <1>2, <1>3, <2>1, SumOn
<1>7. Total(floor) = SumOver(floor, Heap) /\ Total(floor') = SumOver(floor', Heap)
  BY <1>2, TotalIs
<1>8. SumOver(floor', Heap) \in Int
  BY <1>2, <1>3, SumAnyLast
<1> HIDE DEF v
<1>9. Total(floor') = Total(floor) - v
  BY <1>4, <1>5, <1>6, <1>7, <1>8
<1> QED BY <1>1, <1>2, <1>4, <1>9, TakesUp

\* No handler of Moves makes gold or loses any.
LEMMA MovesEqual == ASSUME TypeOK, Moves, ~SaveNext PROVE Equal
BY GiveEqual, PorterEqual, DropEqual, WithdrawEqual, StealEqual, GetEqual, GetAllEqual,
   SavegameEqual
   DEF Moves

\* What makes gold gives it to one, who has more by it.
LEMMA MakesSettled == ASSUME TypeOK, Makes PROVE Settled /\ Worth' >= Worth
<1>1. PICK p \in Purses, d \in Nat :
         /\ Idle /\ Gains(p, d) /\ UNCHANGED <<bank, floor, file, unsaved>>
         /\ todo' = todo \/ \E q \in Ply : todo' = <<q>>
  <2>1. 1 \in Nat /\ \A amt \in Amount : amt \in Nat
    BY Parties DEF Amount
  <2>2. CASE \E m \in Mon, amt \in Amount : Appear(m, amt)
    <3>1. PICK m \in Mon, amt \in Amount : Appear(m, amt)
      BY <2>2
    <3>2. /\ m \in Purses /\ amt \in Nat /\ Idle /\ Gains(m, amt) /\ todo' = todo
          /\ UNCHANGED <<bank, floor, file, unsaved>>
      BY <2>1, <3>1, Parties DEF Appear, NoSave
    <3> QED BY <3>2
  <2>3. CASE \E p \in Ply, amt \in Amount : sell(p, amt) \/ transmute(p, amt) \/ pledge(p, amt)
    <3>1. PICK p \in Ply, amt \in Amount : sell(p, amt) \/ transmute(p, amt) \/ pledge(p, amt)
      BY <2>3
    <3>2. /\ p \in Purses /\ amt \in Nat /\ Idle /\ Gains(p, amt) /\ todo' = todo
          /\ UNCHANGED <<bank, floor, file, unsaved>>
      BY <2>1, <3>1, Parties DEF sell, transmute, pledge, Earns, NoSave
    <3> QED BY <3>2
  <2>4. CASE \E p \in Ply : recycle(p)
    <3>1. PICK p \in Ply : recycle(p)
      BY <2>4
    <3>2. /\ p \in Purses /\ Idle /\ Gains(p, 1) /\ todo' = <<p>>
          /\ UNCHANGED <<bank, floor, file, unsaved>>
      BY <3>1, Parties DEF recycle, Earns, Saves
    <3> QED BY <2>1, <3>2
  <2> QED BY <2>2, <2>3, <2>4 DEF Makes
<1>2. /\ gold[p] \in Nat /\ d \in Int /\ gold[p] + d >= 0
      /\ gold' = [gold EXCEPT ![p] = @ + d]
  BY <1>1 DEF TypeOK, Gains
<1>3. /\ gold' \in [Purses -> Nat]
      /\ gold'[p] = gold[p] + d /\ \A q \in Purses \ {p} : gold'[q] = gold[q]
      /\ Total(gold') = Total(gold) + d
  BY <1>2, OneChanges
<1>4. /\ todo = <<>> /\ bal' = bal /\ loan' = loan /\ used' = used /\ floor' = floor
      /\ file' = file /\ unsaved' = unsaved
  BY <1>1 DEF Idle, bank
<1>5. todo' \in Seq(Ply)
  <2>1. todo \in Seq(Ply) /\ \A q \in Ply : <<q>> \in Seq(Ply)
    BY DEF TypeOK
  <2> QED BY <1>1, <2>1, Zenon
<1>6. TypeOK'
  BY <1>3, <1>4, <1>5 DEF TypeOK
<1>7. Worth' >= Worth
  <2>1. d \in Nat
    BY <1>1
  <2> QED BY <2>1, <1>3, <1>4, TotalsTyped DEF Worth
<1>8. \A q \in Ply \ unsaved' : gold'[q] + bal'[q] >= gold[q] + bal[q]
  <2> SUFFICES ASSUME NEW q \in Ply PROVE gold'[q] + bal'[q] >= gold[q] + bal[q]
    OBVIOUS
  <2>1. gold[q] \in Nat /\ bal[q] \in Int /\ bal'[q] = bal[q] /\ q \in Purses
    BY <1>4, Parties DEF TypeOK
  <2>2. gold'[q] = gold[q] \/ gold'[q] = gold[q] + d
    BY <1>3, <2>1
  <2> QED BY <2>1, <2>2
<1> QED BY <1>4, <1>6, <1>7, <1>8 DEF Settled

\* When nobody is left to be saved and everybody's file says no more than he
\* has, the files are worth no more than the game.
LEMMA AllSaved ==
    ASSUME TypeOK', \A p \in Ply : file'[p].gold + file'[p].bal <= gold'[p] + bal'[p]
    PROVE  FileWorth' <= Worth'
<1>1. (TypeOK /\ (\A p \in Ply : file[p].gold + file[p].bal <= gold[p] + bal[p])
         => FileWorth <= Worth)'
  BY PlayersWorth, PTL
<1> QED BY <1>1

\* The first to be saved is the one whose file may say too much.
LEMMA SaveKeeps == ASSUME MInv, DebtIsFlagged', SaveNext PROVE MInv' /\ Worth' = Worth
<1> DEFINE p == Head(todo)
           now == [gold |-> gold[p], bal |-> bal[p], loan |-> p \in loan, used |-> p \in used]
<1>1. /\ todo # <<>> /\ todo' = Tail(todo) /\ unsaved' = unsaved \ {p}
      /\ file' = [file EXCEPT ![p] = now]
      /\ gold' = gold /\ bal' = bal /\ loan' = loan /\ used' = used /\ floor' = floor
  BY DEF SaveNext, bank
<1>2. TypeOK /\ todo \in Seq(Ply) /\ p \in Ply /\ todo' \in Seq(Ply)
  BY <1>1 DEF MInv, TypeOK
<1>3. gold[p] \in Nat /\ bal[p] \in Int /\ bal[p] <= Limit
  BY <1>2, Parties DEF TypeOK
<1>4. now \in Account /\ now.gold = gold[p] /\ now.bal = bal[p]
  <2>1. (p \in loan) \in BOOLEAN /\ (p \in used) \in BOOLEAN
    OBVIOUS
  <2> HIDE DEF p
  <2> QED BY <1>3, <2>1 DEF Account
<1> HIDE DEF p, now
<1>5. /\ file' \in [Ply -> Account] /\ file'[p] = now
      /\ \A q \in Ply \ {p} : file'[q] = file[q]
  BY <1>1, <1>2, <1>4 DEF TypeOK
<1>6. TypeOK'
  BY <1>1, <1>2, <1>5 DEF TypeOK
<1>7. \A q \in Ply \ unsaved' : file'[q].gold + file'[q].bal <= gold'[q] + bal'[q]
  <2> SUFFICES ASSUME NEW q \in Ply \ unsaved'
               PROVE  file'[q].gold + file'[q].bal <= gold'[q] + bal'[q]
    OBVIOUS
  <2>1. CASE q = p
    BY <1>1, <1>3, <1>4, <1>5, <2>1
  <2>2. CASE q # p
    <3>1. q \notin unsaved /\ q # Head(todo)
      BY <1>1, <2>2 DEF p
    <3> QED BY <1>1, <1>5, <2>2, <3>1 DEF MInv, Covered
  <2> QED BY <2>1, <2>2
<1>8. Worth' = Worth
  BY <1>1 DEF Worth
<1>9. CrashMakesNone'
  <2> SUFFICES ASSUME unsaved' = {} PROVE FileWorth' <= Worth'
    BY <1>6 DEF CrashMakesNone
  <2> QED BY <1>6, <1>7, AllSaved
<1>10. Covered' /\ FilesInLimit'
  <2>1. Covered'
    BY <1>7 DEF Covered
  <2>2. FilesInLimit'
    BY <1>3, <1>4, <1>5 DEF FilesInLimit, MInv
  <2> QED BY <2>1, <2>2
<1> QED BY <1>6, <1>8, <1>9, <1>10 DEF MInv

\* After a crash the players have what their files say.
LEMMA CrashKeeps == ASSUME MInv, DebtIsFlagged', Crash PROVE MInv'
<1>1. /\ gold' = [p \in Purses |-> IF p \in Ply THEN file[p].gold ELSE 0]
      /\ bal' = [p \in Ply |-> file[p].bal]
      /\ loan' = {p \in Ply : file[p].loan}
      /\ used' = {p \in Ply : file[p].used}
      /\ floor' = [h \in Heap |-> 0]
      /\ todo' = <<>> /\ unsaved' = {} /\ file' = file
  BY DEF Crash
<1>2. /\ \A p \in Ply : file[p].gold \in Nat /\ file[p].bal \in Int /\ file[p].bal <= Limit
      /\ file \in [Ply -> Account]
  BY DEF MInv, TypeOK, Account, FilesInLimit
<1>3. TypeOK'
  <2>1. gold' \in [Purses -> Nat] /\ floor' \in [Heap -> Nat]
    BY <1>1, <1>2
  <2>2. bal' \in [Ply -> Int] /\ \A p \in Ply : bal'[p] <= Limit
    BY <1>1, <1>2
  <2>3. loan' \subseteq Ply /\ used' \subseteq Ply /\ file' \in [Ply -> Account]
        /\ unsaved' \subseteq Ply /\ todo' \in Seq(Ply)
    BY <1>1, <1>2
  <2> QED BY <2>1, <2>2, <2>3 DEF TypeOK
<1>4. \A p \in Ply : file'[p].gold + file'[p].bal <= gold'[p] + bal'[p]
  <2> SUFFICES ASSUME NEW p \in Ply
               PROVE  file'[p].gold + file'[p].bal <= gold'[p] + bal'[p]
    OBVIOUS
  <2>1. gold'[p] = file[p].gold /\ bal'[p] = file[p].bal /\ file' = file
    BY <1>1, Parties
  <2> QED BY <1>2, <2>1
<1>5. CrashMakesNone'
  BY <1>3, <1>4, AllSaved DEF CrashMakesNone
<1>6. Covered' /\ FilesInLimit'
  BY <1>1, <1>4 DEF Covered, FilesInLimit, MInv
<1> QED BY <1>3, <1>5, <1>6 DEF MInv

\* The invariant holds at the start.
LEMMA InitMInv == Init => MInv
<1> SUFFICES ASSUME Init PROVE MInv
  OBVIOUS
<1>1. TypeOK
  BY Parties DEF Init, TypeOK, Account
<1>2. DebtIsFlagged /\ FilesInLimit /\ Covered
  BY Parties DEF Init, DebtIsFlagged, FilesInLimit, Covered
<1>3. FileWorth <= Worth
  <2>1. \A p \in Ply : file[p].gold + file[p].bal <= gold[p] + bal[p]
    BY Parties DEF Init
  <2> QED BY <1>1, <2>1, PlayersWorth
<1> QED BY <1>1, <1>2, <1>3 DEF MInv, CrashMakesNone

\* What a step does to the invariant and to the worth of the game.
LEMMA NextMInv ==
    ASSUME MInv, DebtIsFlagged', [Next]_vars
    PROVE  /\ MInv'
           /\ Worth' > Worth => Makes \/ Crash
           /\ Worth' < Worth => Uses \/ Crash
<1>0. TypeOK /\ DebtIsFlagged /\ Worth \in Int
  BY TotalsTyped DEF MInv, Worth
<1>1. CASE Makes
  <2>1. Settled /\ Worth' >= Worth
    BY <1>0, <1>1, MakesSettled
  <2>2. Worth' \in Int
    <3>1. (TypeOK => Worth \in Int)'
      BY WorthTyped, PTL
    <3> QED BY <2>1, <3>1 DEF Settled
  <2> QED BY <1>0, <1>1, <2>1, <2>2, SettledKeeps
<1>2. CASE Uses
  <2>1. Settled /\ Worth' <= Worth
    BY <1>0, <1>2, UsesMild DEF Mild
  <2>2. Worth' \in Int
    <3>1. (TypeOK => Worth \in Int)'
      BY WorthTyped, PTL
    <3> QED BY <2>1, <3>1 DEF Settled
  <2> QED BY <1>0, <1>2, <2>1, <2>2, SettledKeeps
<1>3. CASE Moves /\ ~SaveNext
  <2>1. Settled /\ Worth' = Worth
    BY <1>0, <1>3, MovesEqual DEF Equal
  <2> QED BY <1>0, <2>1, SettledKeeps
<1>4. CASE SaveNext
  BY <1>0, <1>4, SaveKeeps
<1>5. CASE Crash
  BY <1>5, CrashKeeps
<1>6. CASE UNCHANGED vars
  <2>1. /\ gold' = gold /\ bal' = bal /\ loan' = loan /\ used' = used /\ floor' = floor
        /\ file' = file /\ todo' = todo /\ unsaved' = unsaved
    BY <1>6 DEF vars, bank
  <2>2. Worth' = Worth /\ FileWorth' = FileWorth
    BY <2>1 DEF Worth, FileWorth
  <2>3. TypeOK' /\ FilesInLimit' /\ Covered'
    BY <2>1 DEF MInv, TypeOK, FilesInLimit, Covered
  <2> QED BY <1>0, <2>1, <2>2, <2>3 DEF MInv, CrashMakesNone
<1> QED BY <1>1, <1>2, <1>3, <1>4, <1>5, <1>6 DEF Next

\* The invariant, beside the debts that are flagged.
LEMMA Invariant == Spec => [](MInv /\ IInv)
<1>1. MInv /\ IInv /\ [Next]_vars => (MInv /\ IInv)'
  <2> SUFFICES ASSUME MInv, IInv, [Next]_vars PROVE MInv' /\ IInv'
    OBVIOUS
  <2>1. IInv'
    BY NextIInv
  <2> QED BY <2>1, NextMInv DEF IInv
<1> QED BY <1>1, InitMInv, InitIInv, PTL DEF Spec

\* A crash never doubles gold that was given, dropped or transferred: once
\* everybody who spent gold has been saved, the files give back no more than
\* there is.
THEOREM CrashMakesNoneHolds == Spec => []CrashMakesNone
<1>1. MInv => CrashMakesNone
  BY DEF MInv
<1> QED BY <1>1, Invariant, PTL

\* While the game runs gold comes only from what makes it and goes only for
\* what uses it up.
THEOREM GoldConservedHolds == Spec => GoldConserved
<1>1. MInv /\ IInv /\ MInv' /\ IInv' /\ [Next]_vars =>
        [/\ Worth' > Worth => Makes \/ Crash
         /\ Worth' < Worth => Uses \/ Crash]_vars
  BY NextMInv DEF IInv
<1> QED BY <1>1, Invariant, PTL DEF Spec, GoldConserved
=============================================================================
