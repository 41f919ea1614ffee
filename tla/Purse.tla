-------------------------------- MODULE Purse --------------------------------
(***************************************************************************)
(* Gold: what players and monsters carry, what lies on the floor, what the *)
(* bank keeps or is owed, and what the files of the players say of it      *)
(* (bank.c, command2.c, command5.c, command7.c, command8.c, command9.c).   *)
(*                                                                         *)
(* A handler changes purses and then saves some of those concerned, one    *)
(* file after the other; the game may crash before, between and after.     *)
(* Amounts are small: the fees and limits of the code are constants here.  *)
(***************************************************************************)
EXTENDS Integers, Sequences, FiniteSetsExt

CONSTANTS
    Ply, Mon,        \* players and monsters
    Heap,            \* bound: places on the floor a heap of gold can lie
    MaxGold,         \* bound: gold in all purses, heaps and accounts, and in
                     \* the files at a crash
    MinDeposit,      \* least deposit and transfer (100)
    DepositShare,    \* part of a deposit taken as a fee (50)
    TransferShare,   \* part of a transfer taken as a fee (20)
    LoanShare,       \* part of a loan taken as a fee (10)
    MinLoan, MaxLoan,\* least loan (1,000), and the most at somebody's level
    Limit,           \* no account may hold more (10,000,000)
    BalanceFee,      \* taken for looking at a balance (10) ...
    SmallBalance,    \* ... unless all there is is not more than this (100)
    Tithe,           \* for an absolution (2,000)
    Pittance         \* halved gold below this is lost altogether (100)

Purses == Ply \cup Mon
Amount == 1..MaxGold

ASSUME PurseAssumption ==
    /\ IsFiniteSet(Purses) /\ IsFiniteSet(Heap) /\ Ply \cap Mon = {}
    /\ \A n \in {MaxGold, MinDeposit, DepositShare, TransferShare, LoanShare, MinLoan,
                 MaxLoan, Limit, BalanceFee, SmallBalance, Tithe, Pittance} :
          n \in Nat \ {0}
    /\ BalanceFee <= SmallBalance

VARIABLES
    gold,       \* what each carries
    bal,        \* each player's bank balance, negative for a debt
    loan,       \* PLOANB: players with a loan
    used,       \* PLOANU: players who have used it
    floor,      \* the heaps of gold in the room, 0 for none
    file,       \* what the file of each player says
    todo,       \* the players that the handler under way has still to save
    unsaved     \* history: players who have spent or lost gold by a handler
                \* that did not save them, and have not been saved since

vars == <<gold, bal, loan, used, floor, file, todo, unsaved>>
bank == <<bal, loan, used>>

Account == [gold : Nat, bal : Int, loan : BOOLEAN, used : BOOLEAN]

TypeOK ==
    /\ gold \in [Purses -> Nat] /\ floor \in [Heap -> Nat]
    /\ bal \in [Ply -> Int] /\ \A p \in Ply : bal[p] <= Limit
    /\ loan \subseteq Ply /\ used \subseteq Ply
    /\ file \in [Ply -> Account] /\ todo \in Seq(Ply)
    /\ unsaved \subseteq Ply

Total(f) == MapThenSumSet(LAMBDA x : f[x], DOMAIN f)
Worth == Total(gold) + Total(bal) + Total(floor)
FileWorth == Total([p \in Ply |-> file[p].gold + file[p].bal])

Init ==
    /\ gold = [p \in Purses |-> 0] /\ floor = [h \in Heap |-> 0]
    /\ bal = [p \in Ply |-> 0] /\ loan = {} /\ used = {}
    /\ file = [p \in Ply |-> [gold |-> 0, bal |-> 0, loan |-> FALSE, used |-> FALSE]]
    /\ todo = <<>>
    /\ unsaved = {}

Idle == todo = <<>>

\* The bound.
InCredit(f) == MapThenSumSet(LAMBDA p : IF f[p] > 0 THEN f[p] ELSE 0, Ply)
Fits(amt) == amt + Total(gold) + Total(floor) + InCredit(bal) <= MaxGold

Gains(p, amt) == gold' = [gold EXCEPT ![p] = @ + amt]
Loses(p, amt) == gold' = [gold EXCEPT ![p] = @ - amt]
Hand(p, q, amt) == [gold EXCEPT ![p] = @ - amt, ![q] = @ + amt]

Unsaved(p) == unsaved' = unsaved \cup ({p} \cap Ply)
Saves(seq) == todo' = seq
NoSave == UNCHANGED todo

-----------------------------------------------------------------------------
(* Saving, and the end.                                                    *)

\* The next save of the handler.
SaveNext ==
    /\ todo # <<>>
    /\ LET p == Head(todo)
       IN /\ file' = [file EXCEPT ![p] = [gold |-> gold[p], bal |-> bal[p],
                                          loan |-> p \in loan, used |-> p \in used]]
          /\ unsaved' = unsaved \ {p}
    /\ todo' = Tail(todo)
    /\ UNCHANGED <<gold, bank, floor>>

\* The save command, or a save in the background.
savegame(p) ==
    /\ Idle /\ Saves(<<p>>)
    /\ UNCHANGED <<gold, bank, floor, file, unsaved>>

\* The players come back with what their files say; the monsters and the
\* heaps are gone.  What was stolen and saved may come back twice.
Crash ==
    /\ Total([p \in Ply |-> file[p].gold]) + InCredit([p \in Ply |-> file[p].bal]) <= MaxGold
    /\ gold' = [p \in Purses |-> IF p \in Ply THEN file[p].gold ELSE 0]
    /\ bal' = [p \in Ply |-> file[p].bal]
    /\ loan' = {p \in Ply : file[p].loan}
    /\ used' = {p \in Ply : file[p].used}
    /\ floor' = [h \in Heap |-> 0]
    /\ todo' = <<>>
    /\ unsaved' = {}
    /\ UNCHANGED file

-----------------------------------------------------------------------------
(* Gold from hand to hand and on the floor.                                *)

SaveOrderReversed(p, q) == IF q \in Ply THEN <<q, p>> ELSE <<p>>
SaveOrder(p, q) == IF q \in Ply THEN <<p, q>> ELSE <<p>>

give_money(p, q, amt) ==
    /\ Idle /\ p # q /\ amt <= gold[p]
    /\ gold' = Hand(p, q, amt)
    /\ Saves(SaveOrder(p, q))
    /\ UNCHANGED <<bank, floor, file, unsaved>>

\* A monster that is paid, or one that keeps a bribe and stays.
pay_porter(p, m, amt) ==
    /\ Idle /\ amt <= gold[p]
    /\ gold' = Hand(p, m, amt)
    /\ Unsaved(p) /\ NoSave
    /\ UNCHANGED <<bank, floor, file>>

\* A bribed monster leaves with all it has.
bribe(p, m, amt) ==
    /\ Idle /\ amt <= gold[p]
    /\ gold' = [gold EXCEPT ![p] = @ - amt, ![m] = 0]
    /\ Unsaved(p) /\ NoSave
    /\ UNCHANGED <<bank, floor, file>>

stealgold(p, q) ==
    /\ Idle /\ p # q /\ gold[q] # 0
    /\ gold' = Hand(q, p, gold[q])
    /\ Unsaved(q) /\ NoSave
    /\ UNCHANGED <<bank, floor, file>>

\* What p and the followers with him have after v gold is divided: the odd
\* pieces are his, and so is a single piece.
SharedTwice(p, fol, v) ==
    LET n == 1 + Cardinality(fol)
    IN [c \in Purses |-> gold[c] + (IF c = p THEN v ELSE IF c \in fol THEN v \div n ELSE 0)]
Shared(p, fol, v) ==
    LET n == 1 + Cardinality(fol)
    IN IF v <= 1 THEN [gold EXCEPT ![p] = @ + v]
       ELSE [c \in Purses |->
                gold[c] + (IF c = p THEN (v % n) + v \div n
                           ELSE IF c \in fol THEN v \div n ELSE 0)]

\* fol: those who follow p, when he splits gold, wherever they are.
get_obj(p, h, fol) ==
    /\ Idle /\ floor[h] # 0
    /\ gold' = Shared(p, fol, floor[h])
    /\ floor' = [floor EXCEPT ![h] = 0]
    /\ NoSave
    /\ UNCHANGED <<bank, file, unsaved>>

\* All heaps that are not too heavy.
get_all_rom(p, hs, fol) ==
    /\ Idle /\ \A h \in hs : floor[h] # 0
    /\ gold' = Shared(p, fol, MapThenSumSet(LAMBDA h : floor[h], hs))
    /\ floor' = [h \in Heap |-> IF h \in hs THEN 0 ELSE floor[h]]
    /\ NoSave
    /\ UNCHANGED <<bank, file, unsaved>>

drop(p, amt, h) ==
    /\ Idle /\ amt <= gold[p] /\ floor[h] = 0
    /\ Loses(p, amt)
    /\ floor' = [floor EXCEPT ![h] = amt]
    /\ Saves(<<p>>)
    /\ UNCHANGED <<bank, file, unsaved>>

\* drop_negative: to drop less than nothing costs half the gold.
drop_negative(p) ==
    /\ Idle
    /\ LET half == gold[p] \div 2
           left == IF half < Pittance THEN 0 ELSE half
       IN gold' = [gold EXCEPT ![p] = left]
    /\ Unsaved(p) /\ Saves(<<p>>)
    /\ UNCHANGED <<bank, floor, file>>

\* Slime, in a room, or a monster's death there: the gold is gone.
drop_slime(p, amt) ==
    /\ Idle /\ amt <= gold[p]
    /\ Loses(p, amt) /\ Unsaved(p)
    /\ Saves(<<p>>)
    /\ UNCHANGED <<bank, floor, file>>

\* A monster with gold appears.
Appear(m, amt) ==
    /\ Idle /\ gold[m] = 0 /\ Fits(amt)
    /\ Gains(m, amt) /\ NoSave
    /\ UNCHANGED <<bank, floor, file, unsaved>>

die(m, h) ==
    /\ Idle /\ gold[m] # 0 /\ floor[h] = 0
    /\ gold' = [gold EXCEPT ![m] = 0]
    /\ \/ floor' = [floor EXCEPT ![h] = gold[m]]
       \/ UNCHANGED floor
    /\ NoSave
    /\ UNCHANGED <<bank, file, unsaved>>

-----------------------------------------------------------------------------
(* What makes gold and what uses it up.                                    *)

Earns(p, amt) ==
    /\ Idle /\ Fits(amt)
    /\ Gains(p, amt)
    /\ UNCHANGED <<bank, floor, file, unsaved>>

sell(p, amt) == Earns(p, amt) /\ NoSave
transmute(p, amt) == Earns(p, amt) /\ NoSave
pledge(p, amt) == Earns(p, amt) /\ NoSave
recycle(p) == Earns(p, 1) /\ Saves(<<p>>)

Pays(p, cost, back) ==
    /\ Idle /\ cost <= gold[p]
    /\ Loses(p, cost - back) /\ Unsaved(p)
    /\ UNCHANGED <<bank, floor, file>>

buy(p, cost) == Pays(p, cost, 0) /\ NoSave
purchase(p, cost) == Pays(p, cost, 0) /\ NoSave
recharge_wand(p, cost) == Pays(p, cost, 0) /\ NoSave
rescind(p, cost) == Pays(p, cost, 0) /\ NoSave
silver_renew(p, cost) == Pays(p, cost, 0) /\ Saves(<<p>>)

gatekeeper(p, cost) == Pays(p, cost, 0) /\ NoSave

\* Mended, or broken and perhaps paid back.
repair(p, cost) ==
    \/ Pays(p, cost, 0) /\ Saves(<<p>>)
    \/ \E back \in {0, cost} : Pays(p, cost, back) /\ NoSave

\* Where the enchantment does not hold, half is paid back.
renew(p, cost) == \E back \in {0, cost \div 2} : Pays(p, cost, back) /\ Saves(<<p>>)

\* Offered with too little experience, the Great Horns take all.
horns(p) == Pays(p, gold[p], 0) /\ NoSave

-----------------------------------------------------------------------------
(* The bank.                                                               *)

Accepts(b, amt) == amt + b <= Limit

bank_balance(p) ==
    /\ Idle /\ p \notin loan
    /\ LET left == IF bal[p] <= SmallBalance THEN 0 ELSE bal[p] - BalanceFee
       IN /\ bal' = [bal EXCEPT ![p] = left]
          /\ Unsaved(p)
    /\ NoSave
    /\ UNCHANGED <<gold, loan, used, floor, file>>

bank_withdraw(p, amt) ==
    /\ Idle /\ bal[p] >= 0 /\ amt <= bal[p] /\ amt <= Limit
    /\ Gains(p, amt)
    /\ bal' = [bal EXCEPT ![p] = @ - amt]
    /\ Saves(<<p>>)
    /\ UNCHANGED <<loan, used, floor, file, unsaved>>

\* A deposit repays all of a loan or is refused; only the other kind is saved.
bank_deposit(p, amt) ==
    /\ Idle /\ amt >= MinDeposit /\ amt <= gold[p]
    /\ Accepts(bal[p], amt)
    /\ p \in loan => amt >= -bal[p]
    /\ Loses(p, amt)
    /\ loan' = loan \ {p}
    /\ IF p \in loan
       THEN /\ bal' = [bal EXCEPT ![p] = @ + amt]
            /\ used' = used \ {p}
            /\ NoSave
            /\ UNCHANGED unsaved
       ELSE /\ bal' = [bal EXCEPT ![p] = @ + amt - amt \div DepositShare]
            /\ Saves(<<p>>) /\ Unsaved(p)
            /\ UNCHANGED used
    /\ UNCHANGED <<floor, file>>

PaidOffByMore(b) == b > 0
PaidOff(b) == b >= 0

\* q need not be playing: then his file is loaded for it.
bank_transfer(p, q, amt) ==
    LET fee == amt \div TransferShare
    IN /\ Idle /\ p # q /\ amt >= MinDeposit
       /\ amt + fee <= bal[p] /\ Accepts(bal[q], amt)
       /\ bal' = [bal EXCEPT ![p] = @ - (amt + fee), ![q] = @ + amt]
       /\ loan' = IF PaidOff(bal'[q]) THEN loan \ {q} ELSE loan
       /\ Saves(SaveOrder(p, q)) /\ Unsaved(p)
       /\ UNCHANGED <<gold, used, floor, file>>

\* A loan is a debt of the loan and its fee; no gold is handed out.
bank_loan(p, amt) ==
    /\ Idle /\ amt \in MinLoan..MaxLoan
    /\ bal[p] <= 0 /\ p \notin loan
    /\ LET debt == amt + amt \div LoanShare
       IN /\ bal' = [bal EXCEPT ![p] = -(@ + debt)]
          /\ Unsaved(p)
    /\ loan' = loan \cup {p}
    /\ Saves(<<p>>)
    /\ UNCHANGED <<gold, used, floor, file>>

absolve(q) ==
    /\ Idle /\ bal[q] >= Tithe
    /\ bal' = [bal EXCEPT ![q] = @ - Tithe]
    /\ Unsaved(q) /\ NoSave
    /\ UNCHANGED <<gold, loan, used, floor, file>>

\* Training, from level seven on; before, it is paid in gold.
MayTrain(p, cost) == cost <= bal[p] /\ p \notin used

train_gold(p, cost) == Pays(p, cost, 0) /\ NoSave
train(p, cost) ==
    /\ Idle /\ MayTrain(p, cost)
    /\ IF p \in loan
       THEN used' = used \cup {p} /\ UNCHANGED <<bal, unsaved>>
       ELSE /\ bal' = [bal EXCEPT ![p] = @ - cost]
            /\ Unsaved(p)
            /\ UNCHANGED used
    /\ NoSave
    /\ UNCHANGED <<gold, loan, floor, file>>

-----------------------------------------------------------------------------
Makes ==
    \/ \E m \in Mon, amt \in Amount : Appear(m, amt)
    \/ \E p \in Ply, amt \in Amount : sell(p, amt) \/ transmute(p, amt) \/ pledge(p, amt)
    \/ \E p \in Ply : recycle(p)

Uses ==
    \/ \E p \in Ply, amt \in Amount :
         \/ buy(p, amt) \/ purchase(p, amt) \/ recharge_wand(p, amt) \/ rescind(p, amt)
         \/ silver_renew(p, amt) \/ repair(p, amt) \/ renew(p, amt)
         \/ gatekeeper(p, amt) \/ train_gold(p, amt) \/ train(p, amt) \/ drop_slime(p, amt)
         \/ \E m \in Mon : bribe(p, m, amt)
         \/ bank_deposit(p, amt) \/ bank_loan(p, amt)
         \/ \E q \in Ply : bank_transfer(p, q, amt)
    \/ \E p \in Ply : horns(p) \/ drop_negative(p) \/ bank_balance(p) \/ absolve(p)
    \/ \E m \in Mon, h \in Heap : die(m, h)

Moves ==
    \/ \E p \in Ply, amt \in Amount :
         \/ \E q \in Purses : give_money(p, q, amt)
         \/ \E m \in Mon : pay_porter(p, m, amt)
         \/ \E h \in Heap : drop(p, amt, h)
    \/ \E p \in Ply, amt \in 0..MaxGold : bank_withdraw(p, amt)
    \/ \E p \in Ply, q \in Purses : stealgold(p, q)
    \/ \E p \in Ply, fol \in SUBSET Purses :
         /\ p \notin fol
         /\ \/ \E h \in Heap : get_obj(p, h, fol)
            \/ \E hs \in SUBSET Heap \ {{}} : get_all_rom(p, hs, fol)
    \/ SaveNext
    \/ \E p \in Ply : savegame(p)

Next == Makes \/ Uses \/ Moves \/ Crash

Spec == Init /\ [][Next]_vars

-----------------------------------------------------------------------------
(* Properties.                                                             *)

\* Who has PLOANB owes the bank, and nobody else does, in memory and in the
\* files: a debt is not wiped out by looking at the balance, and no account
\* with money in it is closed as a loan.
DebtIsFlagged ==
    \A p \in Ply : (p \in loan <=> bal[p] < 0) /\ (file[p].loan <=> file[p].bal < 0)

\* While the game runs gold comes only from monsters, sales, transmutation,
\* recycling and princes, and goes only for prices, fees, debts and into
\* slime: what is given, dropped, shared out, stolen or withdrawn is neither
\* more nor less afterwards.
GoldConserved ==
    [][/\ Worth' > Worth => Makes \/ Crash
       /\ Worth' < Worth => Uses \/ Crash]_vars

\* A crash never doubles gold that was given, dropped or transferred: once
\* everybody who spent gold or was robbed of it has been saved, the files
\* together give back no more than is in the game, also between two saves of
\* one handler.
CrashMakesNone == TypeOK /\ (unsaved = {} => FileWorth <= Worth)

=============================================================================
