---------------------------- MODULE PresenceProofs ----------------------------
(***************************************************************************)
(* Sessions (Accounts) and the monsters they wake up (Active), for any     *)
(* number of sockets, names, versions, players, rooms and monsters.        *)
(*                                                                         *)
(* Accounts: a played copy is never older than its file (PlayedIsNewest),  *)
(* two sessions of a character do not both come from a login               *)
(* (OneLoginPerName), whoever logs in plays what the file and the copy     *)
(* played until then have (LoginKeepsProgress), and a file is set back     *)
(* only while somebody is at its password prompt (OnlyPromptSetsBack).     *)
(*                                                                         *)
(* PlayedIsNewest is not inductive: a copy behind a password prompt is     *)
(* saved by save_all_ply, so one has to know that it is no newer than the  *)
(* played copy, and a second played copy would save itself, so one has to  *)
(* know that there is none. Newest says both. The two action properties    *)
(* need to know besides which stages play, and that whoever plays has a    *)
(* file.                                                                   *)
(*                                                                         *)
(* Active: the list and its cursor are sound (ActiveSound), and a monster  *)
(* that a player sees is on the list unless it came without add_active     *)
(* (SeenIsActive). A handler changes the state several times, and reads    *)
(* in between what it has changed, so both are said of the states that     *)
(* handlers pass on: Right(s, T) says that what is on the list of s is in  *)
(* a room, once, and that what is seen in s is on the list or in T. Each   *)
(* function of the code keeps that, and so does each handler. A pass ends, *)
(* or each step of it brings the end nearer (PassDescends), and its cursor *)
(* is lost to a teleport only (FreedByTeleport).                           *)
(***************************************************************************)
EXTENDS Accounts, Active, FiniteSetTheorems, SequenceTheorems, WellFoundedInduction, TLAPS

\* The one played copy of character n is as new as every other copy of it
\* and as the file.
Newest(n) ==
    \A fd \in Live : ply[fd].name = n =>
        /\ \A g \in Live : ply[g].name = n => g = fd
        /\ \A g \in Fd : ply[g].name = n => ply[g].version <= ply[fd].version
        /\ file[n] <= ply[fd].version

\* A played copy has a character's name; a socket at the password prompt has
\* a copy; a name that is being created was typed.
Identified ==
    \A fd \in Fd :
        /\ ply[fd].live => ply[fd] \in Copy
        /\ stage[fd] = "password" => ply[fd] \in Copy
        /\ stage[fd] \in {"confirm", "create"} => typed[fd] \in Name

IInv == TypeOK /\ Identified /\ \A n \in Name \ twice : Newest(n)

-----------------------------------------------------------------------------

\* At the start nobody plays, so the invariant holds.
LEMMA InitIInv == Init => IInv
  BY AccountsAssumption
     DEF Init, NoSessions, IInv, TypeOK, Stages, NoPly, Identified, Newest, Live

\* What disconnect leaves of the sockets in S.
LEMMA DropType ==
    ASSUME NEW S \in SUBSET Fd, TypeOK, Identified, Drop(S)
    PROVE  /\ stage' \in [Fd -> Stages]
           /\ typed' \in [Fd -> Name \cup {NoName}]
           /\ ply' \in [Fd -> Copy \cup {NoPly}]
           /\ Identified'
  BY DEF Drop, TypeOK, Stages, Identified, NoPly

\* Every step keeps the types, and that a copy past the name has a name.
LEMMA NextType == IInv /\ [Next]_vars => TypeOK' /\ Identified'
<1> SUFFICES ASSUME IInv, [Next]_vars PROVE TypeOK' /\ Identified'
  OBVIOUS
<1>0. TypeOK /\ Identified
  BY DEF IInv
<1> USE <1>0, AccountsAssumption
<1>1. ASSUME NEW fd \in Fd, Connect(fd) PROVE TypeOK' /\ Identified'
  BY <1>1 DEF Connect, Goto, TypeOK, Identified, Stages
<1>2. ASSUME NEW fd \in Fd, SitePassword(fd) PROVE TypeOK' /\ Identified'
  BY <1>2 DEF SitePassword, Goto, TypeOK, Identified, Stages
<1>3. ASSUME NEW fd \in Fd, NEW n \in Name, EnterName(fd, n)
      PROVE  TypeOK' /\ Identified'
  <2>1. CASE file[n] = 0
    BY <1>3, <2>1 DEF EnterName, Goto, TypeOK, Identified, Stages
  <2>2. CASE file[n] > 0
    <3> DEFINE c == [name |-> n, version |-> file[n],
                     live |-> FALSE, born |-> FALSE]
    <3>1. c \in Copy /\ c.live = FALSE
      BY <2>2 DEF TypeOK, Copy
    <3>2. /\ ply' = [ply EXCEPT ![fd] = c]
          /\ stage' = [stage EXCEPT ![fd] = "password"]
          /\ typed' = typed /\ file' = file /\ twice' = twice
      BY <1>3, <2>2 DEF EnterName, Goto
    <3> HIDE DEF c
    <3> QED BY <3>1, <3>2 DEF TypeOK, Identified, Stages
  <2> QED BY <2>1, <2>2 DEF TypeOK
<1>4. ASSUME NEW fd \in Fd, Confirm(fd) PROVE TypeOK' /\ Identified'
  BY <1>4 DEF Confirm, Goto, TypeOK, Identified, Stages
<1>5. ASSUME NEW fd \in Fd, Create(fd) PROVE TypeOK' /\ Identified'
  <2> DEFINE c == [name |-> typed[fd], version |-> 1, live |-> TRUE, born |-> TRUE]
  <2>1. typed[fd] \in Name /\ c \in Copy
    BY <1>5 DEF Create, Identified, Copy
  <2>2. /\ ply' = [ply EXCEPT ![fd] = c]
        /\ file' = [file EXCEPT ![typed[fd]] = 1]
        /\ stage' = [stage EXCEPT ![fd] = "command"]
        /\ typed' = typed
        /\ twice' \in {twice, twice \cup {typed[fd]}}
    BY <1>5 DEF Create, Goto
  <2> HIDE DEF c
  <2> QED BY <2>1, <2>2 DEF TypeOK, Identified, Stages
<1>6. ASSUME NEW fd \in Fd, Password(fd) PROVE TypeOK' /\ Identified'
  <2> DEFINE c == EnterWith(fd, file')
             S == Others(fd)
  <2>1. /\ stage[fd] = "password"
        /\ file' \in [Name -> 0..MaxVersion]
        /\ file'[ply[fd].name] > 0
        /\ stage' = [g \in Fd |-> IF g \in S THEN "none"
                                  ELSE IF g = fd THEN "command" ELSE stage[g]]
        /\ typed' = [g \in Fd |-> IF g \in S THEN NoName ELSE typed[g]]
        /\ ply' = [g \in Fd |-> IF g \in S THEN NoPly
                                ELSE IF g = fd THEN c ELSE ply[g]]
        /\ twice' = twice
    BY <1>6 DEF Password, Saves
  <2>2. ply[fd] \in Copy
    BY <2>1 DEF Identified
  <2>3. c \in Copy
    <3>1. ply[fd].name \in Name
      BY <2>2 DEF Copy
    <3>2. file'[ply[fd].name] \in 1..MaxVersion
      BY <2>1, <3>1
    <3> QED BY <2>2, <3>2 DEF EnterWith, Copy
  <2>4. fd \notin S
    BY DEF Others
  <2> HIDE DEF c, S
  <2>5. TypeOK'
    BY <2>1, <2>3 DEF TypeOK, Stages
  <2>6. Identified'
    BY <2>1, <2>3, <2>4 DEF Identified, TypeOK, NoPly
  <2> QED BY <2>5, <2>6
<1>7. ASSUME NEW fd \in Fd, PasswordGone(fd) PROVE TypeOK' /\ Identified'
  <2>1. /\ file' \in [Name -> 0..MaxVersion]
        /\ twice' = twice
        /\ Drop(Others(fd) \cup {fd}) \/ Drop(Fd)
    BY <1>7 DEF PasswordGone, Saves, Reset
  <2>2. Others(fd) \cup {fd} \in SUBSET Fd
    BY DEF Others, CopiesOf
  <2> QED BY <2>1, <2>2, DropType DEF TypeOK
<1>8. ASSUME NEW fd \in Fd, Progress(fd) PROVE TypeOK' /\ Identified'
  <2> DEFINE c == [ply[fd] EXCEPT !.version = @ + 1]
  <2>1. ply[fd] \in Copy /\ ply[fd].version < MaxVersion
    BY <1>8 DEF Progress, Live, Identified
  <2>2. c \in Copy
    BY <2>1 DEF Copy
  <2>3. ply' = [ply EXCEPT ![fd] = c] /\ UNCHANGED <<stage, typed, file, twice>>
    BY <1>8 DEF Progress, TypeOK
  <2> HIDE DEF c
  <2> QED BY <2>2, <2>3 DEF TypeOK, Identified
<1>9. ASSUME NEW fd \in Fd, SaveGame(fd) PROVE TypeOK' /\ Identified'
  BY <1>9 DEF SaveGame, Saves, TypeOK, Identified
<1>10. ASSUME NEW fd \in Fd, Disconnect(fd) PROVE TypeOK' /\ Identified'
  <2>1. file' \in [Name -> 0..MaxVersion] /\ twice' = twice /\ Drop({fd})
    BY <1>10 DEF Disconnect, Saves
  <2> QED BY <2>1, DropType DEF TypeOK
<1>11. ASSUME NEW fd \in Fd, AskSuicide(fd) \/ AbortSuicide(fd)
       PROVE  TypeOK' /\ Identified'
  BY <1>11 DEF AskSuicide, AbortSuicide, Goto, TypeOK, Identified, Stages
<1>12. ASSUME NEW fd \in Fd, Suicide(fd) PROVE TypeOK' /\ Identified'
  <2>1. /\ file' = [file EXCEPT ![ply[fd].name] = 0]
        /\ twice' = twice
        /\ Drop({fd}) \/ Drop(Fd)
    BY <1>12 DEF Suicide, Reset
  <2>2. file' \in [Name -> 0..MaxVersion]
    <3>1. 0 \in 0..MaxVersion /\ file \in [Name -> 0..MaxVersion]
      BY DEF TypeOK
    <3> QED BY <2>1, <3>1
  <2> QED BY <2>1, <2>2, DropType DEF TypeOK
<1>13. ASSUME NEW fd \in Fd, NEW dm \in Fd, Dust(dm, fd) PROVE TypeOK' /\ Identified'
  <2>1. /\ file' = [file EXCEPT ![ply[fd].name] = 0]
        /\ twice' = twice
        /\ Drop({fd})
    BY <1>13 DEF Dust
  <2>2. file' \in [Name -> 0..MaxVersion]
    <3>1. 0 \in 0..MaxVersion /\ file \in [Name -> 0..MaxVersion]
      BY DEF TypeOK
    <3> QED BY <2>1, <3>1
  <2> QED BY <2>1, <2>2, DropType DEF TypeOK
<1>14. ASSUME NEW fd \in Fd, NEW n \in Name, Transfer(fd, n)
       PROVE  TypeOK' /\ Identified'
  <2> DEFINE v == ply[fd].version + 1
             c == [ply[fd] EXCEPT !.version = v]
  <2>1. /\ ply[fd] \in Copy /\ ply[fd].version < MaxVersion
        /\ UNCHANGED <<stage, typed, twice>>
        /\ ply[fd].name # n
    BY <1>14 DEF Transfer, Live, Identified
  <2>2. c \in Copy /\ v \in 1..MaxVersion
    BY <2>1 DEF Copy
  <2>3. \/ \E g \in Fd :
            /\ Plays(g, n)
            /\ ply[g].version < MaxVersion
            /\ ply' = [ply EXCEPT ![fd].version = v, ![g].version = @ + 1]
            /\ file' = [file EXCEPT ![ply[fd].name] = v, ![n] = ply[g].version + 1]
        \/ /\ file[n] \in 1..(MaxVersion - 1)
           /\ ply' = [ply EXCEPT ![fd].version = v]
           /\ file' = [file EXCEPT ![ply[fd].name] = v, ![n] = file[n] + 1]
    BY <1>14 DEF Transfer
  <2>4. CASE /\ file[n] \in 1..(MaxVersion - 1)
             /\ ply' = [ply EXCEPT ![fd].version = v]
             /\ file' = [file EXCEPT ![ply[fd].name] = v, ![n] = file[n] + 1]
    <3>1. ply' = [ply EXCEPT ![fd] = c]
      BY <2>4 DEF TypeOK
    <3>2. file' \in [Name -> 0..MaxVersion]
      BY <2>2, <2>4 DEF TypeOK
    <3> HIDE DEF c, v
    <3> QED BY <2>1, <2>2, <3>1, <3>2 DEF TypeOK, Identified
  <2>5. ASSUME NEW g \in Fd,
               Plays(g, n), ply[g].version < MaxVersion,
               ply' = [ply EXCEPT ![fd].version = v, ![g].version = @ + 1],
               file' = [file EXCEPT ![ply[fd].name] = v, ![n] = ply[g].version + 1]
        PROVE  TypeOK' /\ Identified'
    <3> DEFINE w == ply[g].version + 1
               d == [ply[g] EXCEPT !.version = w]
    <3>1. ply[g] \in Copy /\ g # fd
      BY <2>1, <2>5 DEF Plays, CopiesOf, Live, Identified
    <3>2. d \in Copy /\ w \in 1..MaxVersion
      BY <2>5, <3>1 DEF Copy
    <3>3. ply' = [ply EXCEPT ![fd] = c, ![g] = d]
      BY <2>5, <3>1 DEF TypeOK
    <3>4. file' \in [Name -> 0..MaxVersion]
      BY <2>2, <2>5, <3>2 DEF TypeOK
    <3> HIDE DEF c, v, d, w
    <3> QED BY <2>1, <2>2, <3>1, <3>2, <3>3, <3>4 DEF TypeOK, Identified
  <2> QED BY <2>3, <2>4, <2>5
<1>15. CASE DmShutdown
  BY <1>15 DEF DmShutdown, Saves, TypeOK, Identified
<1>16. CASE Shutdown
  BY <1>16, DropType DEF Shutdown, Saves, Reset, TypeOK
<1>17. CASE Crash
  BY <1>17, DropType DEF Crash, Reset, TypeOK
<1>18. CASE UNCHANGED vars
  BY <1>18 DEF vars, TypeOK, Identified
<1> QED
  BY <1>1, <1>2, <1>3, <1>4, <1>5, <1>6, <1>7, <1>8, <1>9, <1>10, <1>11, <1>12,
     <1>13, <1>14, <1>15, <1>16, <1>17, <1>18 DEF Next

-----------------------------------------------------------------------------

\* A saved file is as old as some copy of the character.
LEMMA SavedFrom ==
    ASSUME NEW S, NEW n \in Name, Saves(S, file')
    PROVE  \/ file'[n] = file[n]
           \/ \E g \in Fd : ply[g].name = n /\ file'[n] = ply[g].version
  BY DEF Saves, CopiesOf

\* Copies that disappear, files that are erased and files that are written
\* from a copy leave the played copy the newest.
LEMMA KeepNewest ==
    ASSUME TypeOK, Identified, NEW n \in Name, Newest(n),
           \A fd \in Fd : ply'[fd] = ply[fd] \/ ply'[fd] = NoPly,
           \/ file'[n] = file[n]
           \/ file'[n] = 0
           \/ \E g \in Fd : ply[g].name = n /\ file'[n] = ply[g].version
    PROVE  Newest(n)'
<1> SUFFICES ASSUME NEW fd \in Fd, ply'[fd].live, ply'[fd].name = n
             PROVE  /\ \A g \in Fd : ply'[g].live /\ ply'[g].name = n => g = fd
                    /\ \A g \in Fd : ply'[g].name = n =>
                                       ply'[g].version <= ply'[fd].version
                    /\ file'[n] <= ply'[fd].version
  BY DEF Newest, Live
<1>1. n # NoName /\ NoPly.live = FALSE /\ NoPly.name = NoName
  BY AccountsAssumption DEF NoPly
<1>2. \A g \in Fd : ply'[g].name = n => ply'[g] = ply[g]
  BY <1>1
<1>3. ply'[fd] = ply[fd] /\ fd \in Live /\ ply[fd].version \in Nat
  BY <1>2 DEF Live, Identified, Copy
<1>4. /\ \A g \in Live : ply[g].name = n => g = fd
      /\ \A g \in Fd : ply[g].name = n => ply[g].version <= ply[fd].version
      /\ file[n] <= ply[fd].version
  BY <1>2, <1>3 DEF Newest
<1> QED BY <1>2, <1>3, <1>4 DEF Live

\* So does a step of the played copy, saved or not.
LEMMA RaiseNewest ==
    ASSUME TypeOK, NEW n \in Name, Newest(n),
           NEW fd \in Live, ply[fd].name = n,
           \A g \in Fd : ply'[g].name = ply[g].name /\ ply'[g].live = ply[g].live,
           \A g \in Fd \ {fd} : ply[g].name = n => ply'[g].version = ply[g].version,
           ply'[fd].version = ply[fd].version + 1,
           file'[n] = file[n] \/ file'[n] = ply[fd].version + 1
    PROVE  Newest(n)'
<1>1. \A g \in Fd : ply[g].name = n => ply[g].version \in Nat
  BY AccountsAssumption DEF TypeOK, Copy, NoPly
<1>2. file[n] \in Nat /\ ply[fd].version \in Nat
  BY <1>1 DEF TypeOK, Live
<1>3. /\ \A g \in Live : ply[g].name = n => g = fd
      /\ \A g \in Fd : ply[g].name = n => ply[g].version <= ply[fd].version
      /\ file[n] <= ply[fd].version
  BY DEF Newest
<1>4. \A g \in Fd : ply'[g].live /\ ply'[g].name = n => g = fd
  BY <1>3 DEF Live
<1>5. \A g \in Fd : ply'[g].name = n => ply'[g].version <= ply'[fd].version
  BY <1>1, <1>2, <1>3
<1>6. file'[n] <= ply'[fd].version
  BY <1>2, <1>3
<1> QED BY <1>4, <1>5, <1>6 DEF Newest, Live

\* Every step keeps each played copy at least as new as its file.
LEMMA NextNewest ==
    IInv /\ [Next]_vars => \A n \in Name \ twice' : Newest(n)'
<1> SUFFICES ASSUME IInv, [Next]_vars, NEW n \in Name, n \notin twice'
             PROVE  Newest(n)'
  OBVIOUS
<1>0. /\ TypeOK /\ Identified /\ Newest(n)
      /\ TypeOK' /\ Identified'
  <2>1. twice \subseteq twice'
    BY DEF Next, Connect, SitePassword, EnterName, Confirm, Create, Password,
           PasswordGone, Progress, SaveGame, Disconnect, AskSuicide,
           AbortSuicide, Suicide, Dust, Transfer, DmShutdown, Shutdown, Crash,
           vars
  <2> QED BY <2>1, NextType DEF IInv
<1>1. CASE UNCHANGED <<ply, file>>
  BY <1>0, <1>1, KeepNewest
<1>2. ASSUME NEW S, Saves(S, file'),
             \A fd \in Fd : ply'[fd] = ply[fd] \/ ply'[fd] = NoPly
      PROVE  Newest(n)'
  BY <1>0, <1>2, SavedFrom, KeepNewest
<1>3. ASSUME NEW fd \in Fd, NEW m \in Name, EnterName(fd, m) PROVE Newest(n)'
  <2>1. file' = file
    BY <1>3 DEF EnterName
  <2>2. CASE ply' = ply
    BY <1>1, <2>1, <2>2
  <2>3. CASE ply' = [ply EXCEPT ![fd] = [name |-> m, version |-> file[m],
                                         live |-> FALSE, born |-> FALSE]]
    <3>1. /\ ply'[fd].name = m /\ ply'[fd].version = file[m]
          /\ ply'[fd].live = FALSE
          /\ \A g \in Fd \ {fd} : ply'[g] = ply[g]
      BY <1>0, <2>3 DEF TypeOK
    <3> QED BY <1>0, <2>1, <3>1 DEF Newest, Live
  <2> QED BY <1>3, <2>2, <2>3 DEF EnterName
<1>4. ASSUME NEW fd \in Fd, Create(fd) PROVE Newest(n)'
  <2> DEFINE m == typed[fd]
  <2>1. /\ ply'[fd].name = m /\ ply'[fd].version = 1
        /\ \A g \in Fd \ {fd} : ply'[g] = ply[g]
        /\ file'[m] = 1
        /\ n # m => file'[n] = file[n]
    BY <1>0, <1>4 DEF Create, TypeOK, Identified
  <2>2. CASE n # m
    BY <1>0, <2>1, <2>2 DEF Newest, Live
  <2>3. CASE n = m
    <3>1. \A g \in Fd \ {fd} : ply'[g].name # n
      BY <1>4, <2>1, <2>3 DEF Create, CopiesOf
    <3> QED BY <2>1, <2>3, <3>1 DEF Newest, Live
  <2> QED BY <2>2, <2>3
<1>5. ASSUME NEW fd \in Fd, Password(fd) PROVE Newest(n)'
  <2> DEFINE m == ply[fd].name
  <2>1. ply[fd] \in Copy /\ Saves(Others(fd) \cap Live, file')
    BY <1>0, <1>5 DEF Password, Identified
  <2>2. \A g \in Fd : ply'[g] = IF g \in Others(fd) THEN NoPly
                               ELSE IF g = fd THEN EnterWith(fd, file')
                               ELSE ply[g]
    BY <1>5 DEF Password
  <2>3. ply'[fd].name = m /\ ply'[fd].version = file'[m]
    BY <2>1, <2>2 DEF EnterWith, Others, Copy
  <2>4. CASE n = m
    <3>1. \A g \in Fd \ {fd} : ply'[g].name # n
      BY <2>2, <2>4, AccountsAssumption DEF Others, CopiesOf, NoPly
    <3>2. file'[m] <= file'[m]
      BY <1>0, <2>1, <2>4 DEF TypeOK
    <3> QED BY <2>3, <2>4, <3>1, <3>2 DEF Newest, Live
  <2>5. CASE n # m
    <3>1. \A g \in Fd : ply'[g].name = n => ply'[g] = ply[g]
      BY <2>2, <2>3, <2>5, AccountsAssumption DEF NoPly
    <3>2. file'[n] = file[n]
      BY <2>1, <2>5 DEF Saves, Others, CopiesOf
    <3> QED BY <1>0, <3>1, <3>2 DEF Newest, Live
  <2> QED BY <2>4, <2>5
<1>6. ASSUME NEW fd \in Fd, Progress(fd) PROVE Newest(n)'
  <2>1. ply[fd] \in Copy /\ fd \in Live
    BY <1>0, <1>6 DEF Progress, Live, Identified
  <2>2. /\ file' = file
        /\ \A g \in Fd \ {fd} : ply'[g] = ply[g]
        /\ ply'[fd].name = ply[fd].name
        /\ ply'[fd].live = ply[fd].live
        /\ ply'[fd].version = ply[fd].version + 1
    BY <1>0, <1>6, <2>1 DEF Progress, TypeOK, Copy
  <2>3. CASE ply[fd].name = n
    BY <1>0, <2>1, <2>2, <2>3, RaiseNewest DEF Live
  <2>4. CASE ply[fd].name # n
    BY <1>0, <2>2, <2>4 DEF Newest, Live
  <2> QED BY <2>3, <2>4
<1>7. ASSUME NEW fd \in Fd, NEW m \in Name, Transfer(fd, m) PROVE Newest(n)'
  <2> DEFINE v == ply[fd].version + 1
             k == ply[fd].name
  <2>1. ply[fd] \in Copy /\ fd \in Live /\ k # m /\ k \in Name
    BY <1>0, <1>7 DEF Transfer, Live, Identified, Copy
  <2>2. \/ \E g \in Fd :
            /\ Plays(g, m)
            /\ ply' = [ply EXCEPT ![fd].version = v, ![g].version = @ + 1]
            /\ file' = [file EXCEPT ![k] = v, ![m] = ply[g].version + 1]
        \/ /\ Live \cap CopiesOf(m) = {}
           /\ ply' = [ply EXCEPT ![fd].version = v]
           /\ file' = [file EXCEPT ![k] = v, ![m] = file[m] + 1]
    BY <1>7 DEF Transfer
  <2>3. CASE /\ Live \cap CopiesOf(m) = {}
             /\ ply' = [ply EXCEPT ![fd].version = v]
             /\ file' = [file EXCEPT ![k] = v, ![m] = file[m] + 1]
    <3>1. /\ \A g \in Fd : ply'[g].name = ply[g].name /\ ply'[g].live = ply[g].live
          /\ \A g \in Fd \ {fd} : ply'[g].version = ply[g].version
          /\ ply'[fd].version = ply[fd].version + 1
      BY <1>0, <2>1, <2>3 DEF TypeOK, Copy, NoPly
    <3>2. file'[k] = v /\ (n # k /\ n # m => file'[n] = file[n])
      BY <1>0, <2>1, <2>3 DEF TypeOK
    <3>3. CASE n = k
      BY <1>0, <2>1, <3>1, <3>2, <3>3, RaiseNewest
    <3>4. CASE n = m
      BY <2>3, <3>1, <3>4 DEF Newest, Live, CopiesOf
    <3>5. CASE n # k /\ n # m
      BY <1>0, <3>1, <3>2, <3>5 DEF Newest, Live
    <3> QED BY <3>3, <3>4, <3>5
  <2>4. ASSUME NEW h \in Fd, Plays(h, m),
               ply' = [ply EXCEPT ![fd].version = v, ![h].version = @ + 1],
               file' = [file EXCEPT ![k] = v, ![m] = ply[h].version + 1]
        PROVE  Newest(n)'
    <3>1. h \in Live /\ ply[h].name = m /\ h # fd /\ ply[h] \in Copy
      BY <1>0, <2>1, <2>4 DEF Plays, CopiesOf, Live, Identified
    <3>2. /\ \A g \in Fd : ply'[g].name = ply[g].name /\ ply'[g].live = ply[g].live
          /\ \A g \in Fd \ {fd, h} : ply'[g].version = ply[g].version
          /\ ply'[fd].version = ply[fd].version + 1
          /\ ply'[h].version = ply[h].version + 1
      BY <1>0, <2>1, <2>4, <3>1 DEF TypeOK, Copy, NoPly
    <3>3. /\ file'[k] = v /\ file'[m] = ply[h].version + 1
          /\ n # k /\ n # m => file'[n] = file[n]
      BY <1>0, <2>1, <2>4 DEF TypeOK
    <3>4. CASE n = k
      <4>1. \A g \in Fd \ {fd} : ply[g].name = n => ply'[g].version = ply[g].version
        BY <2>1, <3>1, <3>2, <3>4
      <4> QED BY <1>0, <2>1, <3>2, <3>3, <3>4, <4>1, RaiseNewest
    <3>5. CASE n = m
      <4>1. \A g \in Fd \ {h} : ply[g].name = n => ply'[g].version = ply[g].version
        BY <2>1, <3>2, <3>5
      <4> QED BY <1>0, <3>1, <3>2, <3>3, <3>5, <4>1, RaiseNewest
    <3>6. CASE n # k /\ n # m
      <4>1. \A g \in Fd : ply[g].name = n => ply'[g].version = ply[g].version
        BY <2>1, <3>1, <3>2, <3>6
      <4> QED BY <1>0, <3>2, <3>3, <3>6, <4>1 DEF Newest, Live
    <3> QED BY <3>4, <3>5, <3>6
  <2> QED BY <2>2, <2>3, <2>4
<1>8. ASSUME NEW fd \in Fd,
             PasswordGone(fd) \/ SaveGame(fd) \/ Disconnect(fd)
      PROVE  Newest(n)'
  <2>1. \E S : Saves(S, file')
    BY <1>8 DEF PasswordGone, SaveGame, Disconnect
  <2>2. \A g \in Fd : ply'[g] = ply[g] \/ ply'[g] = NoPly
    BY <1>8 DEF PasswordGone, SaveGame, Disconnect, Drop, Reset
  <2> QED BY <1>2, <2>1, <2>2
<1>9. ASSUME NEW fd \in Fd, NEW dm \in Fd, Suicide(fd) \/ Dust(dm, fd)
      PROVE  Newest(n)'
  <2>1. \A g \in Fd : ply'[g] = ply[g] \/ ply'[g] = NoPly
    BY <1>9 DEF Suicide, Dust, Drop, Reset
  <2>2. file'[n] = file[n] \/ file'[n] = 0
    BY <1>0, <1>9 DEF Suicide, Dust, TypeOK
  <2> QED BY <1>0, <2>1, <2>2, KeepNewest
<1>10. CASE DmShutdown \/ Shutdown
  <2>1. Saves(Named, file')
    BY <1>10 DEF DmShutdown, Shutdown
  <2>2. \A g \in Fd : ply'[g] = ply[g] \/ ply'[g] = NoPly
    BY <1>10 DEF DmShutdown, Shutdown, Drop, Reset
  <2> QED BY <1>2, <2>1, <2>2
<1>11. CASE Crash
  <2>1. file' = file /\ \A g \in Fd : ply'[g] = NoPly
    BY <1>11 DEF Crash, Drop, Reset
  <2> QED BY <1>0, <2>1, KeepNewest
<1>12. CASE \E fd \in Fd : \/ Connect(fd) \/ SitePassword(fd) \/ Confirm(fd)
                           \/ AskSuicide(fd) \/ AbortSuicide(fd)
  BY <1>1, <1>12 DEF Connect, SitePassword, Confirm, AskSuicide, AbortSuicide
<1>13. CASE UNCHANGED vars
  BY <1>1, <1>13 DEF vars
<1> QED
  BY <1>3, <1>4, <1>5, <1>6, <1>7, <1>8, <1>9, <1>10, <1>11, <1>12, <1>13 DEF Next

-----------------------------------------------------------------------------

\* The inductive invariant: types, named copies, and no played copy older than
\* its file.
THEOREM AlwaysIInv == Spec => []IInv
<1>1. IInv /\ [Next]_vars => IInv'
  BY NextType, NextNewest DEF IInv
<1> QED BY <1>1, InitIInv, PTL DEF Spec

\* Every variable keeps its type.
THEOREM TypeCorrect == Spec => []TypeOK
<1>1. IInv => TypeOK
  BY DEF IInv
<1> QED BY <1>1, AlwaysIInv, PTL

\* A played character is never older than its file, whatever other copies
\* of it were loaded, saved or dropped meanwhile.
THEOREM PlayedAlwaysNewest == Spec => []PlayedIsNewest
<1>1. IInv => PlayedIsNewest
  <2> SUFFICES ASSUME IInv, NEW fd \in Live, ply[fd].name \notin twice
               PROVE  ply[fd].version >= file[ply[fd].name]
    BY DEF PlayedIsNewest
  <2>1. ply[fd] \in Copy /\ ply[fd].name \in Name
    BY DEF IInv, Identified, Live, Copy
  <2>2. file[ply[fd].name] <= ply[fd].version
    BY <2>1 DEF IInv, Newest
  <2> QED BY <2>2
<1> QED BY <1>1, AlwaysIInv, PTL

\* A copy that is played after a step was the same played copy before it, or
\* it was just created, or it just came in and is the only one of its name.
LEMMA PlayedAfter ==
    ASSUME TypeOK, Identified, [Next]_vars, NEW f \in Fd, ply'[f].live
    PROVE  \/ /\ ply[f].live
              /\ ply'[f].name = ply[f].name /\ ply'[f].born = ply[f].born
           \/ ply'[f].born
           \/ \A g \in Fd \ {f} : ply'[g].name # ply'[f].name
<1> DEFINE Same == /\ ply[f].live
                   /\ ply'[f].name = ply[f].name /\ ply'[f].born = ply[f].born
<1>0. NoPly.live = FALSE /\ NoPly.name = NoName /\ NoName \notin Name
  BY AccountsAssumption DEF NoPly
<1>1. CASE ply'[f] = ply[f]
  BY <1>1
<1>2. ASSUME NEW fd \in Fd, NEW n \in Name, EnterName(fd, n), ply'[f] # ply[f]
      PROVE  FALSE
  BY <1>2 DEF EnterName, TypeOK
<1>3. ASSUME NEW fd \in Fd, Create(fd), ply'[f] # ply[f] PROVE ply'[f].born
  BY <1>3 DEF Create, TypeOK
<1>4. ASSUME NEW fd \in Fd, Password(fd), ply'[f] # ply[f]
      PROVE  \A g \in Fd \ {f} : ply'[g].name # ply'[f].name
  <2>1. \A g \in Fd : ply'[g] = IF g \in Others(fd) THEN NoPly
                               ELSE IF g = fd THEN EnterWith(fd, file')
                               ELSE ply[g]
    BY <1>4 DEF Password
  <2>2. f = fd /\ fd \notin Others(fd) /\ ply[fd] \in Copy
    BY <1>0, <1>4, <2>1 DEF Others, Password, Identified
  <2>3. ply'[f].name = ply[f].name /\ ply[f].name \in Name
    BY <2>1, <2>2 DEF EnterWith, Copy
  <2> QED BY <1>0, <2>1, <2>2, <2>3 DEF Others, CopiesOf
<1>5. ASSUME NEW fd \in Fd, Progress(fd) PROVE Same
  BY <1>5 DEF Progress, TypeOK, Copy, NoPly
<1>6. ASSUME NEW fd \in Fd, NEW n \in Name, Transfer(fd, n) PROVE Same
  BY <1>6 DEF Transfer, TypeOK, Copy, NoPly
<1>7. ASSUME NEW fd \in Fd,
             \/ Connect(fd) \/ SitePassword(fd) \/ Confirm(fd)
             \/ PasswordGone(fd) \/ SaveGame(fd) \/ Disconnect(fd)
             \/ AskSuicide(fd) \/ AbortSuicide(fd) \/ Suicide(fd)
             \/ \E dm \in Fd : Dust(dm, fd)
      PROVE  ply'[f] = ply[f]
  BY <1>0, <1>7
     DEF Connect, SitePassword, Confirm, PasswordGone, SaveGame, Disconnect,
         AskSuicide, AbortSuicide, Suicide, Dust, Drop, Reset
<1>8. CASE DmShutdown \/ Shutdown \/ Crash \/ UNCHANGED vars
  BY <1>0, <1>8 DEF DmShutdown, Shutdown, Crash, Drop, Reset, vars
<1> QED BY <1>1, <1>2, <1>3, <1>4, <1>5, <1>6, <1>7, <1>8 DEF Next

\* A second login of a character always ends the first.
THEOREM OneLoginAlways == Spec => []OneLoginPerName
<1>1. Init => OneLoginPerName
  BY DEF Init, NoSessions, NoPly, OneLoginPerName, Live
<1>2. IInv /\ OneLoginPerName /\ [Next]_vars => OneLoginPerName'
  <2> SUFFICES ASSUME IInv, OneLoginPerName, [Next]_vars,
                      NEW f \in Fd, NEW g \in Fd, f # g,
                      ply'[f].live, ply'[g].live, ply'[f].name = ply'[g].name
               PROVE  ply'[f].born \/ ply'[g].born
    BY DEF OneLoginPerName, Live
  <2> QED BY PlayedAfter DEF IInv, OneLoginPerName, Live
<1> QED BY <1>1, <1>2, AlwaysIInv, PTL DEF Spec

-----------------------------------------------------------------------------
(* Progress is never lost by logging in, and a file is set back only by a  *)
(* copy at the password prompt.                                            *)

\* A copy is played at the command prompt, and where suicide asks back.
Prompted == \A fd \in Fd : ply[fd].live <=> stage[fd] \in {"command", "suicide"}

\* A played copy of character n has a file.
HasFile(n) == \A fd \in Live : ply[fd].name = n => file[n] > 0

\* Every step keeps the played copies at their prompts.
LEMMA NextPrompted == IInv /\ Prompted /\ [Next]_vars => Prompted'
<1> SUFFICES ASSUME IInv, Prompted, [Next]_vars PROVE Prompted'
  OBVIOUS
<1>0. TypeOK /\ Identified /\ NoPly.live = FALSE
  BY DEF IInv, NoPly
<1> USE <1>0
<1>1. ASSUME NEW S \in SUBSET Fd, Drop(S) PROVE Prompted'
  BY <1>1 DEF Prompted, Drop
<1>2. ASSUME NEW fd \in Fd, NEW n \in Name, EnterName(fd, n) PROVE Prompted'
  <2>1. /\ stage' = [stage EXCEPT ![fd] = "confirm"] /\ ply' = ply
        \/ /\ stage' = [stage EXCEPT ![fd] = "password"]
           /\ ply' = [ply EXCEPT ![fd] = [name |-> n, version |-> file[n],
                                          live |-> FALSE, born |-> FALSE]]
    BY <1>2 DEF EnterName, Goto
  <2> QED BY <1>2, <2>1 DEF EnterName, Prompted, TypeOK
<1>3. ASSUME NEW fd \in Fd, Create(fd) PROVE Prompted'
  BY <1>3 DEF Create, Goto, Prompted, TypeOK
<1>4. ASSUME NEW fd \in Fd, Password(fd) PROVE Prompted'
  <2>1. \A g \in Fd :
          /\ stage'[g] = IF g \in Others(fd) THEN "none"
                         ELSE IF g = fd THEN "command" ELSE stage[g]
          /\ ply'[g] = IF g \in Others(fd) THEN NoPly
                       ELSE IF g = fd THEN EnterWith(fd, file') ELSE ply[g]
    BY <1>4 DEF Password
  <2>2. ply[fd] \in Copy
    BY <1>4 DEF Password, Identified
  <2>3. EnterWith(fd, file').live = TRUE
    BY <2>2 DEF EnterWith, Copy
  <2> QED BY <2>1, <2>3 DEF Prompted
<1>5. ASSUME NEW fd \in Fd, Progress(fd) PROVE Prompted'
  <2>1. stage' = stage /\ \A g \in Fd : ply'[g].live = ply[g].live
    BY <1>5 DEF Progress, TypeOK, Copy, NoPly
  <2> QED BY <2>1 DEF Prompted
<1>6. ASSUME NEW fd \in Fd, NEW n \in Name, Transfer(fd, n) PROVE Prompted'
  <2>1. stage' = stage /\ \A g \in Fd : ply'[g].live = ply[g].live
    BY <1>6 DEF Transfer, TypeOK, Copy, NoPly
  <2> QED BY <2>1 DEF Prompted
<1>7. ASSUME NEW fd \in Fd,
             \/ Connect(fd) \/ SitePassword(fd) \/ Confirm(fd)
             \/ AskSuicide(fd) \/ AbortSuicide(fd)
      PROVE  Prompted'
  BY <1>7 DEF Connect, SitePassword, Confirm, AskSuicide, AbortSuicide, Goto,
              Prompted, TypeOK
<1>8. ASSUME NEW fd \in Fd,
             \/ PasswordGone(fd) \/ Disconnect(fd) \/ Suicide(fd)
             \/ \E dm \in Fd : Dust(dm, fd)
      PROVE  Prompted'
  <2>1. Others(fd) \cup {fd} \in SUBSET Fd /\ {fd} \in SUBSET Fd /\ Fd \in SUBSET Fd
    BY DEF Others, CopiesOf
  <2> QED BY <1>1, <1>8, <2>1 DEF PasswordGone, Disconnect, Suicide, Dust, Reset
<1>9. CASE Shutdown \/ Crash
  <2>1. Fd \in SUBSET Fd
    OBVIOUS
  <2> QED BY <1>1, <1>9, <2>1 DEF Shutdown, Crash, Reset
<1>10. CASE UNCHANGED <<stage, ply>>
  BY <1>10 DEF Prompted
<1> QED
  BY <1>2, <1>3, <1>4, <1>5, <1>6, <1>7, <1>8, <1>9, <1>10
     DEF Next, SaveGame, DmShutdown, vars

\* Copies that disappear, and files that are written from a copy, leave a
\* played copy its file.
LEMMA KeepFile ==
    ASSUME TypeOK, NEW n \in Name, HasFile(n),
           \A fd \in Fd : ply'[fd] = ply[fd] \/ ply'[fd] = NoPly,
           \/ file'[n] = file[n]
           \/ \E g \in Fd : ply[g].name = n /\ file'[n] = ply[g].version
    PROVE  HasFile(n)'
<1>1. n # NoName /\ NoPly.live = FALSE /\ NoPly.name = NoName
  BY AccountsAssumption DEF NoPly
<1>2. \A g \in Fd : ply[g].name = n => ply[g].version > 0
  BY <1>1, AccountsAssumption DEF TypeOK, Copy
<1>3. \A g \in Fd : ply'[g].live => ply'[g] = ply[g]
  BY <1>1
<1> QED BY <1>2, <1>3 DEF HasFile, Live

\* Every step keeps a file for each played copy whose name is in use once:
\* what erases a file drops the only copy that is played.
LEMMA NextFile ==
    IInv /\ Prompted /\ [Next]_vars =>
        \A n \in Name \ twice' : HasFile(n) => HasFile(n)'
<1> SUFFICES ASSUME IInv, Prompted, [Next]_vars,
                    NEW n \in Name, n \notin twice', HasFile(n)
             PROVE  HasFile(n)'
  OBVIOUS
<1>0. /\ TypeOK /\ Identified /\ Newest(n) /\ TypeOK' /\ Identified'
      /\ n # NoName /\ NoPly.live = FALSE /\ NoPly.name = NoName
  <2>1. twice \subseteq twice'
    BY DEF Next, Connect, SitePassword, EnterName, Confirm, Create, Password,
           PasswordGone, Progress, SaveGame, Disconnect, AskSuicide,
           AbortSuicide, Suicide, Dust, Transfer, DmShutdown, Shutdown, Crash,
           vars
  <2> QED BY <2>1, NextType, AccountsAssumption DEF IInv, NoPly
<1>1. CASE UNCHANGED <<ply, file>>
  BY <1>1 DEF HasFile, Live
<1>2. ASSUME NEW S, Saves(S, file'),
             \A fd \in Fd : ply'[fd] = ply[fd] \/ ply'[fd] = NoPly
      PROVE  HasFile(n)'
  BY <1>0, <1>2, SavedFrom, KeepFile
<1>3. ASSUME NEW fd \in Fd, NEW m \in Name, EnterName(fd, m) PROVE HasFile(n)'
  <2>1. /\ file' = file
        /\ \A g \in Fd : ply'[g] = ply[g] \/ ply'[g].live = FALSE
    BY <1>0, <1>3 DEF EnterName, TypeOK
  <2> QED BY <2>1 DEF HasFile, Live
<1>4. ASSUME NEW fd \in Fd, Create(fd) PROVE HasFile(n)'
  <2> DEFINE m == typed[fd]
  <2>1. /\ ply'[fd].name = m
        /\ \A g \in Fd \ {fd} : ply'[g] = ply[g]
        /\ file'[m] = 1
        /\ n # m => file'[n] = file[n]
    BY <1>0, <1>4 DEF Create, TypeOK, Identified
  <2> QED BY <2>1 DEF HasFile, Live
<1>5. ASSUME NEW fd \in Fd, Password(fd) PROVE HasFile(n)'
  <2> DEFINE m == ply[fd].name
  <2>1. ply[fd] \in Copy /\ Saves(Others(fd) \cap Live, file') /\ file'[m] > 0
    BY <1>0, <1>5 DEF Password, Identified
  <2>2. \A g \in Fd : ply'[g] = IF g \in Others(fd) THEN NoPly
                               ELSE IF g = fd THEN EnterWith(fd, file')
                               ELSE ply[g]
    BY <1>5 DEF Password
  <2>3. ply'[fd].name = m
    BY <2>1, <2>2 DEF EnterWith, Others, Copy
  <2>4. CASE n = m
    BY <2>1, <2>4 DEF HasFile
  <2>5. CASE n # m
    <3>1. \A g \in Fd : ply'[g].name = n => ply'[g] = ply[g]
      BY <1>0, <2>2, <2>3, <2>5
    <3>2. file'[n] = file[n]
      BY <2>1, <2>5 DEF Saves, Others, CopiesOf
    <3> QED BY <3>1, <3>2 DEF HasFile, Live
  <2> QED BY <2>4, <2>5
<1>6. ASSUME NEW fd \in Fd, Progress(fd) PROVE HasFile(n)'
  <2>1. /\ file' = file
        /\ \A g \in Fd : ply'[g].name = ply[g].name /\ ply'[g].live = ply[g].live
    BY <1>0, <1>6 DEF Progress, TypeOK, Copy, NoPly
  <2> QED BY <2>1 DEF HasFile, Live
<1>7. ASSUME NEW fd \in Fd, NEW m \in Name, Transfer(fd, m) PROVE HasFile(n)'
  <2>1. \A g \in Fd : ply'[g].name = ply[g].name /\ ply'[g].live = ply[g].live
    BY <1>0, <1>7 DEF Transfer, TypeOK, Copy, NoPly
  <2>2. ply[fd].version \in Nat /\ ply[fd].name \in Name
    BY <1>0, <1>7, AccountsAssumption DEF Transfer, Live, Identified, Copy
  <2>3. PICK w \in Nat : file' = [file EXCEPT ![ply[fd].name] = ply[fd].version + 1,
                                              ![m] = w + 1]
    <3>1. \A g \in Fd : ply[g].version \in Nat
      BY <1>0, AccountsAssumption DEF TypeOK, Copy, NoPly
    <3>2. file[m] \in Nat
      BY <1>0, AccountsAssumption DEF TypeOK
    <3> QED BY <1>7, <3>1, <3>2 DEF Transfer
  <2>4. file'[n] = file[n] \/ file'[n] > 0
    <3> HIDE <1>7
    <3> QED BY <1>0, <2>2, <2>3 DEF TypeOK
  <2> QED BY <2>1, <2>4 DEF HasFile, Live
<1>8. ASSUME NEW fd \in Fd,
             SaveGame(fd) \/ Disconnect(fd) \/ (PasswordGone(fd) /\ Reset)
      PROVE  HasFile(n)'
  <2>1. \E S : Saves(S, file')
    BY <1>8 DEF PasswordGone, SaveGame, Disconnect
  <2>2. \A g \in Fd : ply'[g] = ply[g] \/ ply'[g] = NoPly
    BY <1>8 DEF SaveGame, Disconnect, Drop, Reset
  <2> QED BY <1>2, <2>1, <2>2
<1>9. ASSUME NEW fd \in Fd, PasswordGone(fd), Drop(Others(fd) \cup {fd})
      PROVE  HasFile(n)'
  <2>1. Saves(Others(fd) \cap Live, file')
    BY <1>9 DEF PasswordGone
  <2>2. \A g \in Fd : ply'[g] = IF g \in Others(fd) \cup {fd} THEN NoPly ELSE ply[g]
    BY <1>9 DEF Drop
  <2> QED BY <1>2, <2>1, <2>2
<1>10. ASSUME NEW fd \in Fd, ply[fd].live, Drop({fd}) \/ Reset,
              file' = [file EXCEPT ![ply[fd].name] = 0]
       PROVE  HasFile(n)'
  <2>1. \A g \in Fd : ply'[g] = ply[g] \/ ply'[g] = NoPly
    BY <1>10 DEF Drop, Reset
  <2>2. ply'[fd] = NoPly
    BY <1>10 DEF Drop, Reset
  <2>3. CASE n = ply[fd].name
    <3>1. \A g \in Live : ply[g].name = n => g = fd
      BY <1>0, <1>10, <2>3 DEF Newest, Live
    <3> QED BY <1>0, <2>1, <2>2, <3>1 DEF HasFile, Live
  <2>4. CASE n # ply[fd].name
    <3>1. file'[n] = file[n]
      BY <1>0, <1>10, <2>4 DEF TypeOK
    <3> QED BY <1>0, <2>1, <3>1, KeepFile
  <2> QED BY <2>3, <2>4
<1>11. ASSUME NEW fd \in Fd, Suicide(fd) \/ \E dm \in Fd : Dust(dm, fd)
       PROVE  HasFile(n)'
  <2>1. ply[fd].live
    BY <1>11 DEF Suicide, Dust, Prompted
  <2> QED BY <1>10, <1>11, <2>1 DEF Suicide, Dust
<1>12. CASE DmShutdown \/ Shutdown
  <2>1. Saves(Named, file')
    BY <1>12 DEF DmShutdown, Shutdown
  <2>2. \A g \in Fd : ply'[g] = ply[g] \/ ply'[g] = NoPly
    BY <1>12 DEF DmShutdown, Shutdown, Drop, Reset
  <2> QED BY <1>2, <2>1, <2>2
<1>13. CASE Crash
  <2>1. file' = file /\ \A g \in Fd : ply'[g] = NoPly
    BY <1>13 DEF Crash, Drop, Reset
  <2> QED BY <1>0, <2>1, KeepFile
<1>14. CASE \E fd \in Fd : \/ Connect(fd) \/ SitePassword(fd) \/ Confirm(fd)
                           \/ AskSuicide(fd) \/ AbortSuicide(fd)
  BY <1>1, <1>14 DEF Connect, SitePassword, Confirm, AskSuicide, AbortSuicide
<1>15. CASE UNCHANGED vars
  BY <1>1, <1>15 DEF vars
<1>16. ASSUME NEW fd \in Fd, PasswordGone(fd) PROVE HasFile(n)'
  BY <1>8, <1>9, <1>16 DEF PasswordGone
<1> QED
  BY <1>3, <1>4, <1>5, <1>6, <1>7, <1>8, <1>11, <1>12, <1>13, <1>14, <1>15, <1>16
     DEF Next

\* The larger invariant: beside IInv, the played copies at their prompts, and
\* with a file each.
FInv == IInv /\ Prompted /\ \A n \in Name \ twice : HasFile(n)

\* What is known of prompts and files, for every reachable state.
THEOREM AlwaysFInv == Spec => []FInv
<1>1. Init => FInv
  BY InitIInv DEF Init, NoSessions, NoPly, FInv, Prompted, HasFile, Live
<1>2. FInv /\ [Next]_vars => FInv'
  <2> SUFFICES ASSUME FInv, [Next]_vars PROVE FInv'
    OBVIOUS
  <2>1. IInv /\ Prompted
    BY DEF FInv
  <2>2. IInv' /\ Prompted'
    BY <2>1, NextType, NextNewest, NextPrompted DEF IInv
  <2>3. twice \subseteq twice'
    BY DEF Next, Connect, SitePassword, EnterName, Confirm, Create, Password,
           PasswordGone, Progress, SaveGame, Disconnect, AskSuicide,
           AbortSuicide, Suicide, Dust, Transfer, DmShutdown, Shutdown, Crash,
           vars
  <2>4. \A n \in Name \ twice' : HasFile(n)'
    BY <2>1, <2>3, NextFile DEF FInv
  <2> QED BY <2>2, <2>4 DEF FInv
<1> QED BY <1>1, <1>2, PTL DEF Spec

\* Only the right password lets the copy behind a password prompt play.
LEMMA EntersByPassword ==
    ASSUME TypeOK, Identified, Prompted, [Next]_vars,
           NEW fd \in Fd, stage[fd] = "password", ply'[fd].live
    PROVE  Password(fd)
<1>0. ~ply[fd].live /\ NoPly.live = FALSE
  BY DEF Prompted, NoPly
<1>1. ply'[fd] # ply[fd] /\ ply'[fd] # NoPly
  BY <1>0
<1>2. ASSUME NEW g \in Fd, NEW n \in Name, EnterName(g, n) PROVE FALSE
  BY <1>1, <1>2 DEF EnterName, TypeOK
<1>3. ASSUME NEW g \in Fd, Create(g) PROVE FALSE
  BY <1>1, <1>3 DEF Create, TypeOK
<1>4. ASSUME NEW g \in Fd, Password(g), g # fd PROVE FALSE
  BY <1>1, <1>4 DEF Password
<1>5. ASSUME NEW g \in Fd, Progress(g) PROVE FALSE
  BY <1>0, <1>1, <1>5 DEF Progress, TypeOK, Live
<1>6. ASSUME NEW g \in Fd, NEW n \in Name, Transfer(g, n) PROVE FALSE
  BY <1>0, <1>1, <1>6 DEF Transfer, TypeOK, Live, Plays
<1>7. ASSUME NEW g \in Fd,
             \/ Connect(g) \/ SitePassword(g) \/ Confirm(g)
             \/ PasswordGone(g) \/ SaveGame(g) \/ Disconnect(g)
             \/ AskSuicide(g) \/ AbortSuicide(g) \/ Suicide(g)
             \/ \E dm \in Fd : Dust(dm, g)
      PROVE  FALSE
  BY <1>1, <1>7
     DEF Connect, SitePassword, Confirm, PasswordGone, SaveGame, Disconnect,
         AskSuicide, AbortSuicide, Suicide, Dust, Drop, Reset
<1>8. CASE DmShutdown \/ Shutdown \/ Crash \/ UNCHANGED vars
  BY <1>1, <1>8 DEF DmShutdown, Shutdown, Crash, Drop, Reset, vars
<1> QED BY <1>2, <1>3, <1>4, <1>5, <1>6, <1>7, <1>8 DEF Next

\* Logging in loses nothing: who enters the game does so with the copy the
\* player of that character had, or with what the file holds.
THEOREM LoginKeepsProgressHolds == Spec => LoginKeepsProgress
<1> DEFINE Kept(fd) ==
      LET played == CopiesOf(ply[fd].name) \cap Live
      IN /\ played = {} => ply'[fd].version >= file[ply[fd].name]
         /\ \A g \in played : played = {g} => ply'[fd].version >= ply[g].version
<1>1. ASSUME FInv, [Next]_vars, NEW fd \in Fd, stage[fd] = "password", ply'[fd].live
      PROVE  Kept(fd)
  <2> DEFINE m == ply[fd].name
             played == CopiesOf(m) \cap Live
  <2>0. TypeOK /\ Identified /\ Prompted
    BY <1>1 DEF FInv, IInv
  <2>1. Password(fd)
    BY <1>1, <2>0, EntersByPassword
  <2>2. m \in Name /\ Saves(Others(fd) \cap Live, file')
    BY <2>0, <2>1 DEF Password, Identified, Copy
  <2>3. ply'[fd].version = file'[m]
    BY <2>0, <2>1, <2>2 DEF Password, EnterWith, Others, Identified, Copy
  <2>4. Others(fd) \cap Live = played /\ played \subseteq CopiesOf(m)
    BY <1>1, <2>0 DEF Others, Live, Prompted
  <2>5. CASE played = {}
    <3>1. file'[m] = file[m] /\ file[m] \in Nat
      BY <2>0, <2>2, <2>4, <2>5, AccountsAssumption DEF Saves, TypeOK
    <3> QED BY <2>3, <2>5, <3>1
  <2>6. ASSUME NEW g \in played, played = {g} PROVE Kept(fd)
    <3>1. file'[m] = ply[g].version
      BY <2>2, <2>4, <2>6 DEF Saves
    <3>2. ply[g].version \in Nat
      BY <2>0, <2>6, AccountsAssumption DEF TypeOK, Copy, NoPly, CopiesOf, Live
    <3> QED BY <2>3, <2>6, <3>1, <3>2
  <2> QED BY <2>5, <2>6
<1>2. FInv /\ [Next]_vars =>
        [ \A fd \in Fd : stage[fd] = "password" /\ ply'[fd].live => Kept(fd) ]_vars
  BY <1>1
<1> QED BY <1>2, AlwaysFInv, PTL DEF Spec, LoginKeepsProgress

\* A file goes back to an older version, or comes back from nowhere, only
\* while a copy of its character waits behind a password prompt.
THEOREM OnlyPromptSetsBackHolds == Spec => OnlyPromptSetsBack
<1>1. ASSUME FInv, [Next]_vars, NEW n \in Name, n \notin twice', SetBack(n),
             \A fd \in CopiesOf(n) : ply[fd].live
      PROVE  FALSE
  <2>0. /\ TypeOK /\ Identified /\ Prompted /\ Newest(n) /\ HasFile(n)
        /\ n # NoName /\ file[n] \in Nat /\ file'[n] \in Nat
    <3>1. twice \subseteq twice'
      BY <1>1 DEF Next, Connect, SitePassword, EnterName, Confirm, Create,
         Password, PasswordGone, Progress, SaveGame, Disconnect, AskSuicide,
         AbortSuicide, Suicide, Dust, Transfer, DmShutdown, Shutdown, Crash, vars
    <3>2. TypeOK'
      BY <1>1, NextType DEF FInv
    <3> QED BY <1>1, <3>1, <3>2, AccountsAssumption DEF FInv, IInv, TypeOK
  <2>1. /\ file'[n] # file[n] /\ file'[n] # 0
        /\ file[n] # 0 => file'[n] < file[n]
        /\ file[n] = 0 => ~CreatedNow(n)
    BY <1>1, <2>0 DEF SetBack
  <2>2. \A g \in CopiesOf(n) :
          file[n] > 0 /\ file[n] <= ply[g].version /\ ply[g].version \in Nat
    BY <1>1, <2>0, AccountsAssumption
       DEF CopiesOf, Live, Newest, HasFile, Identified, Copy
  <2>3. ASSUME NEW S, Saves(S, file') PROVE FALSE
    <3>1. \/ file'[n] = file[n]
          \/ \E g \in CopiesOf(n) : file'[n] = ply[g].version
      BY <2>3, SavedFrom DEF CopiesOf
    <3> QED BY <2>0, <2>1, <2>2, <3>1
  <2>4. ASSUME NEW fd \in Fd, Create(fd) PROVE FALSE
    <3>1. n = typed[fd]
      BY <2>0, <2>1, <2>4 DEF Create, TypeOK
    <3>2. file[n] = 0
      BY <1>1, <2>0, <2>4, <3>1 DEF Create
    <3>3. CreatedNow(n)
      BY <2>0, <2>4, <3>1 DEF Create, CreatedNow, Goto, TypeOK
    <3> QED BY <2>1, <3>2, <3>3
  <2>5. ASSUME NEW g \in CopiesOf(n), file'[n] = ply[g].version + 1 PROVE FALSE
    BY <2>0, <2>1, <2>2, <2>5
  <2>6. ASSUME NEW fd \in Fd, NEW m \in Name, Transfer(fd, m) PROVE FALSE
    <3> DEFINE k == ply[fd].name
    <3>1. k # m /\ fd \in CopiesOf(k)
      BY <2>6 DEF Transfer, CopiesOf
    <3>2. \/ /\ file' = [file EXCEPT ![k] = ply[fd].version + 1, ![m] = file[m] + 1]
             /\ file[m] > 0
          \/ \E g \in CopiesOf(m) :
               file' = [file EXCEPT ![k] = ply[fd].version + 1,
                                    ![m] = ply[g].version + 1]
      BY <2>6, AccountsAssumption DEF Transfer, Plays
    <3>3. n = k \/ n = m
      BY <2>0, <2>1, <3>2 DEF TypeOK
    <3>4. CASE n = k
      <4>1. file'[n] = ply[fd].version + 1
        BY <2>0, <3>1, <3>2, <3>4 DEF TypeOK
      <4> QED BY <2>5, <3>1, <3>4, <4>1
    <3>5. CASE n = m
      <4>1. \/ file'[n] = file[n] + 1 /\ file[n] > 0
            \/ \E g \in CopiesOf(n) : file'[n] = ply[g].version + 1
        BY <2>0, <3>2, <3>5 DEF TypeOK
      <4> QED BY <2>0, <2>1, <2>5, <4>1
    <3> QED BY <3>3, <3>4, <3>5
  <2>7. ASSUME NEW fd \in Fd, Suicide(fd) \/ \E dm \in Fd : Dust(dm, fd) PROVE FALSE
    BY <2>0, <2>1, <2>7 DEF Suicide, Dust, TypeOK
  <2>8. ASSUME NEW fd \in Fd,
               Password(fd) \/ PasswordGone(fd) \/ SaveGame(fd) \/ Disconnect(fd)
        PROVE  FALSE
    BY <2>3, <2>8 DEF Password, PasswordGone, SaveGame, Disconnect
  <2>9. CASE DmShutdown \/ Shutdown
    BY <2>3, <2>9 DEF DmShutdown, Shutdown
  <2>10. CASE file' = file
    BY <2>1, <2>10
  <2> QED
    BY <1>1, <2>4, <2>6, <2>7, <2>8, <2>9, <2>10
       DEF Next, Connect, SitePassword, EnterName, Confirm, Progress,
           AskSuicide, AbortSuicide, Crash, vars
<1>2. FInv /\ [Next]_vars =>
        [ \A n \in Name \ twice' :
            SetBack(n) => \E fd \in CopiesOf(n) : ~ply[fd].live ]_vars
  BY <1>1
<1> QED BY <1>2, AlwaysFInv, PTL DEF Spec, OnlyPromptSetsBack

-----------------------------------------------------------------------------
(* The active list.                                                        *)

\* A set of natural numbers has a least one.
LEMMA Least ==
    ASSUME NEW T \in SUBSET Nat, T # {}
    PROVE  \E x \in T : \A y \in T : x <= y
<1>1. IsWellFoundedOn(OpToRel(<, Nat), Nat)
  BY NatLessThanWellFounded
<1>2. PICK x \in T : \A y \in T : <<y, x>> \notin OpToRel(<, Nat)
  BY <1>1, WFMin
<1>3. \A y \in T : ~(y < x)
  BY <1>2 DEF OpToRel
<1> QED BY <1>3

-----------------------------------------------------------------------------
(* The list of tags.                                                       *)

\* One tag of q, after the rest of them: kept unless it is in M.
Passed(q, M, i, l) == IF q[i] \in M THEN l ELSE Append(l, q[i])

\* f[i] is what is left of the first i tags of q without those of M.
Passing(q, M, n, f) ==
    f = [i \in 0..n |-> IF i = 0 THEN <<>>
                        ELSE IF q[i] \in M THEN f[i - 1] ELSE Append(f[i - 1], q[i])]

\* There is such a function.
LEMMA PassingExists ==
    ASSUME NEW q, NEW M, NEW N \in Nat
    PROVE  \E f : Passing(q, M, N, f)
<1> DEFINE Bad == {n \in Nat : ~ \E f : Passing(q, M, n, f)}
<1> SUFFICES ASSUME N \in Bad PROVE FALSE
  OBVIOUS
<1>1. PICK n \in Bad : \A k \in Bad : n <= k
  BY Least
<1>2. n # 0
  <2> DEFINE f == [k \in 0..0 |-> <<>>]
  <2>1. Passing(q, M, 0, f)
    BY DEF Passing
  <2> QED BY <2>1
<1>3. n - 1 \in Nat /\ n - 1 \notin Bad
  BY <1>1, <1>2
<1>4. PICK g : Passing(q, M, n - 1, g)
  BY <1>3
<1> DEFINE f == [k \in 0..n |-> IF k = n THEN Passed(q, M, n, g[n - 1]) ELSE g[k]]
<1>5. \A k \in 0..n - 1 : g[k] = IF k = 0 THEN <<>> ELSE Passed(q, M, k, g[k - 1])
  BY <1>4 DEF Passing, Passed
<1>6. ASSUME NEW k \in 0..n
      PROVE  f[k] = IF k = 0 THEN <<>> ELSE Passed(q, M, k, f[k - 1])
  <2>1. CASE k = n
    BY <2>1, <1>2, <1>3
  <2>2. CASE k = 0
    BY <2>2, <1>2, <1>3, <1>5
  <2>3. CASE k # n /\ k # 0
    <3>1. k \in 0..n - 1 /\ k - 1 \in 0..n /\ k - 1 # n
      BY <2>3, <1>3
    <3>2. f[k] = g[k] /\ f[k - 1] = g[k - 1]
      BY <3>1, <2>3
    <3> HIDE DEF f
    <3> QED BY <3>1, <3>2, <2>3, <1>5
  <2> QED BY <2>1, <2>2, <2>3
<1>7. Passing(q, M, n, f)
  <2>1. DOMAIN f = 0..n /\ f = [k \in 0..n |-> f[k]]
    OBVIOUS
  <2> HIDE DEF f
  <2>2. f = [k \in 0..n |-> IF k = 0 THEN <<>> ELSE Passed(q, M, k, f[k - 1])]
    BY <2>1, <1>6
  <2> QED BY <2>1, <2>2 DEF Passing, Passed
<1> QED BY <1>1, <1>7

\* What is left has the tags of q that are not in M, and none twice
\* if q has none twice.
Keeps(q, M, l) ==
    /\ l \in Seq(Mon)
    /\ ToSet(l) = ToSet(q) \ M
    /\ IsInjective(q) => IsInjective(l)

\* One step of that: a tag that is dropped or kept.
LEMMA PassedKeeps ==
    ASSUME NEW q \in Seq(Mon), NEW M, NEW n \in 1..Len(q), NEW l \in Seq(Mon),
           ToSet(l) = {q[j] : j \in 1..n - 1} \ M,
           IsInjective(q) => IsInjective(l)
    PROVE  /\ Passed(q, M, n, l) \in Seq(Mon)
           /\ ToSet(Passed(q, M, n, l)) = {q[j] : j \in 1..n} \ M
           /\ IsInjective(q) => IsInjective(Passed(q, M, n, l))
<1>1. /\ DOMAIN q = 1..Len(q) /\ q[n] \in Mon /\ Len(q) \in Nat
      /\ DOMAIN l = 1..Len(l) /\ Len(l) \in Nat
  OBVIOUS
<1>2. {q[j] : j \in 1..n} = {q[j] : j \in 1..n - 1} \cup {q[n]}
  <2>1. 1..n = (1..n - 1) \cup {n}
    BY <1>1
  <2> QED BY <2>1
<1>3. CASE q[n] \in M
  BY <1>2, <1>3 DEF Passed
<1>4. CASE q[n] \notin M
  <2> DEFINE d == Append(l, q[n])
  <2>1. /\ d \in Seq(Mon) /\ Len(d) = Len(l) + 1 /\ DOMAIN d = 1..Len(l) + 1
        /\ \A i \in 1..Len(l) : d[i] = l[i]
        /\ d[Len(l) + 1] = q[n]
    BY <1>1
  <2>2. Passed(q, M, n, l) = d
    BY <1>4 DEF Passed
  <2> HIDE DEF d
  <2>3. ToSet(d) = ToSet(l) \cup {q[n]}
    <3>1. ASSUME NEW x \in ToSet(d) PROVE x \in ToSet(l) \cup {q[n]}
      <4>1. PICK i \in 1..Len(l) + 1 : x = d[i]
        BY <2>1 DEF ToSet
      <4>2. CASE i = Len(l) + 1
        BY <2>1, <4>1, <4>2
      <4>3. CASE i # Len(l) + 1
        <5>1. i \in 1..Len(l)
          BY <1>1, <4>3
        <5> QED BY <1>1, <2>1, <4>1, <5>1 DEF ToSet
      <4> QED BY <4>2, <4>3
    <3>2. ASSUME NEW x \in ToSet(l) PROVE x \in ToSet(d)
      <4>1. PICK i \in 1..Len(l) : x = l[i]
        BY <1>1 DEF ToSet
      <4>2. i \in 1..Len(l) + 1 /\ x = d[i]
        BY <1>1, <2>1, <4>1
      <4> QED BY <2>1, <4>2 DEF ToSet
    <3>3. Len(l) + 1 \in 1..Len(l) + 1
      BY <1>1
    <3>4. q[n] \in ToSet(d)
      BY <2>1, <3>3 DEF ToSet
    <3> QED BY <3>1, <3>2, <3>4
  <2>4. ToSet(d) = {q[j] : j \in 1..n} \ M
    BY <1>2, <1>4, <2>3
  <2>5. ASSUME IsInjective(q) PROVE IsInjective(d)
    <3>1. IsInjective(l)
      BY <2>5
    <3>2. q[n] \notin ToSet(l)
      <4> SUFFICES ASSUME q[n] \in {q[j] : j \in 1..n - 1} PROVE FALSE
        OBVIOUS
      <4>1. PICK j \in 1..n - 1 : q[n] = q[j]
        OBVIOUS
      <4>2. j \in DOMAIN q /\ n \in DOMAIN q /\ j # n
        BY <1>1
      <4> QED BY <4>1, <4>2, <2>5 DEF IsInjective
    <3>3. ASSUME NEW a \in 1..Len(l) + 1, NEW b \in 1..Len(l) + 1, d[a] = d[b]
          PROVE  a = b
      <4>1. CASE a \in 1..Len(l) /\ b \in 1..Len(l)
        BY <1>1, <2>1, <3>1, <3>3, <4>1 DEF IsInjective
      <4>2. CASE a \in 1..Len(l) /\ b = Len(l) + 1
        <5>1. d[a] \in ToSet(l)
          BY <1>1, <2>1, <4>2 DEF ToSet
        <5> QED BY <2>1, <3>2, <3>3, <4>2, <5>1
      <4>3. CASE b \in 1..Len(l) /\ a = Len(l) + 1
        <5>1. d[b] \in ToSet(l)
          BY <1>1, <2>1, <4>3 DEF ToSet
        <5> QED BY <2>1, <3>2, <3>3, <4>3, <5>1
      <4> QED BY <1>1, <4>1, <4>2, <4>3
    <3> QED BY <2>1, <3>3 DEF IsInjective
  <2> QED BY <2>1, <2>2, <2>4, <2>5
<1> QED BY <1>3, <1>4

\* del_active takes out what it is asked to, and leaves the rest.
LEMMA UnlistedKeeps ==
    ASSUME NEW q \in Seq(Mon), NEW M
    PROVE  Keeps(q, M, Unlisted(q, M))
<1> DEFINE N == Len(q)
           rest == CHOOSE f : f = [i \in 0..N |-> IF i = 0 THEN <<>>
                        ELSE IF q[i] \in M THEN f[i - 1] ELSE Append(f[i - 1], q[i])]
           Good(i) == /\ rest[i] \in Seq(Mon)
                      /\ ToSet(rest[i]) = {q[j] : j \in 1..i} \ M
                      /\ IsInjective(q) => IsInjective(rest[i])
<1>0. N \in Nat /\ DOMAIN q = 1..N
  OBVIOUS
<1>1. Unlisted(q, M) = rest[N]
  BY DEF Unlisted
<1>2. rest = [i \in 0..N |-> IF i = 0 THEN <<>>
                        ELSE IF q[i] \in M THEN rest[i - 1] ELSE Append(rest[i - 1], q[i])]
  <2>1. \E f : Passing(q, M, N, f)
    BY <1>0, PassingExists
  <2> HIDE DEF N
  <2>2. \E f : f = [i \in 0..N |-> IF i = 0 THEN <<>>
                        ELSE IF q[i] \in M THEN f[i - 1] ELSE Append(f[i - 1], q[i])]
    BY <2>1 DEF Passing
  <2> QED BY <2>2
<1> HIDE DEF rest
<1>3. \A i \in 0..N : rest[i] = IF i = 0 THEN <<>> ELSE Passed(q, M, i, rest[i - 1])
  BY <1>2 DEF Passed
<1>4. Good(0)
  <2>1. rest[0] = <<>>
    BY <1>0, <1>3
  <2> QED BY <2>1 DEF ToSet, IsInjective
<1> DEFINE Bad == {i \in 0..N : ~Good(i)}
<1>5. Bad = {}
  <2> SUFFICES ASSUME Bad # {} PROVE FALSE
    OBVIOUS
  <2>1. Bad \in SUBSET Nat
    OBVIOUS
  <2>2. PICK n \in Bad : \A k \in Bad : n <= k
    <3> HIDE DEF Bad
    <3> QED BY <2>1, Least
  <2>3. n \in 0..N /\ ~Good(n)
    BY <2>2
  <2>4. \A k \in 0..N : ~Good(k) => n <= k
    BY <2>2
  <2> HIDE DEF Bad, Good
  <2>5. n # 0
    BY <1>4, <2>3
  <2>6. n - 1 \in 0..N /\ n \in 1..N /\ ~(n <= n - 1)
    BY <1>0, <2>3, <2>5
  <2>7. Good(n - 1)
    BY <2>4, <2>6
  <2>8. rest[n] = Passed(q, M, n, rest[n - 1])
    BY <1>3, <2>3, <2>5
  <2>9. Good(n)
    <3>1. PICK l : l = rest[n - 1]
      OBVIOUS
    <3>2. /\ l \in Seq(Mon) /\ ToSet(l) = {q[j] : j \in 1..n - 1} \ M
          /\ IsInjective(q) => IsInjective(l)
      BY <2>7, <3>1 DEF Good
    <3>3. n \in 1..Len(q)
      BY <2>6
    <3>4. /\ Passed(q, M, n, l) \in Seq(Mon)
          /\ ToSet(Passed(q, M, n, l)) = {q[j] : j \in 1..n} \ M
          /\ IsInjective(q) => IsInjective(Passed(q, M, n, l))
      BY <3>2, <3>3, PassedKeeps
    <3>5. rest[n] = Passed(q, M, n, l)
      BY <2>8, <3>1
    <3> QED BY <3>4, <3>5 DEF Good
  <2> QED BY <2>3, <2>9
<1>6. Good(N)
  <2> HIDE DEF Good
  <2>1. N \in 0..N
    BY <1>0
  <2> QED BY <1>5, <2>1
<1>7. ToSet(q) = {q[j] : j \in 1..N}
  BY <1>0 DEF ToSet
<1> QED BY <1>1, <1>6, <1>7 DEF Keeps

\* q puts the names of S in descending order.
Falling(q, S) ==
    /\ q \in [1..Cardinality(S) -> S]
    /\ \A i, j \in 1..Cardinality(S) : i < j => q[i] > q[j]

\* The names of any monsters can be put in that order.
LEMMA FallingExists ==
    ASSUME NEW S \in SUBSET Nat, IsFiniteSet(S)
    PROVE  \E q : Falling(q, S)
<1> DEFINE Bad == {n \in Nat : \E X \in SUBSET S : Cardinality(X) = n /\ ~ \E q : Falling(q, X)}
<1>1. Cardinality(S) \in Nat
  BY FS_CardinalityType
<1> SUFFICES ASSUME Bad # {} PROVE FALSE
  BY <1>1
<1>2. PICK n \in Bad : \A k \in Bad : n <= k
  <2>1. Bad \in SUBSET Nat
    OBVIOUS
  <2> HIDE DEF Bad
  <2> QED BY <2>1, Least
<1>3. PICK X \in SUBSET S : Cardinality(X) = n /\ ~ \E q : Falling(q, X)
  BY <1>2
<1>4. IsFiniteSet(X) /\ X \in SUBSET Nat /\ n \in Nat
  BY <1>2, <1>3, FS_Subset
<1>5. n # 0
  <2> SUFFICES ASSUME n = 0 PROVE FALSE
    OBVIOUS
  <2> DEFINE q == [i \in 1..0 |-> 0]
  <2>1. q \in [1..0 -> X]
    OBVIOUS
  <2>2. Falling(q, X)
    BY <1>3, <2>1 DEF Falling
  <2> QED BY <1>3, <2>2
<1>6. PICK x \in X : \A y \in X : x <= y
  <2>1. X # {}
    BY <1>3, <1>5, FS_EmptySet
  <2> QED BY <1>4, <2>1, Least
<1>7. Cardinality(X \ {x}) = n - 1 /\ n - 1 \in Nat
  <2>1. Cardinality(X \ {x}) = Cardinality(X) - 1
    BY <1>4, FS_RemoveElement
  <2> QED BY <1>3, <1>4, <1>5, <2>1
<1>8. PICK q : Falling(q, X \ {x})
  <2>1. n - 1 \notin Bad
    BY <1>2, <1>4
  <2>2. X \ {x} \in SUBSET S
    OBVIOUS
  <2> QED BY <1>7, <2>1, <2>2
<1> DEFINE w == [i \in 1..n |-> IF i = n THEN x ELSE q[i]]
<1>9. /\ q \in [1..n - 1 -> X \ {x}]
      /\ \A i, j \in 1..n - 1 : i < j => q[i] > q[j]
  BY <1>7, <1>8 DEF Falling
<1>10. w \in [1..n -> X]
  <2>1. ASSUME NEW i \in 1..n, i # n PROVE q[i] \in X
    <3>1. i \in 1..n - 1
      BY <1>4, <2>1
    <3> QED BY <1>9, <3>1
  <2> QED BY <2>1
<1>11. ASSUME NEW i \in 1..n, NEW j \in 1..n, i < j PROVE w[i] > w[j]
  <2>1. i \in 1..n - 1 /\ w[i] = q[i] /\ i # n
    BY <1>4, <1>11
  <2>2. q[i] \in X /\ q[i] # x /\ q[i] \in Nat /\ x \in Nat
    BY <1>4, <1>9, <2>1
  <2>3. CASE j = n
    <3>1. w[j] = x /\ x <= q[i]
      BY <1>6, <2>2, <2>3
    <3> QED BY <2>1, <2>2, <3>1
  <2>4. CASE j # n
    <3>1. j \in 1..n - 1 /\ w[j] = q[j]
      BY <1>4, <2>4
    <3> QED BY <1>9, <1>11, <2>1, <3>1
  <2> QED BY <2>3, <2>4
<1> HIDE DEF w
<1>12. Falling(w, X)
  BY <1>3, <1>10, <1>11 DEF Falling
<1> QED BY <1>3, <1>12

\* add_active puts each of them in front, once.
LEMMA DescendingIs ==
    ASSUME ActiveAssumption, NEW M \in SUBSET Mon
    PROVE  /\ Descending(M) \in Seq(Mon)
           /\ ToSet(Descending(M)) = M
           /\ IsInjective(Descending(M))
<1> DEFINE D == Descending(M)
           n == Cardinality(M)
<1>1. M \in SUBSET Nat /\ IsFiniteSet(M) /\ n \in Nat
  <2>1. IsFiniteSet(M)
    BY FS_Subset DEF ActiveAssumption
  <2> QED BY <2>1, FS_CardinalityType DEF ActiveAssumption
<1>2. D \in [1..n -> M] /\ \A i, j \in 1..n : i < j => D[i] > D[j]
  BY <1>1, FallingExists DEF Falling, Descending
<1> HIDE DEF D
<1>3. ASSUME NEW i \in 1..n, NEW j \in 1..n, D[i] = D[j] PROVE i = j
  <2>1. D[i] \in Nat /\ D[j] \in Nat
    BY <1>1, <1>2
  <2>2. ~(i < j) /\ ~(j < i)
    BY <1>2, <1>3, <2>1
  <2> QED BY <1>1, <2>2
<1>4. D \in Injection(1..n, M)
  BY <1>2, <1>3 DEF Injection, IsInjective
<1>5. Cardinality(1..n) = n /\ n = Cardinality(M)
  BY <1>1, FS_Interval
<1>6. D \in Surjection(1..n, M)
  <2> HIDE DEF n
  <2> QED BY <1>1, <1>4, <1>5, FS_Injection
<1>7. ToSet(D) = M
  BY <1>2, <1>6 DEF Surjection, ToSet
<1>8. IsInjective(D)
  BY <1>2, <1>3 DEF IsInjective
<1>9. D \in Seq(Mon)
  <2>1. D \in [1..n -> Mon]
    BY <1>2
  <2> HIDE DEF n
  <2> QED BY <1>1, <2>1
<1> QED BY <1>7, <1>8, <1>9 DEF D

\* Two lists that share no tag, one before the other.
LEMMA JoinedIs ==
    ASSUME NEW a \in Seq(Mon), NEW b \in Seq(Mon),
           IsInjective(a), IsInjective(b), ToSet(a) \cap ToSet(b) = {}
    PROVE  /\ a \o b \in Seq(Mon)
           /\ ToSet(a \o b) = ToSet(a) \cup ToSet(b)
           /\ IsInjective(a \o b)
<1> DEFINE d == a \o b
           m == Len(a)
           n == Len(b)
<1>1. /\ m \in Nat /\ n \in Nat /\ DOMAIN a = 1..m /\ DOMAIN b = 1..n
  OBVIOUS
<1>2. /\ d \in Seq(Mon) /\ Len(d) = m + n
      /\ \A i \in 1..m + n : d[i] = IF i <= m THEN a[i] ELSE b[i - m]
  BY ConcatProperties
<1>3. DOMAIN d = 1..m + n
  BY <1>2
<1> HIDE DEF d, m, n
<1>4. \A i \in 1..m : i \in 1..m + n /\ d[i] = a[i]
  BY <1>1, <1>2
<1>5. \A j \in 1..n : m + j \in 1..m + n /\ d[m + j] = b[j]
  <2> SUFFICES ASSUME NEW j \in 1..n PROVE m + j \in 1..m + n /\ d[m + j] = b[j]
    OBVIOUS
  <2>1. m + j \in 1..m + n /\ ~(m + j <= m) /\ (m + j) - m = j
    BY <1>1
  <2> QED BY <1>2, <2>1
<1>6. \A i \in 1..m + n : i \in 1..m \/ \E j \in 1..n : i = m + j
  <2> SUFFICES ASSUME NEW i \in 1..m + n, i \notin 1..m PROVE \E j \in 1..n : i = m + j
    OBVIOUS
  <2>1. i - m \in 1..n /\ i = m + (i - m)
    BY <1>1
  <2> QED BY <2>1
<1>7. ASSUME NEW x \in ToSet(d) PROVE x \in ToSet(a) \cup ToSet(b)
  <2>1. PICK i \in 1..m + n : x = d[i]
    BY <1>3 DEF ToSet
  <2>2. CASE i \in 1..m
    BY <1>1, <1>4, <2>1, <2>2 DEF ToSet
  <2>3. CASE \E j \in 1..n : i = m + j
    BY <1>1, <1>5, <2>1, <2>3 DEF ToSet
  <2> QED BY <1>6, <2>2, <2>3
<1>8. ASSUME NEW x \in ToSet(a) PROVE x \in ToSet(d)
  BY <1>1, <1>3, <1>4 DEF ToSet
<1>9. ASSUME NEW x \in ToSet(b) PROVE x \in ToSet(d)
  <2>1. PICK j \in 1..n : x = b[j]
    BY <1>1 DEF ToSet
  <2>2. m + j \in DOMAIN d /\ x = d[m + j]
    BY <1>3, <1>5, <2>1
  <2> QED BY <2>2 DEF ToSet
<1>10. ASSUME NEW i \in 1..m + n, NEW k \in 1..m + n, d[i] = d[k] PROVE i = k
  <2>1. \A u \in 1..m, v \in 1..n : a[u] # b[v]
    BY <1>1 DEF ToSet
  <2>2. CASE i \in 1..m /\ k \in 1..m
    BY <1>1, <1>4, <1>10, <2>2 DEF IsInjective
  <2>3. CASE i \in 1..m /\ k \notin 1..m
    <3>1. PICK v \in 1..n : k = m + v
      BY <1>6, <2>3
    <3> QED BY <1>4, <1>5, <1>10, <2>1, <2>3, <3>1
  <2>4. CASE i \notin 1..m /\ k \in 1..m
    <3>1. PICK v \in 1..n : i = m + v
      BY <1>6, <2>4
    <3> QED BY <1>4, <1>5, <1>10, <2>1, <2>4, <3>1
  <2>5. CASE i \notin 1..m /\ k \notin 1..m
    <3>1. PICK u \in 1..n : i = m + u
      BY <1>6, <2>5
    <3>2. PICK v \in 1..n : k = m + v
      BY <1>6, <2>5
    <3>3. b[u] = b[v]
      BY <1>5, <1>10, <3>1, <3>2
    <3>4. u = v
      BY <1>1, <3>3 DEF IsInjective
    <3> QED BY <3>1, <3>2, <3>4
  <2> QED BY <2>2, <2>3, <2>4, <2>5
<1>11. IsInjective(d)
  BY <1>3, <1>10 DEF IsInjective
<1>12. ToSet(d) = ToSet(a) \cup ToSet(b)
  BY <1>7, <1>8, <1>9
<1> QED BY <1>2, <1>11, <1>12 DEF d

-----------------------------------------------------------------------------
(* The states handlers work on.                                            *)

\* What a handler is passed and returns.
State ==
    [where : [Mon -> Room \cup {"unborn", "gone"}],
     at : [Player -> Room \cup {Nil}],
     active : Seq(Mon)]

\* The monsters on the list.
On(s) == ToSet(s.active)

\* What is on the list is in a room, and nothing is on it twice.
Listed(s) ==
    /\ s \in State
    /\ IsInjective(s.active)
    /\ \A m \in On(s) : s.where[m] \in Room

\* Who is seen in s is on the list, but for the monsters of T.
Seen(s, T) ==
    \A m \in Mon \ T : s.where[m] \in Room /\ Occupied(s, s.where[m]) => m \in On(s)

\* Both: nothing outside T is seen and not listed.
Right(s, T) == Listed(s) /\ Seen(s, T)

\* A state of such fields.
Fields(w, a, q) == [where |-> w, at |-> a, active |-> q]

\* Which state that is.
LEMMA FieldsAre ==
    ASSUME NEW w, NEW a, NEW q
    PROVE  /\ Fields(w, a, q).where = w /\ Fields(w, a, q).at = a
           /\ Fields(w, a, q).active = q
           /\ w \in [Mon -> Room \cup {"unborn", "gone"}] /\ a \in [Player -> Room \cup {Nil}]
              /\ q \in Seq(Mon) => Fields(w, a, q) \in State
  BY DEF Fields, State

\* del_active changes nothing but the list.
LEMMA DelActiveIs ==
    ASSUME NEW s \in State, NEW M, IsInjective(s.active)
    PROVE  /\ del_active(s, M) \in State
           /\ del_active(s, M).where = s.where /\ del_active(s, M).at = s.at
           /\ On(del_active(s, M)) = On(s) \ M
           /\ IsInjective(del_active(s, M).active)
<1> DEFINE q == Unlisted(s.active, M)
           d == del_active(s, M)
<1>1. /\ s.active \in Seq(Mon) /\ s.where \in [Mon -> Room \cup {"unborn", "gone"}]
      /\ s.at \in [Player -> Room \cup {Nil}]
  BY DEF State
<1>2. Keeps(s.active, M, q)
  BY <1>1, UnlistedKeeps
<1>3. d = Fields(s.where, s.at, q)
  BY DEF del_active, Fields, State
<1> HIDE DEF q, d
<1>4. /\ q \in Seq(Mon) /\ ToSet(q) = ToSet(s.active) \ M /\ IsInjective(q)
  BY <1>2 DEF Keeps
<1>5. d \in State /\ d.where = s.where /\ d.at = s.at /\ d.active = q
  BY <1>1, <1>3, <1>4, FieldsAre
<1> QED BY <1>4, <1>5 DEF d, On

\* So does add_active, and lists no monster twice.
LEMMA AddActiveIs ==
    ASSUME ActiveAssumption, NEW s \in State, NEW M \in SUBSET Mon, IsInjective(s.active)
    PROVE  /\ add_active(s, M) \in State
           /\ add_active(s, M).where = s.where /\ add_active(s, M).at = s.at
           /\ On(add_active(s, M)) = On(s) \cup M
           /\ IsInjective(add_active(s, M).active)
<1> DEFINE new == M \ ToSet(s.active)
           q == Descending(new) \o s.active
           d == add_active(s, M)
<1>1. /\ s.active \in Seq(Mon) /\ s.where \in [Mon -> Room \cup {"unborn", "gone"}]
      /\ s.at \in [Player -> Room \cup {Nil}]
  BY DEF State
<1>2. /\ Descending(new) \in Seq(Mon) /\ ToSet(Descending(new)) = new
      /\ IsInjective(Descending(new))
  BY DescendingIs
<1>3. d = Fields(s.where, s.at, q)
  <2>1. d = [s EXCEPT !.active = q]
    BY DEF add_active
  <2> HIDE DEF q, d
  <2> QED BY <2>1 DEF Fields, State
<1>4. ToSet(Descending(new)) \cap ToSet(s.active) = {}
  BY <1>2
<1>5. /\ q \in Seq(Mon) /\ ToSet(q) = ToSet(Descending(new)) \cup ToSet(s.active)
      /\ IsInjective(q)
  <2> HIDE DEF new
  <2> QED BY <1>1, <1>2, <1>4, JoinedIs
<1>6. ToSet(q) = ToSet(s.active) \cup M
  BY <1>2, <1>5
<1> HIDE DEF new, q, d
<1>7. d \in State /\ d.where = s.where /\ d.at = s.at /\ d.active = q
  BY <1>1, <1>3, <1>5, FieldsAre
<1> QED BY <1>5, <1>6, <1>7 DEF d, On

\* Put changes nothing but where those monsters are.
LEMMA PutIs ==
    ASSUME NEW s \in State, NEW M \in SUBSET Mon, NEW to \in Room \cup {"unborn", "gone"}
    PROVE  /\ Put(s, M, to) \in State
           /\ Put(s, M, to).at = s.at /\ Put(s, M, to).active = s.active
           /\ \A m \in Mon : Put(s, M, to).where[m] = IF m \in M THEN to ELSE s.where[m]
<1> DEFINE w == [m \in Mon |-> IF m \in M THEN to ELSE s.where[m]]
           d == Put(s, M, to)
<1>1. /\ s.active \in Seq(Mon) /\ s.where \in [Mon -> Room \cup {"unborn", "gone"}]
      /\ s.at \in [Player -> Room \cup {Nil}]
  BY DEF State
<1>4. d = Fields(w, s.at, s.active)
  BY DEF Put, Fields, State
<1>5. w \in [Mon -> Room \cup {"unborn", "gone"}]
  BY <1>1
<1> HIDE DEF d
<1>6. d \in State /\ d.where = w /\ d.at = s.at /\ d.active = s.active
  <2> HIDE DEF w
  <2> QED BY <1>1, <1>4, <1>5, FieldsAre
<1> QED BY <1>6 DEF d

-----------------------------------------------------------------------------
(* What each function leaves.                                              *)

\* A monster is freed, wherever it was.
LEMMA FreedRight ==
    ASSUME ActiveAssumption, NEW T, NEW s, Right(s, T), NEW M \in SUBSET Mon
    PROVE  Right(free_crt(s, M), T) /\ free_crt(s, M).at = s.at
<1> DEFINE d == del_active(s, M)
           e == Put(d, M, "gone")
<1>1. /\ s \in State /\ IsInjective(s.active) /\ \A m \in On(s) : s.where[m] \in Room
      /\ Seen(s, T)
  BY DEF Right, Listed
<1>2. /\ d \in State /\ d.where = s.where /\ d.at = s.at
      /\ On(d) = On(s) \ M /\ IsInjective(d.active)
  BY <1>1, DelActiveIs
<1> HIDE DEF d
<1>3. /\ e \in State /\ e.at = d.at /\ e.active = d.active
      /\ \A m \in Mon : e.where[m] = IF m \in M THEN "gone" ELSE d.where[m]
  BY <1>2, PutIs
<1> HIDE DEF e
<1>4. On(e) = On(s) \ M /\ On(s) \subseteq Mon
  <2>1. s.active \in Seq(Mon)
    BY <1>1 DEF State
  <2>2. On(s) \subseteq Mon
    BY <2>1 DEF On, ToSet
  <2> QED BY <1>2, <1>3, <2>2 DEF On
<1>5. "gone" \notin Room
  BY DEF ActiveAssumption
<1>6. Listed(e)
  BY <1>1, <1>2, <1>3, <1>4 DEF Listed
<1>7. Seen(e, T)
  BY <1>1, <1>2, <1>3, <1>4, <1>5 DEF Seen, Occupied
<1> QED BY <1>2, <1>3, <1>6, <1>7 DEF Right, free_crt, d, e

\* Monsters come into a room where nobody sees them, or are on the list.
LEMMA AddCrtRight ==
    ASSUME ActiveAssumption, NEW T, NEW s, Right(s, T), NEW M \in SUBSET Mon,
           NEW r \in Room, Occupied(s, r) => M \subseteq On(s) \cup T
    PROVE  /\ Right(add_crt_rom(s, M, r), T) /\ add_crt_rom(s, M, r).at = s.at
           /\ On(add_crt_rom(s, M, r)) = On(s)
           /\ \A m \in Mon : add_crt_rom(s, M, r).where[m] = IF m \in M THEN r ELSE s.where[m]
<1> DEFINE e == Put(s, M, r)
<1>1. /\ s \in State /\ IsInjective(s.active) /\ \A m \in On(s) : s.where[m] \in Room
      /\ Seen(s, T)
  BY DEF Right, Listed
<1>2. /\ e \in State /\ e.at = s.at /\ e.active = s.active
      /\ \A m \in Mon : e.where[m] = IF m \in M THEN r ELSE s.where[m]
  BY <1>1, PutIs
<1> HIDE DEF e
<1>3. On(e) = On(s) /\ On(s) \subseteq Mon
  <2>1. s.active \in Seq(Mon)
    BY <1>1 DEF State
  <2> QED BY <1>2, <2>1 DEF On, ToSet
<1>4. Listed(e)
  BY <1>1, <1>2, <1>3 DEF Listed
<1>5. Seen(e, T)
  BY <1>1, <1>2, <1>3 DEF Seen, Occupied
<1> QED BY <1>2, <1>3, <1>4, <1>5 DEF Right, add_crt_rom, e

\* Monsters that are somewhere are put on the list.
LEMMA AddActiveRight ==
    ASSUME ActiveAssumption, NEW T, NEW s, Right(s, T), NEW M \in SUBSET Mon,
           \A m \in M : s.where[m] \in Room
    PROVE  /\ Right(add_active(s, M), T) /\ add_active(s, M).at = s.at
           /\ On(add_active(s, M)) = On(s) \cup M
           /\ add_active(s, M).where = s.where
<1> DEFINE d == add_active(s, M)
<1>1. /\ s \in State /\ IsInjective(s.active) /\ \A m \in On(s) : s.where[m] \in Room
      /\ Seen(s, T)
  BY DEF Right, Listed
<1>2. /\ d \in State /\ d.where = s.where /\ d.at = s.at
      /\ On(d) = On(s) \cup M /\ IsInjective(d.active)
  BY <1>1, AddActiveIs
<1> HIDE DEF d
<1>3. Listed(d)
  BY <1>1, <1>2 DEF Listed
<1>4. Seen(d, T)
  BY <1>1, <1>2 DEF Seen, Occupied
<1> QED BY <1>2, <1>3, <1>4 DEF Right, d

\* add_crt_rom and add_active together: to whatever room.
LEMMA PlacedRight ==
    ASSUME ActiveAssumption, NEW T, NEW s, Right(s, T), NEW M \in SUBSET Mon, NEW r \in Room
    PROVE  /\ Right(add_active(add_crt_rom(s, M, r), M), T)
           /\ add_active(add_crt_rom(s, M, r), M).at = s.at
<1> DEFINE e == Put(s, M, r)
           d == add_active(e, M)
<1>1. /\ s \in State /\ IsInjective(s.active) /\ \A m \in On(s) : s.where[m] \in Room
      /\ Seen(s, T)
  BY DEF Right, Listed
<1>2. /\ e \in State /\ e.at = s.at /\ e.active = s.active
      /\ \A m \in Mon : e.where[m] = IF m \in M THEN r ELSE s.where[m]
  BY <1>1, PutIs
<1> HIDE DEF e
<1>3. On(e) = On(s) /\ On(s) \subseteq Mon
  <2>1. s.active \in Seq(Mon)
    BY <1>1 DEF State
  <2> QED BY <1>2, <2>1 DEF On, ToSet
<1>4. /\ d \in State /\ d.where = e.where /\ d.at = e.at
      /\ On(d) = On(e) \cup M /\ IsInjective(d.active)
  BY <1>1, <1>2, AddActiveIs
<1> HIDE DEF d
<1>5. Listed(d)
  BY <1>1, <1>2, <1>3, <1>4 DEF Listed
<1>6. Seen(d, T)
  BY <1>1, <1>2, <1>3, <1>4 DEF Seen, Occupied
<1> QED BY <1>2, <1>4, <1>5, <1>6 DEF Right, add_crt_rom, d, e

\* What a right state says of the monsters in a room.
LEMMA HereAre ==
    ASSUME NEW T, NEW s, Right(s, T), NEW r \in Room
    PROVE  /\ In(s, r) \in SUBSET Mon
           /\ \A m \in In(s, r) : s.where[m] = r
           /\ Occupied(s, r) => In(s, r) \subseteq On(s) \cup T
  BY DEF In, Right, Seen

\* Rooms nobody is in are driven out of memory, with their monsters.
LEMMA RoomsRight ==
    ASSUME ActiveAssumption, NEW T, NEW s, Right(s, T), NEW r, NEW t \in Loaded(s, r)
    PROVE  Right(t, T) /\ t.at = s.at
<1>1. PICK R \in SUBSET {q \in Room \ {r} : ~Occupied(s, q)} : t = free_rom(s, R)
  BY DEF Loaded
<1>2. {m \in Mon : s.where[m] \in R} \in SUBSET Mon
  OBVIOUS
<1> QED BY <1>1, <1>2, FreedRight DEF free_rom

\* The permanent monsters of a room that come back.
LEMMA PermRight ==
    ASSUME ActiveAssumption, NEW T, NEW s, Right(s, T), NEW r \in Room, NEW N \in SUBSET Mon
    PROVE  Right(add_permcrt_rom(s, r, N), T) /\ add_permcrt_rom(s, r, N).at = s.at
<1>1. CASE Occupied(s, r)
  BY <1>1, PlacedRight DEF add_permcrt_rom
<1>2. CASE ~Occupied(s, r)
  <2>1. Right(add_crt_rom(s, N, r), T) /\ add_crt_rom(s, N, r).at = s.at
    BY <1>2, AddCrtRight
  <2> QED BY <1>2, <2>1 DEF add_permcrt_rom
<1> QED BY <1>1, <1>2

\* s with player p somewhere else.
Moved(s, p, r) == [s EXCEPT !.at[p] = r]

\* That changes nothing but where he is.
LEMMA MovedIs ==
    ASSUME NEW s \in State, NEW p \in Player, NEW r \in Room \cup {Nil}
    PROVE  /\ Moved(s, p, r) \in State
           /\ Moved(s, p, r).where = s.where /\ Moved(s, p, r).active = s.active
           /\ \A q \in Player : Moved(s, p, r).at[q] = IF q = p THEN r ELSE s.at[q]
           /\ Moved(s, p, r).at = [s.at EXCEPT ![p] = r]
<1> DEFINE a == [s.at EXCEPT ![p] = r]
           d == Moved(s, p, r)
<1>1. /\ s.active \in Seq(Mon) /\ s.where \in [Mon -> Room \cup {"unborn", "gone"}]
      /\ s.at \in [Player -> Room \cup {Nil}]
  BY DEF State
<1>2. d = Fields(s.where, a, s.active)
  BY DEF Moved, Fields, State
<1>3. /\ a \in [Player -> Room \cup {Nil}]
      /\ \A q \in Player : a[q] = IF q = p THEN r ELSE s.at[q]
  BY <1>1
<1> HIDE DEF a, d
<1>4. d \in State /\ d.where = s.where /\ d.at = a /\ d.active = s.active
  BY <1>1, <1>2, <1>3, FieldsAre
<1> QED BY <1>3, <1>4 DEF a, d

\* A player comes into a room: those there are seen from now on.
LEMMA AddPlyRight ==
    ASSUME ActiveAssumption, NEW T, NEW s, Right(s, T),
           NEW p \in Player, NEW r \in Room, NEW N \in SUBSET Mon
    PROVE  /\ Right(add_ply_rom(s, p, r, N), T)
           /\ add_ply_rom(s, p, r, N).at = [s.at EXCEPT ![p] = r]
<1> DEFINE t == add_permcrt_rom(s, r, N)
           u == Moved(t, p, r)
           v == add_active(u, In(u, r))
<1>1. Right(t, T) /\ t.at = s.at
  BY PermRight
<1> HIDE DEF t
<1>2. /\ t \in State /\ IsInjective(t.active) /\ \A m \in On(t) : t.where[m] \in Room
      /\ Seen(t, T)
  BY <1>1 DEF Right, Listed
<1>3. /\ u \in State /\ u.where = t.where /\ u.active = t.active
      /\ \A q \in Player : u.at[q] = IF q = p THEN r ELSE t.at[q]
      /\ u.at = [t.at EXCEPT ![p] = r]
  BY <1>2, MovedIs
<1> HIDE DEF u
<1>4. On(u) = On(t)
  BY <1>3 DEF On
<1>5. Listed(u)
  BY <1>2, <1>3, <1>4 DEF Listed
<1>6. \A q \in Room \ {r} : Occupied(u, q) => Occupied(t, q)
  BY <1>3 DEF Occupied
<1>7. CASE Occupied(s, r)
  <2>1. Occupied(t, r)
    BY <1>1, <1>7 DEF Occupied
  <2>2. Seen(u, T)
    BY <1>2, <1>3, <1>4, <1>6, <2>1 DEF Seen
  <2>3. add_ply_rom(s, p, r, N) = u
    BY <1>7 DEF add_ply_rom, t, u, Moved
  <2> QED BY <1>1, <1>3, <1>5, <2>2, <2>3 DEF Right
<1>8. CASE ~Occupied(s, r)
  <2>1. In(u, r) \in SUBSET Mon /\ \A m \in In(u, r) : u.where[m] = r
    BY DEF In
  <2>2. /\ v \in State /\ v.where = u.where /\ v.at = u.at
        /\ On(v) = On(u) \cup In(u, r) /\ IsInjective(v.active)
    BY <1>5, <2>1, AddActiveIs DEF Listed
  <2>3. add_ply_rom(s, p, r, N) = v
    BY <1>8 DEF add_ply_rom, t, u, v, Moved
  <2> HIDE DEF v
  <2>4. Listed(v)
    BY <1>5, <2>1, <2>2 DEF Listed
  <2>5. Seen(v, T)
    <3> SUFFICES ASSUME NEW m \in Mon \ T, v.where[m] \in Room, Occupied(v, v.where[m])
                 PROVE  m \in On(v)
      BY DEF Seen
    <3>1. CASE v.where[m] = r
      <4>1. m \in In(u, r)
        BY <2>2, <3>1 DEF In
      <4> QED BY <2>2, <4>1
    <3>2. CASE v.where[m] # r
      <4>1. Occupied(u, u.where[m]) /\ u.where[m] \in Room \ {r}
        BY <2>2, <3>2 DEF Occupied
      <4>2. Occupied(t, t.where[m]) /\ t.where[m] \in Room
        BY <1>3, <1>6, <4>1
      <4> QED BY <1>2, <1>4, <2>2, <4>2 DEF Seen
    <3> QED BY <3>1, <3>2
  <2> QED BY <1>1, <1>3, <2>2, <2>3, <2>4, <2>5 DEF Right
<1> QED BY <1>7, <1>8

\* A player goes: who is left alone is taken off the list.
LEMMA DelPlyRight ==
    ASSUME ActiveAssumption, NEW T, NEW s, Right(s, T), NEW p \in Player
    PROVE  /\ Right(del_ply_rom(s, p), T)
           /\ del_ply_rom(s, p).at = [s.at EXCEPT ![p] = Nil]
           /\ del_ply_rom(s, p).where = s.where
<1> DEFINE t == Moved(s, p, Nil)
           r == s.at[p]
           v == del_active(t, In(t, r))
<1>1. /\ s \in State /\ IsInjective(s.active) /\ \A m \in On(s) : s.where[m] \in Room
      /\ Seen(s, T)
  BY DEF Right, Listed
<1>2. /\ t \in State /\ t.where = s.where /\ t.active = s.active
      /\ \A q \in Player : t.at[q] = IF q = p THEN Nil ELSE s.at[q]
      /\ t.at = [s.at EXCEPT ![p] = Nil]
  BY <1>1, MovedIs
<1>3. del_ply_rom(s, p) = IF Occupied(t, r) THEN t ELSE v
  BY DEF del_ply_rom, Moved
<1> HIDE DEF t, r
<1>4. On(t) = On(s)
  BY <1>2 DEF On
<1>5. Listed(t)
  BY <1>1, <1>2, <1>4 DEF Listed
<1>6. \A q \in Room : Occupied(t, q) => Occupied(s, q)
  <2>1. Nil \notin Room
    BY DEF ActiveAssumption
  <2> QED BY <1>2, <2>1 DEF Occupied
<1>7. Seen(t, T)
  BY <1>1, <1>2, <1>4, <1>6 DEF Seen
<1>8. CASE Occupied(t, r)
  BY <1>2, <1>3, <1>5, <1>7, <1>8 DEF Right
<1>9. CASE ~Occupied(t, r)
  <2>1. /\ v \in State /\ v.where = t.where /\ v.at = t.at
        /\ On(v) = On(t) \ In(t, r) /\ IsInjective(v.active)
    BY <1>5, DelActiveIs DEF Listed
  <2> HIDE DEF v
  <2>2. Listed(v)
    BY <1>5, <2>1 DEF Listed
  <2>3. Seen(v, T)
    <3> SUFFICES ASSUME NEW m \in Mon \ T, v.where[m] \in Room, Occupied(v, v.where[m])
                 PROVE  m \in On(v)
      BY DEF Seen
    <3>1. Occupied(t, t.where[m]) /\ t.where[m] \in Room
      BY <2>1 DEF Occupied
    <3>2. m \in On(t)
      BY <1>7, <3>1 DEF Seen
    <3>3. m \notin In(t, r)
      BY <1>9, <3>1 DEF In
    <3> QED BY <2>1, <3>2, <3>3
  <2> QED BY <1>2, <1>3, <1>9, <2>1, <2>2, <2>3 DEF Right
<1> QED BY <1>8, <1>9

\* A player goes to a room that may have to be loaded.
LEMMA GoesRight ==
    ASSUME ActiveAssumption, NEW T, NEW s, Right(s, T),
           NEW p \in Player, NEW r \in Room, NEW u \in Goes(s, p, r)
    PROVE  Right(u, T) /\ u.at = [s.at EXCEPT ![p] = r]
<1>1. PICK t \in Loaded(s, r), N \in SUBSET Unborn(s) : u = Enter(t, p, r, N)
  BY DEF Goes
<1>2. N \in SUBSET Mon
  BY <1>1 DEF Unborn
<1>3. Right(t, T) /\ t.at = s.at
  BY <1>1, RoomsRight
<1> DEFINE d == del_ply_rom(t, p)
<1>4. Right(d, T) /\ d.at = [t.at EXCEPT ![p] = Nil]
  BY <1>3, DelPlyRight
<1> HIDE DEF d
<1>5. Right(add_ply_rom(d, p, r, N), T) /\ add_ply_rom(d, p, r, N).at = [d.at EXCEPT ![p] = r]
  BY <1>2, <1>4, AddPlyRight
<1>6. u = add_ply_rom(d, p, r, N)
  BY <1>1 DEF Enter, d
<1>7. [[s.at EXCEPT ![p] = Nil] EXCEPT ![p] = r] = [s.at EXCEPT ![p] = r]
  <2>1. s.at \in [Player -> Room \cup {Nil}]
    BY DEF Right, Listed, State
  <2> QED BY <2>1
<1> QED BY <1>3, <1>4, <1>5, <1>6, <1>7

\* Who was in room p's room goes with him.
LEMMA AliasRight ==
    ASSUME ActiveAssumption, NEW T, NEW s, Right(s, T), NEW p \in Player,
           s.at[p] \in Room, NEW r \in Room, NEW t \in WithAlias(s, p, r)
    PROVE  Right(t, T) /\ t.at = s.at
<1>1. CASE t = s
  BY <1>1
<1>2. ASSUME NEW m \in In(s, s.at[p]), t = add_crt_rom(s, {m}, r)
      PROVE  Right(t, T) /\ t.at = s.at
  <2>1. Occupied(s, s.at[p])
    BY DEF Occupied
  <2>2. {m} \in SUBSET Mon /\ {m} \subseteq On(s) \cup T
    BY <2>1, <1>2, HereAre
  <2> QED BY <1>2, <2>2, AddCrtRight
<1> QED BY <1>1, <1>2 DEF WithAlias

\* Guards that are called are on the list when they are seen.
LEMMA AlarmRight ==
    ASSUME ActiveAssumption, NEW T, NEW s, Right(s, T),
           NEW r \in Room, NEW g \in Room, NEW u \in Alarm(s, r, g)
    PROVE  Right(u, T) /\ u.at = s.at
<1> DEFINE Called(t, G) ==
            add_crt_rom(IF Occupied(t, g) THEN t ELSE add_active(t, G), G, r)
<1>1. PICK l \in Loaded(s, g), N \in SUBSET Unborn(s) :
          \E G \in SUBSET In(add_permcrt_rom(l, g, N), g) :
             u = Called(add_permcrt_rom(l, g, N), G)
  BY DEF Alarm
<1> DEFINE t == add_permcrt_rom(l, g, N)
<1>2. N \in SUBSET Mon
  BY <1>1 DEF Unborn
<1>3. Right(l, T) /\ l.at = s.at
  BY RoomsRight
<1>4. Right(t, T) /\ t.at = s.at
  BY <1>2, <1>3, PermRight
<1>5. PICK G \in SUBSET In(t, g) : u = Called(t, G)
  BY <1>1
<1> HIDE DEF t
<1>6. /\ G \in SUBSET Mon /\ \A m \in G : t.where[m] = g
      /\ Occupied(t, g) => G \subseteq On(t) \cup T
  BY <1>4, <1>5, HereAre
<1>7. CASE Occupied(t, g)
  <2>1. u = add_crt_rom(t, G, r)
    BY <1>5, <1>7
  <2> QED BY <1>4, <1>6, <1>7, <2>1, AddCrtRight
<1>8. CASE ~Occupied(t, g)
  <2> DEFINE a == add_active(t, G)
  <2>1. Right(a, T) /\ a.at = t.at /\ On(a) = On(t) \cup G
    BY <1>4, <1>6, AddActiveRight
  <2>2. u = add_crt_rom(a, G, r)
    BY <1>5, <1>8
  <2> HIDE DEF a
  <2>3. G \subseteq On(a) \cup T
    BY <2>1
  <2> QED BY <1>4, <1>6, <2>1, <2>2, <2>3, AddCrtRight
<1> QED BY <1>7, <1>8

\* Whatever a trap does to a player.
LEMMA TrapsRight ==
    ASSUME ActiveAssumption, NEW T, NEW s, Right(s, T), NEW p \in Player,
           s.at[p] \in Room, NEW u \in check_traps(s, p)
    PROVE  Right(u, T)
<1>1. ASSUME NEW r \in Room, u \in Goes(s, p, r) PROVE Right(u, T)
  BY <1>1, GoesRight
<1>2. ASSUME NEW g \in Room, u \in Alarm(s, s.at[p], g) PROVE Right(u, T)
  BY <1>2, AlarmRight
<1>3. \/ u = s
      \/ \E r \in Room : u \in Goes(s, p, r)
      \/ \E g \in Room : u \in Alarm(s, s.at[p], g)
  BY DEF check_traps
<1> QED BY <1>1, <1>2, <1>3

-----------------------------------------------------------------------------
(* The invariant.                                                          *)

\* The state is right, and the cursor is at a tag of the list unless that
\* has been freed.
ActiveInv ==
    /\ ActiveTypeOK
    /\ Right(Now, torpid)
    /\ cp \in Mon => cp \in ToSet(active)

\* The cursor after a step that is no step of a pass, or one that set it.
CursorOn ==
    /\ cp' \in Mon \cup {Nil, Freed} /\ acted' \subseteq Mon
    /\ cp' \in Mon => cp' \in ToSet(active')

\* Now is made of the variables.
LEMMA NowIs ==
    /\ Now.where = where /\ Now.at = at /\ Now.active = active /\ On(Now) = ToSet(active)
    /\ Now'.where = where' /\ Now'.at = at' /\ Now'.active = active'
  BY DEF Now, On

\* What a handler leaves is what is there next.
LEMMA BecomesRight ==
    ASSUME ActiveAssumption, ActiveInv, NEW T \in SUBSET Mon,
           NEW s, Right(s, torpid \cup T), Becomes(s, T), CursorOn
    PROVE  ActiveInv'
<1>1. s \in State /\ Listed(s) /\ Seen(s, torpid \cup T)
  BY DEF Right, Listed
<1>2. /\ where' = s.where /\ at' = s.at /\ active' = s.active
      /\ torpid' = (torpid \cup T) \ ToSet(s.active)
  BY DEF Becomes
<1>3. Now' = s
  BY <1>1, <1>2 DEF Now, State
<1>4. torpid \subseteq Mon
  BY DEF ActiveInv, ActiveTypeOK
<1>5. ActiveTypeOK'
  <2>1. /\ where' \in [Mon -> Room \cup {"unborn", "gone"}]
        /\ at' \in [Player -> Room \cup {Nil}] /\ active' \in Seq(Mon)
    BY <1>1, <1>2 DEF State
  <2>2. torpid' \subseteq Mon
    BY <1>2, <1>4
  <2> QED BY <2>1, <2>2 DEF CursorOn, ActiveTypeOK
<1>6. Seen(s, torpid')
  BY <1>1, <1>2 DEF Seen, On
<1>7. Right(Now, torpid)'
  <2>1. Right(s, torpid')
    BY <1>1, <1>6 DEF Right
  <2> HIDE DEF Right, Now
  <2> QED BY <1>3, <2>1
<1> QED BY <1>5, <1>7 DEF ActiveInv, CursorOn

\* What is seen and not listed may be more than there is.
LEMMA NowRight ==
    ASSUME ActiveInv, NEW T
    PROVE  Right(Now, torpid \cup T)
  BY DEF ActiveInv, Right, Seen

\* Between two passes there is no cursor.
LEMMA IdleOn ==
    ASSUME ActiveAssumption, ActiveInv, Idle
    PROVE  CursorOn
  BY DEF ActiveAssumption, ActiveInv, ActiveTypeOK, Idle, CursorOn

\* The cursor can be put on any tag of the list that is left.
LEMMA GoesOnRight ==
    ASSUME ActiveAssumption, ActiveInv, NEW S \in SUBSET Mon, NEW s, NEW T, Right(s, T),
           active' = s.active,
           NEW c \in On(s) \cup {Nil, Freed}, GoesOn(c, S)
    PROVE  CursorOn
<1>1. On(s) \subseteq Mon /\ On(s) = ToSet(active')
  <2>1. s.active \in Seq(Mon)
    BY DEF Right, Listed, State
  <2> QED BY <2>1 DEF On, ToSet
<1>2. acted' \subseteq Mon
  BY DEF GoesOn, ActiveInv, ActiveTypeOK
<1>3. cp' = c /\ Nil \notin Mon /\ Freed \notin Mon
  BY DEF GoesOn, ActiveAssumption
<1> QED BY <1>1, <1>2, <1>3 DEF CursorOn

\* The next tag and the first are tags of the list.
LEMMA TagsAre ==
    ASSUME NEW s, NEW T, Right(s, T), NEW c
    PROVE  /\ NextTag(s, c) \in On(s) \cup {Nil, Freed}
           /\ First(s) \in On(s) \cup {Nil, Freed}
<1>1. s.active \in Seq(Mon)
  BY DEF Right, Listed, State
<1>2. First(s) \in On(s) \cup {Nil}
  <2>1. CASE s.active = <<>>
    BY <2>1 DEF First
  <2>2. CASE s.active # <<>>
    <3>1. Head(s.active) = s.active[1] /\ 1 \in DOMAIN s.active
      BY <1>1, <2>2
    <3> QED BY <2>2, <3>1 DEF First, On, ToSet
  <2> QED BY <2>1, <2>2
<1>3. NextTag(s, c) \in On(s) \cup {Nil, Freed}
  <2> DEFINE q == s.active
             i == CHOOSE i \in DOMAIN q : q[i] = c
  <2>1. CASE ~ \E k \in DOMAIN q : q[k] = c
    BY <2>1 DEF NextTag
  <2>2. CASE \E k \in DOMAIN q : q[k] = c
    <3>1. i \in DOMAIN q
      BY <2>2
    <3>2. NextTag(s, c) = IF i = Len(q) THEN Nil ELSE q[i + 1]
      BY <2>2 DEF NextTag
    <3> HIDE DEF i
    <3>3. i # Len(q) => i + 1 \in DOMAIN q
      BY <1>1, <3>1
    <3> QED BY <3>2, <3>3 DEF On, ToSet
  <2> QED BY <2>1, <2>2
<1> QED BY <1>2, <1>3

\* The cursor's monster is on the list, and so in a room.
LEMMA CursorIs ==
    ASSUME ActiveInv, cp \in Mon
    PROVE  cp \in On(Now) /\ where[cp] \in Room
<1>1. cp \in ToSet(active)
  BY DEF ActiveInv
<1>2. \A m \in On(Now) : Now.where[m] \in Room
  BY DEF ActiveInv, Right, Listed
<1> QED BY <1>1, <1>2, NowIs

-----------------------------------------------------------------------------
(* The steps between passes.                                               *)

\* A player comes in, goes on or leaves.
LEMMA StepPlayers ==
    ASSUME ActiveAssumption, ActiveInv, NEW p \in Player, NEW r \in Room,
           Login(p, r) \/ Quit(p) \/ Move(p, r)
    PROVE  ActiveInv'
<1>1. Right(Now, torpid \cup {}) /\ {} \in SUBSET Mon
  BY NowRight
<1>2. CursorOn
  BY IdleOn DEF Login, Quit, Move
<1>3. CASE Login(p, r)
  <2>1. PICK N \in SUBSET Unborn(Now) : Becomes(add_ply_rom(Now, p, r, N), {})
    BY <1>3 DEF Login
  <2>2. N \in SUBSET Mon
    BY DEF Unborn
  <2>3. Right(add_ply_rom(Now, p, r, N), torpid \cup {})
    BY <1>1, <2>2, AddPlyRight
  <2> QED BY <1>1, <1>2, <2>1, <2>3, BecomesRight
<1>4. CASE Quit(p)
  <2>1. Becomes(del_ply_rom(Now, p), {})
    BY <1>4 DEF Quit
  <2>2. Right(del_ply_rom(Now, p), torpid \cup {})
    BY <1>1, DelPlyRight
  <2> QED BY <1>1, <1>2, <2>1, <2>2, BecomesRight
<1>5. CASE Move(p, r)
  <2>1. PICK s \in WithAlias(Now, p, r) :
            \E t \in Goes(s, p, r), F \in SUBSET In(s, at[p]) :
                \E u \in check_traps(Follow(t, F, r), p) : Becomes(u, {})
    BY <1>5 DEF Move
  <2>2. PICK t \in Goes(s, p, r), F \in SUBSET In(s, at[p]) :
            \E u \in check_traps(Follow(t, F, r), p) : Becomes(u, {})
    BY <2>1
  <2>3. PICK u \in check_traps(Follow(t, F, r), p) : Becomes(u, {})
    BY <2>2
  <2>4. at[p] \in Room /\ Now.at[p] \in Room /\ at \in [Player -> Room \cup {Nil}]
    BY <1>5, NowIs DEF Move, ActiveInv, ActiveTypeOK
  <2>5. Right(s, torpid \cup {}) /\ s.at = Now.at
    BY <1>1, <2>4, AliasRight
  <2>6. Right(t, torpid \cup {}) /\ t.at = [s.at EXCEPT ![p] = r]
    BY <2>5, GoesRight
  <2>7. F \in SUBSET Mon
    BY DEF In
  <2>8. Right(Follow(t, F, r), torpid \cup {}) /\ Follow(t, F, r).at = t.at
    BY <2>6, <2>7, PlacedRight DEF Follow
  <2>9. Follow(t, F, r).at[p] \in Room
    BY <2>4, <2>5, <2>6, <2>8, NowIs
  <2>10. Right(u, torpid \cup {})
    <3> DEFINE f == Follow(t, F, r)
    <3>1. Right(f, torpid \cup {}) /\ f.at[p] \in Room /\ u \in check_traps(f, p)
      BY <2>3, <2>8, <2>9
    <3> HIDE DEF f
    <3> QED BY <3>1, TrapsRight
  <2> QED BY <1>1, <1>2, <2>3, <2>10, BecomesRight
<1> QED BY <1>3, <1>4, <1>5

\* A monster is made, flees or dies.
LEMMA StepMonsters ==
    ASSUME ActiveAssumption, ActiveInv, NEW m \in Mon, NEW r \in Room,
           Arrive(m, r) \/ AddClayForm(m, r) \/ Flees(m, r) \/ Killed(m)
    PROVE  ActiveInv'
<1>1. Right(Now, torpid \cup {}) /\ {} \in SUBSET Mon /\ {m} \in SUBSET Mon
  BY NowRight
<1>2. CursorOn
  BY IdleOn DEF Arrive, AddClayForm, Flees, Killed
<1>3. CASE Arrive(m, r)
  <2>1. Becomes(add_active(add_crt_rom(Now, {m}, r), {m}), {})
    BY <1>3 DEF Arrive
  <2>2. Right(add_active(add_crt_rom(Now, {m}, r), {m}), torpid \cup {})
    BY <1>1, PlacedRight
  <2> QED BY <1>1, <1>2, <2>1, <2>2, BecomesRight
<1>4. CASE AddClayForm(m, r)
  <2>1. Becomes(add_crt_rom(Now, {m}, r), {m})
    BY <1>4 DEF AddClayForm
  <2>2. Right(Now, torpid \cup {m}) /\ {m} \subseteq On(Now) \cup (torpid \cup {m})
    BY NowRight
  <2>3. Right(add_crt_rom(Now, {m}, r), torpid \cup {m})
    BY <1>1, <2>2, AddCrtRight
  <2> QED BY <1>1, <1>2, <2>1, <2>3, BecomesRight
<1>5. CASE Flees(m, r)
  <2>1. /\ Becomes(add_crt_rom(Now, {m}, r), {})
        /\ Now.where[m] \in Room /\ Occupied(Now, Now.where[m])
    BY <1>5, NowIs DEF Flees
  <2>2. {m} \subseteq On(Now) \cup (torpid \cup {})
    BY <1>1, <2>1 DEF Right, Seen
  <2>3. Right(add_crt_rom(Now, {m}, r), torpid \cup {})
    BY <1>1, <2>2, AddCrtRight
  <2> QED BY <1>1, <1>2, <2>1, <2>3, BecomesRight
<1>6. CASE Killed(m)
  <2>1. Becomes(free_crt(Now, {m}), {})
    BY <1>6 DEF Killed
  <2>2. Right(free_crt(Now, {m}), torpid \cup {})
    BY <1>1, FreedRight
  <2> QED BY <1>1, <1>2, <2>1, <2>2, BecomesRight
<1> QED BY <1>3, <1>4, <1>5, <1>6

\* A room is purged.
LEMMA StepPurge ==
    ASSUME ActiveAssumption, ActiveInv, NEW r \in Room, Purge(r)
    PROVE  ActiveInv'
<1>1. Right(Now, torpid \cup {}) /\ {} \in SUBSET Mon
  BY NowRight
<1>2. CursorOn
  BY IdleOn DEF Purge
<1>3. Becomes(free_crt(Now, In(Now, r)), {}) /\ In(Now, r) \in SUBSET Mon
  BY DEF Purge, In
<1>4. Right(free_crt(Now, In(Now, r)), torpid \cup {})
  BY <1>1, <1>3, FreedRight
<1> QED BY <1>1, <1>2, <1>3, <1>4, BecomesRight

\* A room is loaded, or loaded again.
LEMMA StepRooms ==
    ASSUME ActiveAssumption, ActiveInv, NEW r \in Room, NEW M \in SUBSET Mon,
           (\E R \in SUBSET Room : LoadRoom(r, M, R)) \/ (\E N \in SUBSET Mon : ReloadRoom(r, M, N))
    PROVE  ActiveInv'
<1>2. CursorOn
  BY IdleOn DEF LoadRoom, ReloadRoom
<1>3. ASSUME NEW R \in SUBSET Room, LoadRoom(r, M, R) PROVE ActiveInv'
  <2> DEFINE s == free_rom(Now, R)
  <2>1. Right(Now, torpid \cup {}) /\ {} \in SUBSET Mon
    BY NowRight
  <2>2. Becomes(add_crt_rom(s, M, r), {}) /\ ~Occupied(Now, r)
    BY <1>3 DEF LoadRoom
  <2>3. Right(s, torpid \cup {}) /\ s.at = Now.at
    BY <2>1, FreedRight DEF free_rom
  <2> HIDE DEF s
  <2>4. ~Occupied(s, r)
    BY <2>2, <2>3 DEF Occupied
  <2>5. Right(add_crt_rom(s, M, r), torpid \cup {})
    BY <2>3, <2>4, AddCrtRight
  <2> QED BY <1>2, <2>1, <2>2, <2>5, BecomesRight
<1>4. ASSUME NEW N \in SUBSET Mon, ReloadRoom(r, M, N) PROVE ActiveInv'
  <2> DEFINE T == IF Occupied(Now, r) THEN M ELSE {}
             s == IF M \cup N = {} THEN Now ELSE free_rom(Now, {r})
             t == add_crt_rom(s, M, r)
  <2>1. Becomes(add_permcrt_rom(t, r, N), T)
    BY <1>4 DEF ReloadRoom
  <2>2. Right(Now, torpid \cup T) /\ T \in SUBSET Mon
    BY NowRight
  <2>3. Right(s, torpid \cup T) /\ s.at = Now.at
    <3>1. Right(free_rom(Now, {r}), torpid \cup T) /\ free_rom(Now, {r}).at = Now.at
      <4> HIDE DEF T
      <4> QED BY <2>2, FreedRight DEF free_rom
    <3> HIDE DEF T
    <3> QED BY <2>2, <3>1
  <2> HIDE DEF s
  <2>4. Occupied(s, r) => M \subseteq On(s) \cup (torpid \cup T)
    BY <2>3 DEF Occupied
  <2> HIDE DEF T
  <2>5. Right(t, torpid \cup T)
    BY <2>3, <2>4, AddCrtRight
  <2> HIDE DEF t
  <2>6. Right(add_permcrt_rom(t, r, N), torpid \cup T)
    BY <2>5, PermRight
  <2> QED BY <1>2, <2>1, <2>2, <2>6, BecomesRight
<1> QED BY <1>3, <1>4

-----------------------------------------------------------------------------
(* The steps of a pass.                                                    *)

\* A step that changes nothing but the cursor.
LEMMA CursorStep ==
    ASSUME ActiveAssumption, ActiveInv, UNCHANGED <<where, at, active, torpid>>, CursorOn
    PROVE  ActiveInv'
<1>1. Now' = Now
  BY DEF Now
<1>2. Right(Now, torpid)'
  <2>1. Right(Now, torpid)
    BY DEF ActiveInv
  <2> HIDE DEF Right, Now
  <2> QED BY <1>1, <2>1
<1>3. ActiveTypeOK'
  BY DEF ActiveInv, ActiveTypeOK, CursorOn
<1> QED BY <1>2, <1>3 DEF ActiveInv, CursorOn

\* The pass looks at a monster that changes nothing.
LEMMA StepLooks ==
    ASSUME ActiveAssumption, ActiveInv,
           StartPass \/ NotDue \/ Loiter \/ AnyTag
    PROVE  ActiveInv'
<1>0. Right(Now, torpid) /\ active \in Seq(Mon) /\ acted \subseteq Mon
  BY DEF ActiveInv, ActiveTypeOK
<1>1. UNCHANGED <<where, at, active, torpid>>
  BY DEF StartPass, NotDue, Loiter, AnyTag
<1>2. active' = Now.active
  BY <1>1, NowIs
<1>3. CASE StartPass
  <2>1. Head(active) = active[1] /\ 1 \in DOMAIN active /\ ToSet(active) \subseteq Mon
    BY <1>0, <1>3 DEF StartPass, ToSet
  <2>2. cp' \in ToSet(active) /\ acted' \subseteq ToSet(active)
    BY <1>3, <2>1 DEF StartPass, ToSet
  <2>3. CursorOn
    BY <1>1, <2>1, <2>2 DEF CursorOn
  <2> QED BY <1>1, <2>3, CursorStep
<1>4. CASE NotDue \/ Loiter
  <2>1. \/ GoesOn(NextTag(Now, cp), {})
        \/ cp \in Mon /\ GoesOn(NextTag(Now, cp), {cp})
    <3>1. CASE NotDue
      BY <3>1 DEF NotDue
    <3>2. CASE Loiter
      BY <3>2 DEF Loiter, Due
    <3> QED BY <1>4, <3>1, <3>2
  <2>2. NextTag(Now, cp) \in On(Now) \cup {Nil, Freed}
    BY <1>0, TagsAre
  <2>3. CursorOn
    <3>1. CASE GoesOn(NextTag(Now, cp), {})
      <4>1. {} \in SUBSET Mon
        OBVIOUS
      <4> QED BY <1>0, <1>2, <2>2, <3>1, <4>1, GoesOnRight
    <3>2. CASE cp \in Mon /\ GoesOn(NextTag(Now, cp), {cp})
      <4>1. {cp} \in SUBSET Mon
        BY <3>2
      <4> QED BY <1>0, <1>2, <2>2, <3>2, <4>1, GoesOnRight
    <3> QED BY <2>1, <3>1, <3>2
  <2> QED BY <1>1, <2>3, CursorStep
<1>5. CASE AnyTag
  <2>1. PICK c \in ToSet(active) \cup {Nil} : GoesOn(c, {})
    BY <1>5 DEF AnyTag
  <2>2. c \in On(Now) \cup {Nil, Freed} /\ {} \in SUBSET Mon
    BY NowIs
  <2>3. CursorOn
    BY <1>0, <1>2, <2>1, <2>2, GoesOnRight
  <2> QED BY <1>1, <2>3, CursorStep
<1> QED BY <1>3, <1>4, <1>5

\* A step that leaves state s and puts the cursor on c.
LEMMA PassStep ==
    ASSUME ActiveAssumption, ActiveInv, NEW s, Right(s, torpid \cup {}), Becomes(s, {}),
           NEW S \in SUBSET Mon, NEW c \in On(s) \cup {Nil, Freed}, GoesOn(c, S)
    PROVE  ActiveInv'
<1>1. active' = s.active /\ {} \in SUBSET Mon
  BY DEF Becomes
<1>2. CursorOn
  BY <1>1, GoesOnRight
<1> QED BY <1>1, <1>2, BecomesRight

\* The monster is delisted, wanders off or leaves.
LEMMA StepMoves ==
    ASSUME ActiveAssumption, ActiveInv, NobodyThere \/ Wander \/ Leave
    PROVE  ActiveInv'
<1>1. Right(Now, torpid \cup {}) /\ {} \in SUBSET Mon
  BY NowRight
<1>2. cp \in Mon /\ {cp} \in SUBSET Mon
  BY DEF NobodyThere, Wander, Leave, Due
<1>3. cp \in On(Now) /\ where[cp] \in Room
  BY <1>2, CursorIs
<1>4. CASE NobodyThere
  <2> DEFINE s == del_active(Now, {cp})
  <2>1. Becomes(s, {}) /\ GoesOn(First(s), {}) /\ ~Occupied(Now, Now.where[cp])
    BY <1>4, NowIs DEF NobodyThere, Delist
  <2>2. /\ Now \in State /\ IsInjective(Now.active)
        /\ \A m \in On(Now) : Now.where[m] \in Room
        /\ Seen(Now, torpid \cup {})
    BY <1>1 DEF Right, Listed
  <2>3. /\ s \in State /\ s.where = Now.where /\ s.at = Now.at
        /\ On(s) = On(Now) \ {cp} /\ IsInjective(s.active)
    BY <2>2, DelActiveIs
  <2> HIDE DEF s
  <2>4. Right(s, torpid \cup {})
    <3>1. Listed(s)
      BY <2>2, <2>3 DEF Listed
    <3>2. Seen(s, torpid \cup {})
      BY <2>1, <2>2, <2>3 DEF Seen, Occupied
    <3> QED BY <3>1, <3>2 DEF Right
  <2>5. First(s) \in On(s) \cup {Nil, Freed}
    BY <2>4, TagsAre
  <2> QED BY <1>1, <2>1, <2>4, <2>5, PassStep
<1>5. CASE Wander
  <2>1. PICK r \in Room : Becomes(add_crt_rom(Now, {cp}, r), {})
    BY <1>5 DEF Wander
  <2> DEFINE s == add_crt_rom(Now, {cp}, r)
  <2>2. Right(s, torpid \cup {}) /\ On(s) = On(Now)
    BY <1>1, <1>2, <1>3, AddCrtRight
  <2>3. GoesOn(NextTag(Now, cp), {cp})
    BY <1>5 DEF Wander
  <2>4. NextTag(Now, cp) \in On(s) \cup {Nil, Freed}
    BY <1>1, <2>2, TagsAre
  <2> HIDE DEF s
  <2>5. Becomes(s, {})
    BY <2>1 DEF s
  <2> QED BY <1>2, <2>2, <2>3, <2>4, <2>5, PassStep
<1>6. CASE Leave
  <2> DEFINE s == free_crt(Now, {cp})
  <2>1. Becomes(s, {}) /\ GoesOn(First(s), {cp})
    BY <1>6 DEF Leave
  <2>2. Right(s, torpid \cup {})
    BY <1>1, <1>2, FreedRight
  <2> HIDE DEF s
  <2>3. First(s) \in On(s) \cup {Nil, Freed}
    BY <2>2, TagsAre
  <2> QED BY <1>2, <2>1, <2>2, <2>3, PassStep
<1> QED BY <1>4, <1>5, <1>6

\* The monster may have been driven to another room; it is on the list.
LEMMA DrivenRight ==
    ASSUME ActiveAssumption, ActiveInv, Due, NEW s \in Driven
    PROVE  Right(s, torpid \cup {}) /\ s.at = at
<1>1. Right(Now, torpid \cup {}) /\ cp \in Mon /\ {cp} \in SUBSET Mon
  BY NowRight DEF Due
<1>2. cp \in On(Now)
  BY <1>1, CursorIs
<1>3. CASE s = Now
  BY <1>1, <1>3, NowIs
<1>4. ASSUME NEW r \in Room, s = add_crt_rom(Now, {cp}, r)
      PROVE  Right(s, torpid \cup {}) /\ s.at = at
  BY <1>1, <1>2, <1>4, AddCrtRight, NowIs
<1> QED BY <1>3, <1>4 DEF Driven

\* However a fight ends.
LEMMA DecidedRight ==
    ASSUME ActiveAssumption, ActiveInv, Due, NEW s, Right(s, torpid \cup {}), s.at = at,
           NEW t \in Decided(s)
    PROVE  Right(t, torpid \cup {})
<1> DEFINE T == torpid \cup {}
           here == {p \in Player : at[p] = where[cp]}
           Fled(p) == UNION {UNION {Goes(u, p, r) : u \in WithAlias(s, p, r)} : r \in Room}
<1>1. where[cp] \in Room /\ Limbo \in Room
  BY CursorIs DEF Due, ActiveAssumption
<1> HIDE DEF T
<1>2. Right(s, T)
  BY DEF T
<1>3. ASSUME NEW m \in In(Now, where[cp]), t = free_crt(s, {m}) PROVE Right(t, T)
  <2>1. {m} \in SUBSET Mon
    BY DEF In
  <2> QED BY <1>2, <1>3, <2>1, FreedRight
<1>4. ASSUME NEW p \in here, NEW u \in Loaded(del_ply_rom(s, p), Limbo),
             t = add_ply_rom(u, p, Limbo, {})
      PROVE  Right(t, T)
  <2>1. Right(del_ply_rom(s, p), T)
    BY <1>2, DelPlyRight
  <2>2. Right(u, T)
    BY <2>1, RoomsRight
  <2>3. {} \in SUBSET Mon
    OBVIOUS
  <2> QED BY <1>1, <1>4, <2>2, <2>3, AddPlyRight
<1>5. ASSUME NEW p \in here, NEW f \in Fled(p), t \in check_traps(f, p) PROVE Right(t, T)
  <2>1. PICK r \in Room : \E u \in WithAlias(s, p, r) : f \in Goes(u, p, r)
    BY <1>5
  <2>2. PICK u \in WithAlias(s, p, r) : f \in Goes(u, p, r)
    BY <2>1
  <2>3. p \in Player /\ s.at[p] \in Room
    BY <1>1
  <2>4. Right(u, T) /\ u.at = s.at
    BY <1>2, <2>3, AliasRight
  <2>5. Right(f, T) /\ f.at = [u.at EXCEPT ![p] = r]
    BY <2>2, <2>3, <2>4, GoesRight
  <2>6. f.at[p] \in Room
    <3>1. u.at \in [Player -> Room \cup {Nil}]
      BY <2>4 DEF Right, Listed, State
    <3> QED BY <2>3, <2>5, <3>1
  <2> QED BY <1>5, <2>3, <2>5, <2>6, TrapsRight
<1>6. \/ t = s
      \/ \E m \in In(Now, where[cp]) : t = free_crt(s, {m})
      \/ \E p \in here : \E u \in Loaded(del_ply_rom(s, p), Limbo) :
             t = add_ply_rom(u, p, Limbo, {})
      \/ \E p \in here : \E f \in Fled(p) : t \in check_traps(f, p)
  <2>1. Decided(s) =
           {s} \cup {free_crt(s, {m}) : m \in In(Now, where[cp])}
               \cup (UNION {{add_ply_rom(u, p, Limbo, {}) : u \in Loaded(del_ply_rom(s, p), Limbo)} :
                            p \in here})
               \cup (UNION {UNION {check_traps(f, p) : f \in Fled(p)} : p \in here})
    BY DEF Decided
  <2> HIDE DEF here, Fled
  <2> QED BY <2>1
<1> HIDE DEF here, Fled
<1>7. Right(t, T)
  BY <1>2, <1>3, <1>4, <1>5, <1>6
<1> QED BY <1>7 DEF T

\* It fights.
LEMMA StepFights ==
    ASSUME ActiveAssumption, ActiveInv, CombatDecided \/ CombatGoesOn
    PROVE  ActiveInv'
<1>1. Due /\ {cp} \in SUBSET Mon
  BY DEF CombatDecided, CombatGoesOn, Due
<1>2. CASE CombatDecided
  <2>1. PICK s \in Driven : \E t \in Decided(s) :
            Becomes(t, {}) /\ GoesOn(First(t), {cp})
    BY <1>2 DEF CombatDecided
  <2>2. PICK t \in Decided(s) : Becomes(t, {}) /\ GoesOn(First(t), {cp})
    BY <2>1
  <2>3. Right(s, torpid \cup {}) /\ s.at = at
    BY <1>1, DrivenRight
  <2>4. Right(t, torpid \cup {})
    BY <1>1, <2>3, DecidedRight
  <2>5. First(t) \in On(t) \cup {Nil, Freed}
    BY <2>4, TagsAre
  <2> QED BY <1>1, <2>2, <2>4, <2>5, PassStep
<1>3. CASE CombatGoesOn
  <2>1. PICK s \in Driven : Becomes(s, {}) /\ GoesOn(NextTag(s, cp), {cp})
    BY <1>3 DEF CombatGoesOn
  <2>2. Right(s, torpid \cup {})
    BY <1>1, DrivenRight
  <2>3. NextTag(s, cp) \in On(s) \cup {Nil, Freed}
    BY <2>2, TagsAre
  <2> QED BY <1>1, <2>1, <2>2, <2>3, PassStep
<1> QED BY <1>2, <1>3

\* It teleports a player away.
LEMMA StepTeleport ==
    ASSUME ActiveAssumption, ActiveInv, CastTeleport
    PROVE  ActiveInv'
<1>1. Right(Now, torpid \cup {}) /\ {cp} \in SUBSET Mon
  BY NowRight DEF CastTeleport, Due
<1>2. PICK p \in Player, r \in Room : \E s \in Goes(Now, p, r) :
          LET left == del_ply_rom(Now, p)
              next == IF cp \in ToSet(left.active) THEN NextTag(s, cp) ELSE Freed
          IN Becomes(s, {}) /\ \E c \in {next, First(s)} : GoesOn(c, {cp})
  BY DEF CastTeleport
<1>3. PICK s \in Goes(Now, p, r) :
          Becomes(s, {}) /\ \E c \in {NextTag(s, cp), Freed, First(s)} : GoesOn(c, {cp})
  BY <1>2
<1>4. Right(s, torpid \cup {})
  BY <1>1, GoesRight
<1>5. PICK c \in {NextTag(s, cp), Freed, First(s)} : GoesOn(c, {cp})
  BY <1>3
<1>6. c \in On(s) \cup {Nil, Freed}
  BY <1>4, TagsAre
<1> QED BY <1>1, <1>3, <1>4, <1>5, <1>6, PassStep

\* With an empty list and no player every state is right.
LEMMA EmptyRight ==
    ASSUME ActiveAssumption, NEW s \in State, s.active = <<>>, \A p \in Player : s.at[p] = Nil
    PROVE  Right(s, {})
<1>1. On(s) = {}
  BY DEF On, ToSet
<1>2. Listed(s)
  BY <1>1 DEF Listed, IsInjective
<1>3. Nil \notin Room
  BY DEF ActiveAssumption
<1>4. Seen(s, {})
  BY <1>3 DEF Seen, Occupied
<1> QED BY <1>2, <1>4 DEF Right

\* So the first state is.
LEMMA ActiveInitRight == ActiveAssumption /\ ActiveInit => ActiveInv
<1> SUFFICES ASSUME ActiveAssumption, ActiveInit PROVE ActiveInv
  OBVIOUS
<1>1. ActiveTypeOK /\ cp \notin Mon
  BY DEF ActiveInit, ActiveTypeOK, ActiveAssumption
<1>2. Now \in State /\ Now.active = <<>> /\ \A p \in Player : Now.at[p] = Nil
  BY DEF ActiveInit, Now, State
<1>3. Right(Now, {}) /\ torpid = {}
  BY <1>2, EmptyRight DEF ActiveInit
<1> QED BY <1>1, <1>3 DEF ActiveInv

\* And so is the state after a restart.
LEMMA StepRestart ==
    ASSUME ActiveAssumption, ActiveInv, ActiveCrash
    PROVE  ActiveInv'
<1>1. ActiveTypeOK' /\ cp' \notin Mon
  BY DEF ActiveCrash, ActiveTypeOK, ActiveAssumption, ActiveInv
<1>2. Now' \in State /\ Now'.active = <<>> /\ \A p \in Player : Now'.at[p] = Nil
  BY <1>1 DEF ActiveCrash, Now, State, ActiveTypeOK
<1>3. Right(Now', {}) /\ torpid' = {}
  BY <1>2, EmptyRight DEF ActiveCrash
<1>4. Right(Now, torpid)'
  <2> HIDE DEF Right, Now
  <2> QED BY <1>3
<1> QED BY <1>1, <1>4 DEF ActiveInv

\* Every step keeps the invariant.
LEMMA ActiveInductive == ActiveAssumption /\ ActiveInv /\ [ActiveNext]_activevars => ActiveInv'
<1> SUFFICES ASSUME ActiveAssumption, ActiveInv, [ActiveNext]_activevars PROVE ActiveInv'
  OBVIOUS
<1>1. CASE UNCHANGED activevars
  <2>1. UNCHANGED <<where, at, active, torpid>> /\ CursorOn
    BY <1>1 DEF activevars, CursorOn, ActiveInv, ActiveTypeOK
  <2> QED BY <2>1, CursorStep
<1>2. CASE \E p \in Player, r \in Room : Login(p, r) \/ Move(p, r)
  BY <1>2, StepPlayers
<1>3. CASE \E p \in Player : Quit(p)
  <2>1. Limbo \in Room
    BY DEF ActiveAssumption
  <2> QED BY <1>3, <2>1, StepPlayers
<1>4. CASE \E m \in Mon, r \in Room : Arrive(m, r) \/ AddClayForm(m, r) \/ Flees(m, r)
  BY <1>4, StepMonsters
<1>5. CASE \E m \in Mon : Killed(m)
  <2>1. Limbo \in Room
    BY DEF ActiveAssumption
  <2> QED BY <1>5, <2>1, StepMonsters
<1>6. CASE \E r \in Room : Purge(r)
  BY <1>6, StepPurge
<1>7. CASE \E r \in Room, M \in SUBSET Mon :
              \/ \E R \in SUBSET Room : LoadRoom(r, M, R)
              \/ \E N \in SUBSET Mon : ReloadRoom(r, M, N)
  BY <1>7, StepRooms
<1>8. CASE StartPass
  BY <1>8, StepLooks
<1>9. CASE Pass
  BY <1>9, StepLooks, StepMoves, StepFights, StepTeleport DEF Pass
<1>10. CASE ActiveCrash
  BY <1>10, StepRestart
<1> QED BY <1>1, <1>2, <1>3, <1>4, <1>5, <1>6, <1>7, <1>8, <1>9, <1>10 DEF ActiveNext

\* It holds always.
LEMMA AlwaysActiveInv == ActiveSpec => []ActiveInv
<1>1. ActiveInit => ActiveInv
  BY ActiveInitRight, ActiveAssumption
<1>2. ActiveInv /\ [ActiveNext]_activevars => ActiveInv'
  BY ActiveInductive, ActiveAssumption
<1> QED BY <1>1, <1>2, PTL DEF ActiveSpec

\* Every monster on the list is alive, in a room and on it once, also between
\* the turns of a pass.
THEOREM ActiveSoundHolds == ActiveSpec => []ActiveSound
<1>1. ActiveInv => ActiveSound
  <2> SUFFICES ASSUME ActiveInv PROVE ActiveSound
    OBVIOUS
  <2>1. ActiveTypeOK /\ IsInjective(Now.active) /\ \A m \in On(Now) : Now.where[m] \in Room
    BY DEF ActiveInv, Right, Listed
  <2> QED BY <2>1, NowIs DEF ActiveSound
<1> QED BY <1>1, AlwaysActiveInv, PTL

\* Every monster in a room with players is on the list, but for those that a
\* handler without add_active put before them.
THEOREM SeenIsActiveHolds == ActiveSpec => []SeenIsActive
<1>1. ActiveInv => SeenIsActive
  <2> SUFFICES ASSUME ActiveInv PROVE SeenIsActive
    OBVIOUS
  <2>1. Seen(Now, torpid)
    BY DEF ActiveInv, Right
  <2> QED BY <2>1, NowIs DEF Seen, SeenIsActive
<1> QED BY <1>1, AlwaysActiveInv, PTL

-----------------------------------------------------------------------------
(* Why a pass ends.                                                        *)

\* Which tag of the list q is monster c's.
Place(q, c) == CHOOSE i \in DOMAIN q : q[i] = c

\* A step ends the pass, or marks one more monster as having acted, or lets
\* those be and finds back from a freed tag, shortens the list, or goes one
\* tag further in it.  Mon is finite, so no pass does this for ever.
StepDescends ==
    \/ cp' = Nil
    \/ acted \subseteq acted' /\ acted # acted'
    \/ /\ acted' = acted
       /\ cp' \in Mon
       /\ \/ cp = Freed
          \/ ToSet(active') \subseteq ToSet(active) /\ cp \in ToSet(active) \ ToSet(active')
          \/ active' = active /\ Place(active, cp') = Place(active, cp) + 1

\* Every step in the middle of a pass is such a step.
PassDescends == [][cp # Nil => StepDescends]_activevars

\* Only after a teleport does the cursor point to a freed tag.
FreedByTeleport == [][cp' = Freed => CastTeleport]_activevars

\* The tag after one of the list is the next of the list, or there is none.
LEMMA NextIs ==
    ASSUME NEW s, Listed(s), NEW c \in On(s)
    PROVE  \/ NextTag(s, c) = Nil
           \/ /\ NextTag(s, c) \in On(s)
              /\ Place(s.active, NextTag(s, c)) = Place(s.active, c) + 1
<1> DEFINE q == s.active
           i == CHOOSE i \in DOMAIN q : q[i] = c
<1>1. q \in Seq(Mon) /\ IsInjective(q)
  BY DEF Listed, State
<1>2. \E k \in DOMAIN q : q[k] = c
  BY DEF On, ToSet
<1>3. i \in DOMAIN q /\ i = Place(q, c)
  BY <1>2 DEF Place
<1>4. NextTag(s, c) = IF i = Len(q) THEN Nil ELSE q[i + 1]
  BY <1>2 DEF NextTag
<1> HIDE DEF i
<1>5. ASSUME i # Len(q) PROVE q[i + 1] \in On(s) /\ Place(q, q[i + 1]) = i + 1
  <2>1. i + 1 \in DOMAIN q
    BY <1>1, <1>3, <1>5
  <2>2. \A k \in DOMAIN q : q[k] = q[i + 1] => k = i + 1
    BY <1>1, <2>1 DEF IsInjective
  <2> QED BY <2>1, <2>2 DEF On, ToSet, Place
<1> QED BY <1>3, <1>4, <1>5

\* Monsters are on the list.
LEMMA OnAreMon == ASSUME NEW s, Listed(s) PROVE On(s) \subseteq Mon
<1>1. s.active \in Seq(Mon)
  BY DEF Listed, State
<1> QED BY <1>1 DEF On, ToSet

\* The first is a tag of the list, or there is none.
LEMMA FirstIs ==
    ASSUME NEW s, s.active \in Seq(Mon)
    PROVE  First(s) \in On(s) \cup {Nil}
<1>1. CASE s.active = <<>>
  BY <1>1 DEF First
<1>2. CASE s.active # <<>>
  <2>1. Head(s.active) = s.active[1] /\ 1 \in DOMAIN s.active
    BY <1>2
  <2> QED BY <1>2, <2>1 DEF First, On, ToSet
<1> QED BY <1>1, <1>2

\* Whoever's turn has come has acted when it is over.
LEMMA DueDescends ==
    ASSUME ActiveInv, Due, NEW c, GoesOn(c, {cp})
    PROVE  StepDescends
  BY DEF Due, GoesOn, StepDescends

\* The step of a pass that looks at a tag which is on the list.
LEMMA TagDescends ==
    ASSUME ActiveAssumption, ActiveInv, NobodyThere \/ NotDue
    PROVE  StepDescends /\ cp' # Freed
<1>1. Right(Now, torpid) /\ Listed(Now) /\ acted \subseteq Mon /\ On(Now) \subseteq Mon
  BY OnAreMon DEF ActiveInv, ActiveTypeOK, Right
<1>2. cp \in On(Now) /\ {cp} \in SUBSET Mon
  BY <1>1, CursorIs DEF NobodyThere, NotDue
<1>3. Nil # Freed /\ Nil \notin Mon /\ Freed \notin Mon
  BY DEF ActiveAssumption
<1>4. CASE NobodyThere
  <2> DEFINE s == Delist(Now, cp)
  <2>1. On(s) = On(Now) \ {cp} /\ s \in State /\ IsInjective(s.active)
    BY <1>1, DelActiveIs DEF Delist, Listed
  <2>2. active' = s.active /\ GoesOn(First(s), {})
    BY <1>4 DEF NobodyThere, Becomes
  <2> HIDE DEF s
  <2>3. s.active \in Seq(Mon)
    BY <2>1 DEF State
  <2>4. First(s) \in On(s) \cup {Nil}
    BY <2>3, FirstIs
  <2>5. cp' = First(s) /\ (cp' # Nil => acted' = acted)
    BY <2>2 DEF GoesOn
  <2>6. ToSet(active') = ToSet(active) \ {cp} /\ cp \in ToSet(active)
    BY <1>2, <2>1, <2>2, NowIs DEF On
  <2> QED BY <1>1, <1>3, <2>1, <2>4, <2>5, <2>6 DEF StepDescends
<1>5. CASE NotDue
  <2>1. active' = active /\ GoesOn(NextTag(Now, cp), {}) /\ Now.active = active
    BY <1>5, NowIs DEF NotDue
  <2>2. cp' = NextTag(Now, cp) /\ (cp' # Nil => acted' = acted)
    BY <2>1 DEF GoesOn
  <2>3. cp' = Nil \/ (cp' \in On(Now) /\ Place(active, cp') = Place(active, cp) + 1)
    BY <1>1, <1>2, <2>1, <2>2, NextIs
  <2> QED BY <1>1, <1>3, <2>1, <2>2, <2>3 DEF StepDescends
<1> QED BY <1>4, <1>5

\* What was undefined is a tag of the list, or the end.
LEMMA AnyDescends ==
    ASSUME ActiveAssumption, ActiveInv, AnyTag
    PROVE  StepDescends /\ cp' # Freed
<1>1. PICK c \in ToSet(active) \cup {Nil} : GoesOn(c, {})
  BY DEF AnyTag
<1>2. ToSet(active) \subseteq Mon
  BY NowIs, OnAreMon DEF ActiveInv, Right
<1>3. cp' = c /\ (c # Nil => acted' = acted) /\ cp = Freed
  BY <1>1 DEF GoesOn, AnyTag
<1> QED BY <1>2, <1>3 DEF StepDescends, ActiveAssumption

\* A step is a step of a pass, or leaves the cursor where no pass is under
\* way, or begins a pass, or ends the process.
LEMMA Steps ==
    ASSUME ActiveNext
    PROVE  Pass \/ Idle \/ StartPass \/ ActiveCrash
<1>1. (\E p \in Player, r \in Room : Login(p, r) \/ Move(p, r)) => Idle
  BY DEF Login, Move
<1>2. (\E p \in Player : Quit(p)) => Idle
  BY DEF Quit
<1>3. (\E m \in Mon, r \in Room : Arrive(m, r) \/ AddClayForm(m, r) \/ Flees(m, r)) => Idle
  BY DEF Arrive, AddClayForm, Flees
<1>4. (\E m \in Mon : Killed(m)) => Idle
  BY DEF Killed
<1>5. (\E r \in Room : Purge(r)) => Idle
  BY DEF Purge
<1>6. (\E r \in Room, M \in SUBSET Mon :
            \/ \E R \in SUBSET Room : LoadRoom(r, M, R)
            \/ \E N \in SUBSET Mon : ReloadRoom(r, M, N)) => Idle
  BY DEF LoadRoom, ReloadRoom
<1> QED BY <1>1, <1>2, <1>3, <1>4, <1>5, <1>6 DEF ActiveNext

\* A pass ends, or every step of it brings its end nearer, although it begins
\* again at the top after each death (update_active).
THEOREM PassDescendsHolds == ActiveSpec => PassDescends
<1>1. ActiveInv /\ [ActiveNext]_activevars => [cp # Nil => StepDescends]_activevars
  <2> SUFFICES ASSUME ActiveInv, ActiveNext, cp # Nil PROVE StepDescends
    OBVIOUS
  <2>1. CASE cp' = Nil
    BY <2>1 DEF StepDescends
  <2>2. CASE NobodyThere \/ NotDue
    BY <2>2, TagDescends, ActiveAssumption
  <2>3. CASE AnyTag
    BY <2>3, AnyDescends, ActiveAssumption
  <2>4. CASE Loiter \/ Wander \/ Leave \/ CombatDecided \/ CombatGoesOn \/ CastTeleport
    <3>1. Due /\ \E c : GoesOn(c, {cp})
      BY <2>4 DEF Loiter, Wander, Leave, CombatDecided, CombatGoesOn, CastTeleport
    <3> QED BY <3>1, DueDescends
  <2>5. ~Idle /\ ~StartPass /\ (ActiveCrash => cp' = Nil)
    BY DEF Idle, StartPass, ActiveCrash
  <2> QED BY <2>1, <2>2, <2>3, <2>4, <2>5, Steps DEF Pass
<1> QED BY <1>1, AlwaysActiveInv, PTL DEF ActiveSpec, PassDescends

\* A fight may drive the monster away, but not off the list.
LEMMA DrivenOn ==
    ASSUME ActiveAssumption, ActiveInv, Due, NEW s \in Driven
    PROVE  Listed(s) /\ cp \in On(s)
<1>1. Right(Now, torpid \cup {}) /\ cp \in Mon /\ {cp} \in SUBSET Mon
  BY NowRight DEF Due
<1>2. cp \in On(Now)
  BY <1>1, CursorIs
<1>3. CASE s = Now
  BY <1>1, <1>2, <1>3 DEF Right
<1>4. ASSUME NEW r \in Room, s = add_crt_rom(Now, {cp}, r) PROVE Listed(s) /\ cp \in On(s)
  <2>1. {cp} \subseteq On(Now) \cup (torpid \cup {})
    BY <1>2
  <2> QED BY <1>1, <1>2, <1>4, <2>1, AddCrtRight DEF Right
<1> QED BY <1>3, <1>4 DEF Driven

\* The cursor of update_active is left in a freed tag by a monster that
\* teleports a player away, and by nothing else: after a death or a decided
\* fight it goes back to the top, and who flees or wanders keeps its tag.
THEOREM FreedByTeleportHolds == ActiveSpec => FreedByTeleport
<1>1. ActiveInv /\ [ActiveNext]_activevars => [cp' = Freed => CastTeleport]_activevars
  <2> SUFFICES ASSUME ActiveInv, ActiveNext, cp' = Freed PROVE CastTeleport
    OBVIOUS
  <2>1. Nil # Freed /\ Freed \notin Mon /\ Listed(Now) /\ active \in Seq(Mon)
    BY ActiveAssumption DEF ActiveAssumption, ActiveInv, ActiveTypeOK, Right
  <2>2. ~Idle /\ ~ActiveCrash
    BY <2>1 DEF Idle, ActiveCrash
  <2>3. ~StartPass
    <3>1. ASSUME StartPass PROVE Head(active) \in Mon /\ cp' = Head(active)
      BY <2>1, <3>1 DEF StartPass
    <3> QED BY <2>1, <3>1
  <2>4. ~(NobodyThere \/ NotDue \/ AnyTag)
    BY TagDescends, AnyDescends, ActiveAssumption
  <2>5. ASSUME Due, NEW s \in Driven, GoesOn(NextTag(s, cp), {cp}) PROVE FALSE
    <3>1. Listed(s) /\ cp \in On(s) /\ On(s) \subseteq Mon
      BY <2>5, DrivenOn, OnAreMon, ActiveAssumption
    <3>2. cp' \in On(s) \cup {Nil}
      BY <2>5, <3>1, NextIs DEF GoesOn
    <3> QED BY <2>1, <3>1, <3>2
  <2>6. ~(Loiter \/ Wander \/ CombatGoesOn)
    <3>1. ~Loiter
      <4>1. Now \in Driven
        BY DEF Driven
      <4> QED BY <2>5, <4>1 DEF Loiter
    <3>2. ~CombatGoesOn
      BY <2>5 DEF CombatGoesOn
    <3>3. ~Wander
      <4> SUFFICES ASSUME Wander PROVE FALSE
        OBVIOUS
      <4>1. Due /\ GoesOn(NextTag(Now, cp), {cp}) /\ Now \in Driven
        BY DEF Wander, Driven
      <4> QED BY <2>5, <4>1
    <3> QED BY <3>1, <3>2, <3>3
  <2>7. ASSUME NEW s, Listed(s), GoesOn(First(s), {cp}) PROVE FALSE
    <3>1. First(s) \in Mon \cup {Nil}
      BY <2>7, FirstIs, OnAreMon DEF Listed, State
    <3> QED BY <2>1, <2>7, <3>1 DEF GoesOn
  <2>8. ~Leave
    <3> SUFFICES ASSUME Leave PROVE FALSE
      OBVIOUS
    <3>1. Due /\ GoesOn(First(free_crt(Now, {cp})), {cp})
      BY DEF Leave
    <3>2. Right(Now, torpid) /\ {cp} \in SUBSET Mon
      BY <3>1 DEF ActiveInv, Due
    <3>3. Listed(free_crt(Now, {cp}))
      BY <3>2, FreedRight, ActiveAssumption DEF Right
    <3> QED BY <2>7, <3>1, <3>3
  <2>9. ~CombatDecided
    <3> SUFFICES ASSUME CombatDecided PROVE FALSE
      OBVIOUS
    <3>1. Due
      BY DEF CombatDecided
    <3>2. PICK s \in Driven : \E t \in Decided(s) : GoesOn(First(t), {cp})
      BY DEF CombatDecided
    <3>3. PICK t \in Decided(s) : GoesOn(First(t), {cp})
      BY <3>2
    <3>4. Right(s, torpid \cup {}) /\ s.at = at
      BY <3>1, DrivenRight, ActiveAssumption
    <3>5. Right(t, torpid \cup {})
      BY <3>1, <3>4, DecidedRight, ActiveAssumption
    <3> QED BY <2>7, <3>3, <3>5 DEF Right
  <2> QED BY <2>2, <2>3, <2>4, <2>6, <2>8, <2>9, Steps DEF Pass
<1> QED BY <1>1, AlwaysActiveInv, PTL DEF ActiveSpec, FreedByTeleport
=============================================================================
