------------------------------- MODULE Accounts -------------------------------
(***************************************************************************)
(* Characters and their files: login, create_ply, command, suicide         *)
(* (src/src/command1.c), disconnect (io.c), savegame (command8.c),         *)
(* save_all_ply (files2.c), dm_shutdown and update_shutdown, dm_dust,      *)
(* and bank_transfer, as far as they read or write a character's copies.   *)
(*                                                                         *)
(* A character exists as a file and as copies in memory, one per socket:   *)
(* the copy a player plays, and the copy `login' loads before it asks for  *)
(* the password.  A copy is a version number; every change to a played     *)
(* copy makes the next version.  Versions of one copy only grow, so a file *)
(* whose version falls has lost something.  Slots and the queue are module *)
(* Admission's: a socket that gets a slot appears here as Connect.         *)
(* save_ply and load_ply are one step here, as no other handler runs while *)
(* they do; what a crash inside save_ply leaves is not in this module.     *)
(***************************************************************************)
EXTENDS Naturals, FiniteSets

CONSTANTS
    Fd,          \* sockets; the loops over Ply[] run in this order
    Name,        \* names a character can have
    NoName,      \* the empty name
    MaxVersion   \* bound: the changes to one copy that are explored

ASSUME AccountsAssumption ==
    /\ Fd \subseteq Nat
    /\ IsFiniteSet(Fd)
    /\ NoName \notin Name
    /\ MaxVersion \in Nat \ {0}

VARIABLES
    stage,  \* io->fn and io->fnparam
    typed,  \* extr->tempstr[0]: the new name given at login
    ply,    \* Ply[fd].ply
    file,   \* PLAYERPATH/name: the version saved there, 0 when there is none
    twice   \* history: names created while they were in use

vars == <<stage, typed, ply, file, twice>>

Stages == {"none", "site", "name", "confirm", "create", "password",
           "command", "suicide"}

\* live: ply->fd > -1.  born: the session came from create_ply, not login
\* (the code keeps no such bit; it is here for the properties).
Copy == [name : Name, version : 1..MaxVersion, live : BOOLEAN, born : BOOLEAN]
NoPly == [name |-> NoName, version |-> 0, live |-> FALSE, born |-> FALSE]

TypeOK ==
    /\ stage \in [Fd -> Stages]
    /\ typed \in [Fd -> Name \cup {NoName}]
    /\ ply \in [Fd -> Copy \cup {NoPly}]
    /\ file \in [Name -> 0..MaxVersion]
    /\ twice \subseteq Name

NoSessions ==
    /\ stage = [fd \in Fd |-> "none"]
    /\ typed = [fd \in Fd |-> NoName]
    /\ ply = [fd \in Fd |-> NoPly]

Init ==
    /\ NoSessions
    /\ file \in [Name -> {0, 1}]
    /\ twice = {}

-----------------------------------------------------------------------------
(* Helpers.                                                                *)

CopiesOf(n) == {fd \in Fd : ply[fd].name = n}
Live == {fd \in Fd : ply[fd].live}

\* f is what the files are after the copies of the sockets in S are saved in
\* the order of the sockets: of two copies of a character the last one stays.
Saves(S, f) ==
    /\ f \in [Name -> 0..MaxVersion]
    /\ \A n \in Name :
         LET C == S \cap CopiesOf(n)
         IN \/ C = {} /\ f[n] = file[n]
            \/ \E fd \in C : (\A g \in C : g <= fd) /\ f[n] = ply[fd].version

\* find_who: the first socket, in order, that plays character n.
Plays(fd, n) ==
    /\ fd \in Live \cap CopiesOf(n)
    /\ \A g \in Live \cap CopiesOf(n) : fd <= g

\* disconnect for every socket of S: played copies are saved, all are freed.
Drop(S) ==
    /\ stage' = [fd \in Fd |-> IF fd \in S THEN "none" ELSE stage[fd]]
    /\ typed' = [fd \in Fd |-> IF fd \in S THEN NoName ELSE typed[fd]]
    /\ ply' = [fd \in Fd |-> IF fd \in S THEN NoPly ELSE ply[fd]]

Goto(fd, s) == stage' = [stage EXCEPT ![fd] = s]

\* The process ends, by update_shutdown or by a crash, and is started again.
Reset == Drop(Fd)

-----------------------------------------------------------------------------
(* login.                                                                  *)

\* init_connect: the site needs a password, or the name is asked for.
Connect(fd) ==
    /\ stage[fd] = "none"
    /\ \E s \in {"site", "name"} : Goto(fd, s)
    /\ UNCHANGED <<typed, ply, file, twice>>

SitePassword(fd) ==
    /\ stage[fd] = "site"
    /\ Goto(fd, "name")
    /\ UNCHANGED <<typed, ply, file, twice>>

\* login, case 1, a legal name: load_ply, or the offer to create it.
EnterName(fd, n) ==
    /\ stage[fd] = "name"
    /\ \/ /\ file[n] = 0
          /\ typed' = [typed EXCEPT ![fd] = n]
          /\ Goto(fd, "confirm")
          /\ ply' = ply
       \/ /\ file[n] > 0
          /\ ply' = [ply EXCEPT ![fd] = [name |-> n, version |-> file[n],
                                         live |-> FALSE, born |-> FALSE]]
          /\ Goto(fd, "password")
          /\ typed' = typed
    /\ UNCHANGED <<file, twice>>

\* login, case 2.
Confirm(fd) ==
    /\ stage[fd] = "confirm"
    /\ \/ Goto(fd, "create") /\ typed' = typed
       \/ Goto(fd, "name") /\ typed' = [typed EXCEPT ![fd] = NoName]
    /\ UNCHANGED <<ply, file, twice>>

\* create_ply, case 8.  Until then the new creature has no name, is not live
\* and touches no file, so it is no copy of anybody.
Create(fd) ==
    /\ stage[fd] = "create"
    /\ ply' = [ply EXCEPT ![fd] = [name |-> typed[fd], version |-> 1,
                                   live |-> TRUE, born |-> TRUE]]
    /\ file' = [file EXCEPT ![typed[fd]] = 1]
    /\ Goto(fd, "command")
    /\ twice' = IF file[typed[fd]] > 0 \/ CopiesOf(typed[fd]) # {}
                THEN twice \cup {typed[fd]} ELSE twice
    /\ UNCHANGED typed

EnterUnloaded(fd, files) ==
    [NoPly EXCEPT !.live = TRUE]
EnterStale(fd, files) ==
    [ply[fd] EXCEPT !.live = TRUE]
EnterOld(fd, files) ==
    [ply[fd] EXCEPT !.version = file[ply[fd].name], !.live = TRUE]
\* The copy that enters the game is read after the others have been saved.
EnterWith(fd, files) ==
    [ply[fd] EXCEPT !.version = files[ply[fd].name], !.live = TRUE]

NobodyElse(fd) == {}
\* The other sockets with a copy of the character: all are disconnected.
Others(fd) == CopiesOf(ply[fd].name) \ {fd}

\* login, case 3, the right password.
Password(fd) ==
    /\ stage[fd] = "password"
    /\ Saves(Others(fd) \cap Live, file')
    /\ file'[ply[fd].name] > 0
    /\ LET S == Others(fd)
       IN /\ stage' = [g \in Fd |-> IF g \in S THEN "none"
                                    ELSE IF g = fd THEN "command" ELSE stage[g]]
          /\ typed' = [g \in Fd |-> IF g \in S THEN NoName ELSE typed[g]]
          /\ ply' = [g \in Fd |-> IF g \in S THEN NoPly
                                  ELSE IF g = fd THEN EnterWith(fd, file')
                                  ELSE ply[g]]
    /\ UNCHANGED twice

\* The same when the file has gone since the name was given: the freed copy
\* is used again, and freed again by disconnect.  The process survives that
\* or dies of it.
PasswordGone(fd) ==
    /\ stage[fd] = "password"
    /\ Saves(Others(fd) \cap Live, file')
    /\ file'[ply[fd].name] = 0
    /\ Drop(Others(fd) \cup {fd}) \/ Reset
    /\ UNCHANGED twice

-----------------------------------------------------------------------------
(* A session.                                                              *)

\* Any command, spell, fight or periodic update that changes the character.
Progress(fd) ==
    /\ fd \in Live
    /\ ply[fd].version < MaxVersion
    /\ ply' = [ply EXCEPT ![fd].version = @ + 1]
    /\ UNCHANGED <<stage, typed, file, twice>>

\* savegame: the command, the periodic save, a bank or shop transaction.
SaveGame(fd) ==
    /\ fd \in Live
    /\ Saves({fd}, file')
    /\ UNCHANGED <<stage, typed, ply, twice>>

\* disconnect saves the copy only if it is played.
DisconnectSaved(fd) == {fd} \cap Live

\* disconnect: quit, hang-up, timeout, wrong password, lock-out.
Disconnect(fd) ==
    /\ stage[fd] # "none"
    /\ Saves(DisconnectSaved(fd), file')
    /\ Drop({fd})
    /\ UNCHANGED twice

\* suicide, case 1, and an answer other than `y' to it.
AskSuicide(fd) ==
    /\ stage[fd] = "command"
    /\ Goto(fd, "suicide")
    /\ UNCHANGED <<typed, ply, file, twice>>

AbortSuicide(fd) ==
    /\ stage[fd] = "suicide"
    /\ Goto(fd, "command")
    /\ UNCHANGED <<typed, ply, file, twice>>

\* suicide, case 2: disconnect, unlink, and then Ply[fd].ply->name, though
\* disconnect has made Ply[fd].ply null.  The name is the first field, so
\* sprintf gets a null string: it prints a placeholder or faults.
Suicide(fd) ==
    /\ stage[fd] = "suicide"
    /\ file' = [file EXCEPT ![ply[fd].name] = 0]
    /\ Drop({fd}) \/ Reset
    /\ UNCHANGED twice

\* dm_dust: only somebody at the command prompt can be dusted.
Dust(dm, fd) ==
    /\ dm \in Live /\ stage[dm] = "command"
    /\ Plays(fd, ply[fd].name)
    /\ stage[fd] = "command"
    /\ file' = [file EXCEPT ![ply[fd].name] = 0]
    /\ Drop({fd})
    /\ UNCHANGED twice

\* bank_transfer to character n, who plays or is read from his file.
Transfer(fd, n) ==
    /\ fd \in Live /\ stage[fd] = "command"
    /\ ply[fd].name # n
    /\ ply[fd].version < MaxVersion
    /\ LET v == ply[fd].version + 1
           paid(w) == [file EXCEPT ![ply[fd].name] = v, ![n] = w]
       IN \/ \E g \in Fd :
               /\ Plays(g, n)
               /\ ply[g].version < MaxVersion
               /\ ply' = [ply EXCEPT ![fd].version = v, ![g].version = @ + 1]
               /\ file' = paid(ply[g].version + 1)
          \/ /\ Live \cap CopiesOf(n) = {}
             /\ file[n] \in 1..(MaxVersion - 1)
             /\ ply' = [ply EXCEPT ![fd].version = v]
             /\ file' = paid(file[n] + 1)
    /\ UNCHANGED <<stage, typed, twice>>

-----------------------------------------------------------------------------
(* The whole game.                                                         *)

\* save_all_ply saves every named copy in Ply[], played or not.
Named == {fd \in Fd : ply[fd].name # NoName}

\* dm_shutdown: everybody is saved now, the shutdown comes later.
DmShutdown ==
    /\ \E dm \in Live : stage[dm] = "command"
    /\ Saves(Named, file')
    /\ UNCHANGED <<stage, typed, ply, twice>>

\* update_shutdown when the time has come.
Shutdown ==
    /\ Saves(Named, file')
    /\ Reset
    /\ UNCHANGED twice

Crash == Reset /\ UNCHANGED <<file, twice>>

Next ==
    \/ \E fd \in Fd :
         \/ Connect(fd) \/ SitePassword(fd) \/ Confirm(fd) \/ Create(fd)
         \/ Password(fd) \/ PasswordGone(fd)
         \/ Progress(fd) \/ SaveGame(fd) \/ Disconnect(fd)
         \/ AskSuicide(fd) \/ AbortSuicide(fd) \/ Suicide(fd)
         \/ \E n \in Name : EnterName(fd, n) \/ Transfer(fd, n)
         \/ \E dm \in Fd \ {fd} : Dust(dm, fd)
    \/ DmShutdown \/ Shutdown \/ Crash

Spec == Init /\ [][Next]_vars

-----------------------------------------------------------------------------
(* Properties.                                                             *)

\* Two sessions of one character never both come from a login: the second
\* login disconnects the first.  (Two people creating the same new name at
\* once do get two.)
OneLoginPerName ==
    \A f, g \in Live :
        f # g /\ ply[f].name = ply[g].name => ply[f].born \/ ply[g].born

\* A played copy is never older than its file, so that what its owner saves
\* is no step back, whatever was saved while he was asked for his password.
PlayedIsNewest ==
    \A fd \in Live :
        ply[fd].name \notin twice => ply[fd].version >= file[ply[fd].name]

\* Logging in loses nothing: the copy that enters the game is as new as the
\* file and as the one copy that was played until then.
LoginKeepsProgress ==
    [][ \A fd \in Fd :
          (stage[fd] = "password" /\ ply'[fd].live) =>
             LET played == CopiesOf(ply[fd].name) \cap Live
             IN /\ played = {} => ply'[fd].version >= file[ply[fd].name]
                /\ \A g \in played : played = {g} =>
                       ply'[fd].version >= ply[g].version
      ]_vars

\* A character's file falls back to an older version, or comes back after it
\* was erased without being created again, only while a copy of the
\* character is held behind a password prompt.
CreatedNow(n) ==
    \E fd \in Fd : stage[fd] = "create" /\ stage'[fd] = "command" /\ typed[fd] = n
SetBack(n) ==
    \/ file'[n] # 0 /\ file'[n] < file[n]
    \/ file[n] = 0 /\ file'[n] # 0 /\ ~CreatedNow(n)
OnlyPromptSetsBack ==
    [][ \A n \in Name \ twice' :
          SetBack(n) => \E fd \in CopiesOf(n) : ~ply[fd].live ]_vars

=============================================================================
