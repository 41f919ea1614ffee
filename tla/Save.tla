-------------------------------- MODULE Save ---------------------------------
(***************************************************************************)
(* The steps inside a save and what a crash between two of them leaves on  *)
(* the disk: save_ply, load_ply, resave_rom, the eviction in load_rom and  *)
(* resave_all_rom (files2.c).                                              *)
(*                                                                         *)
(* All but the last rename the file to `name~', write a new one and unlink *)
(* the copy; resave_all_rom writes over the file.  What a file holds is    *)
(* the version that was saved to it, whole or not.                         *)
(***************************************************************************)
EXTENDS Integers

CONSTANTS
    Ply, Rom,     \* the files of characters and of rooms
    MaxVersion    \* bound: versions of what a file holds

File == Ply \cup Rom

ASSUME SaveAssumption ==
    /\ Ply \cap Rom = {} /\ "none" \notin File
    /\ MaxVersion \in Nat \ {0}

VARIABLES
    file, bak,    \* what is on the disk under a name, and under name~
    mem,          \* the version in memory; 0 when it is not loaded
    job,          \* the save that is under way, or the step "idle"
    saved,        \* history: the last version a save was told it wrote
    hurt          \* history: files something went wrong with

vars == <<file, bak, mem, job, saved, hurt>>

Whole(v) == [version |-> v, whole |-> TRUE]
Part(v) == [version |-> v, whole |-> FALSE]
absent == Part(0)
Contents == [version : 0..MaxVersion, whole : BOOLEAN]

Step == {"idle", "rename", "open", "write", "unlink"}
Idle == [step |-> "idle", name |-> "none", inplace |-> FALSE]

\* What has happened to a file since it was last saved: a crash cut a save
\* off; a save put a part of a file in the place of its copy; a write came
\* short and nobody looked; a file was written over without a copy; the
\* rename was not undone when the file could not be opened.
Hurt == {"cut", "clobbered", "short", "mixed", "unopened"}

TypeOK ==
    /\ file \in [File -> Contents] /\ bak \in [File -> Contents]
    /\ mem \in [File -> 0..MaxVersion]
    /\ job \in [step : Step, name : File \cup {"none"}, inplace : BOOLEAN]
    /\ saved \in [File -> 0..MaxVersion]
    /\ hurt \in [File -> SUBSET Hurt]

Init ==
    /\ file = [n \in File |-> Whole(1)]
    /\ bak = [n \in File |-> absent]
    /\ mem = [n \in File |-> 0]
    /\ job = Idle
    /\ saved = [n \in File |-> 1]
    /\ hurt = [n \in File |-> {}]

Max2(a, b) == IF a > b THEN a ELSE b
Latest(n) == Max2(mem[n], Max2(file[n].version, Max2(bak[n].version, saved[n])))

Hurts(n, how) == hurt' = [hurt EXCEPT ![n] = @ \cup {how}]

-----------------------------------------------------------------------------
(* Between saves.                                                          *)

\* A file that is cut off may still be read as something when it is a
\* character; nothing reads the copy.
Load(n) ==
    /\ job = Idle /\ mem[n] = 0
    /\ file[n].whole \/ (n \in Ply /\ file[n] # absent)
    /\ mem' = [mem EXCEPT ![n] = file[n].version]
    /\ UNCHANGED <<file, bak, job, saved, hurt>>

\* A name without a file is free for a new character.
create_ply(n) ==
    /\ job = Idle /\ mem[n] = 0 /\ n \in Ply /\ ~file[n].whole
    /\ Latest(n) < MaxVersion
    /\ mem' = [mem EXCEPT ![n] = Latest(n) + 1]
    /\ UNCHANGED <<file, bak, job, saved, hurt>>

Play(n) ==
    /\ job = Idle /\ mem[n] # 0 /\ Latest(n) < MaxVersion
    /\ mem' = [mem EXCEPT ![n] = Latest(n) + 1]
    /\ UNCHANGED <<file, bak, job, saved, hurt>>

\* Disconnected, or evicted.
Forget(n) ==
    /\ job = Idle /\ mem[n] # 0
    /\ mem' = [mem EXCEPT ![n] = 0]
    /\ UNCHANGED <<file, bak, job, saved, hurt>>

-----------------------------------------------------------------------------
(* The steps of a save.                                                    *)

Begin(n) ==
    /\ job = Idle /\ mem[n] # 0
    /\ job' = [step |-> "rename", name |-> n, inplace |-> FALSE]
    /\ UNCHANGED <<file, bak, mem, saved, hurt>>

\* resave_all_rom, one room of it.
BeginInPlace(n) ==
    /\ job = Idle /\ mem[n] # 0 /\ n \in Rom
    /\ job' = [step |-> "open", name |-> n, inplace |-> TRUE]
    /\ UNCHANGED <<file, bak, mem, saved, hurt>>

At(step, n) == job.step = step /\ job.name = n
Goes(step) == job' = [job EXCEPT !.step = step]

\* rename(file, filebak)
SetAsideNot(n) == UNCHANGED <<file, bak, hurt>>
SetAside(n) ==
    IF file[n] = absent THEN UNCHANGED <<file, bak, hurt>>
    ELSE /\ bak' = [bak EXCEPT ![n] = file[n]]
         /\ file' = [file EXCEPT ![n] = absent]
         /\ IF file[n].whole THEN UNCHANGED hurt ELSE Hurts(n, "clobbered")

Rename(n) ==
    /\ At("rename", n) /\ Goes("open")
    /\ SetAside(n)
    /\ UNCHANGED <<mem, saved>>

\* rename(filebak, file)
PutBackNot(n) == UNCHANGED <<file, bak>>
PutBack(n) ==
    IF bak[n] = absent THEN UNCHANGED <<file, bak>>
    ELSE file' = [file EXCEPT ![n] = bak[n]] /\ bak' = [bak EXCEPT ![n] = absent]

\* Only save_ply undoes the rename when the file cannot be opened.
Open(n) ==
    /\ At("open", n)
    /\ \/ /\ Goes("write")
          /\ file' = [file EXCEPT ![n] = Part(mem[n])]
          /\ UNCHANGED bak
          /\ IF job.inplace THEN Hurts(n, "mixed") ELSE UNCHANGED hurt
       \/ /\ job' = Idle
          /\ IF n \in Ply THEN PutBack(n) /\ UNCHANGED hurt
             ELSE UNCHANGED <<file, bak>> /\ Hurts(n, "unopened")
    /\ UNCHANGED <<mem, saved>>

Write(n) ==
    /\ At("write", n)
    /\ file' = [file EXCEPT ![n] = Whole(mem[n])]
    /\ Goes("unlink")
    /\ UNCHANGED <<bak, mem, saved, hurt>>

\* The disk is full.  save_ply does not look at what write returned.
WriteShort(n) ==
    /\ At("write", n) /\ n \in Ply
    /\ Goes("unlink")
    /\ Hurts(n, "short")
    /\ UNCHANGED <<file, bak, mem, saved>>

\* A room is counted and written piece by piece; a failure undoes the save,
\* except of resave_all_rom, which stops there.
WriteFails(n) ==
    /\ At("write", n) /\ n \in Rom
    /\ job' = Idle
    /\ IF job.inplace THEN UNCHANGED <<file, bak>>
       ELSE IF bak[n] # absent THEN PutBack(n)
       ELSE file' = [file EXCEPT ![n] = absent] /\ UNCHANGED bak
    /\ UNCHANGED <<mem, saved, hurt>>

\* unlink(filebak); a save in place leaves it alone.
Copy(n) == IF job.inplace THEN bak[n] ELSE absent

\* The end: the copy goes, and with a whole file behind it all is well again.
Unlink(n) ==
    /\ At("unlink", n)
    /\ bak' = [bak EXCEPT ![n] = Copy(n)]
    /\ job' = Idle
    /\ IF file[n].whole
       THEN /\ saved' = [saved EXCEPT ![n] = mem[n]]
            /\ hurt' = [hurt EXCEPT ![n] = {}]
       ELSE UNCHANGED <<saved, hurt>>
    /\ UNCHANGED <<file, mem>>

-----------------------------------------------------------------------------
\* The process ends at any moment, by a signal or a fatal error.
Crash ==
    /\ mem' = [n \in File |-> 0]
    /\ job' = Idle
    /\ IF job = Idle THEN UNCHANGED hurt ELSE Hurts(job.name, "cut")
    /\ UNCHANGED <<file, bak, saved>>

Next ==
    \/ \E n \in File :
         \/ Load(n) \/ create_ply(n) \/ Play(n) \/ Forget(n)
         \/ Begin(n) \/ BeginInPlace(n)
         \/ Rename(n) \/ Open(n) \/ Write(n) \/ WriteShort(n) \/ WriteFails(n) \/ Unlink(n)
    \/ Crash

Spec == Init /\ [][Next]_vars

-----------------------------------------------------------------------------
(* Properties.                                                             *)

\* Wherever a save is cut off, and whatever of it fails with a report, what
\* was last saved is still whole, under the name or in the copy.
CopyKept ==
    /\ TypeOK
    /\ \A n \in File : hurt[n] \cap {"clobbered", "short", "mixed"} = {} =>
          \E c \in {file[n], bak[n]} : c.whole /\ c.version >= saved[n]

\* Between saves the file is what was last saved, also after saves that could
\* not open or write it, and a character leaves no copy that a later save could
\* bring back.
ReadsSaved ==
    \A n \in File : job.name # n /\ hurt[n] = {} =>
        file[n] = Whole(saved[n]) /\ (n \in Ply => bak[n] = absent)

=============================================================================
