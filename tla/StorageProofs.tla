----------------------------- MODULE StorageProofs -----------------------------
(***************************************************************************)
(* Files and rooms, for any number of them: how one file is saved (Save)   *)
(* and which rooms are in memory (RoomCache).                              *)
(*                                                                         *)
(* 1. Save.  What was last saved is kept wherever a save is cut off        *)
(* (CopyKept), and a save that fails with a report leaves the file as it   *)
(* was (ReadsSaved).  Neither is inductive: the copy may be old, as after  *)
(* a save in place, and it is only the order of rename, open, write and    *)
(* unlink that makes it new when it is needed.  Under says what each step  *)
(* of a save finds, Newer that nothing on the disk or in memory that is    *)
(* still used is older than what was saved; Kept and Reads are the two     *)
(* properties, of one file and with the middle of a save.                  *)
(*                                                                         *)
(* 2. RoomCache.  The links are the queue of what is in memory until they  *)
(* are torn (QueueSound), no load or eviction takes a room away from under *)
(* its players (PresentLoaded) or drops changes the disk has not           *)
(* (EvictedSaved), and the queue is Lru (ImplementsLru).  Linked says that *)
(* the links of a cache are a sequence of rooms, read from both ends; each *)
(* call on the queue is shown to do to that sequence what its name says,   *)
(* and load_rom's loop to stop at the last room without players, which     *)
(* there is because a full queue has more rooms than there are players.    *)
(***************************************************************************)
EXTENDS Save, RoomCache, FiniteSetTheorems, SequenceTheorems, WellFoundedInduction, TLAPS

-----------------------------------------------------------------------------
(* 1. Save.                                                                *)

\* The save of file n has come to one of these steps.
In(n, steps) == job.name = n /\ job.step \in steps

\* A save is of a file that is loaded, and only rooms are saved in place.
Job ==
    job # Idle =>
        /\ job.name \in File /\ job.step # "idle"
        /\ mem[job.name] # 0
        /\ job.inplace => job.name \in Rom /\ job.step # "rename"

Under(n) ==
    /\ In(n, {"open"}) /\ ~job.inplace => file[n] = absent
    /\ In(n, {"write"}) => file[n] = Part(mem[n])
    /\ In(n, {"unlink"}) =>
         \/ file[n] = Whole(mem[n])
         \/ file[n] = Part(mem[n]) /\ "short" \in hurt[n]
    /\ In(n, {"write", "unlink"}) /\ job.inplace => "mixed" \in hurt[n]

Newer(n) ==
    /\ mem[n] # 0 => mem[n] >= saved[n]
    /\ file[n] # absent => file[n].version >= saved[n]
    /\ file[n] = absent \/ (In(n, {"open", "write"}) /\ ~job.inplace) =>
         bak[n] = absent \/ bak[n].version >= saved[n]

Kept(n) ==
    hurt[n] \cap {"clobbered", "short", "mixed"} = {} =>
        file[n].whole \/ (bak[n].whole /\ bak[n].version >= saved[n])

Reads(n) ==
    hurt[n] = {} =>
        IF In(n, {"open", "write"}) /\ ~job.inplace
        THEN bak[n] = Whole(saved[n])
        ELSE In(n, {"unlink"}) \/
             (file[n] = Whole(saved[n]) /\ (n \in Ply => bak[n] = absent))

Sound(n) == Under(n) /\ Newer(n) /\ Kept(n) /\ Reads(n)

IInv == TypeOK /\ Job /\ \A n \in File : Sound(n)

-----------------------------------------------------------------------------
(* What the records say.                                                   *)

\* Files that are whole, partial or absent.
LEMMA Records ==
    /\ \A v : Whole(v).version = v /\ Whole(v).whole = TRUE
    /\ \A v : Part(v).version = v /\ Part(v).whole = FALSE
    /\ absent.whole = FALSE /\ absent.version = 0
    /\ \A v : v # 0 => Part(v) # absent
    /\ \A v, w : Whole(v) # Part(w)
    /\ \A v : Whole(v) # absent
    /\ Idle.step = "idle" /\ Idle.name = "none" /\ Idle.inplace = FALSE
    /\ \A v \in 0..MaxVersion : Whole(v) \in Contents /\ Part(v) \in Contents
    /\ absent \in Contents
    /\ \A c \in Contents : c.version \in 0..MaxVersion /\ c.whole \in BOOLEAN
  BY SaveAssumption DEF Whole, Part, absent, Idle, Contents

Jobs == [step : Step, name : File \cup {"none"}, inplace : BOOLEAN]

\* The saves there can be.
LEMMA JobTypes ==
    /\ Idle \in Jobs
    /\ \A j \in Jobs, s \in Step : [j EXCEPT !.step = s] \in Jobs
    /\ \A n \in File, s \in Step, b \in BOOLEAN :
          [step |-> s, name |-> n, inplace |-> b] \in Jobs
  BY DEF Jobs, Idle, Step

\* At the start every file is whole and no save is under way.
LEMMA InitIInv == Init => IInv
<1> SUFFICES ASSUME Init PROVE IInv
  OBVIOUS
<1>0. 1 \in 0..MaxVersion /\ 0 \in 0..MaxVersion
  BY SaveAssumption
<1>1. Idle \in [step : Step, name : File \cup {"none"}, inplace : BOOLEAN]
  BY DEF Idle, Step
<1>2. TypeOK
  BY <1>0, <1>1, Records DEF Init, TypeOK
<1>3. \A n \in File : Sound(n)
  BY SaveAssumption, Records
     DEF Init, Sound, Under, Newer, Kept, Reads, In
<1> QED BY <1>2, <1>3 DEF IInv, Job, Init

\* A file whose save is neither under way before nor after a step, and that
\* the step leaves alone, stays sound.
LEMMA Others ==
    ASSUME NEW n \in File, Sound(n), job.name # n, job'.name # n,
           file'[n] = file[n], bak'[n] = bak[n], mem'[n] = mem[n],
           saved'[n] = saved[n], hurt'[n] = hurt[n]
    PROVE  Sound(n)'
  BY DEF Sound, Under, Newer, Kept, Reads, In

\* The version of a character that progresses is newer than all there is.
LEMMA LatestNewest ==
    ASSUME TypeOK, NEW n \in File
    PROVE  /\ Latest(n) \in 0..MaxVersion
           /\ Latest(n) >= mem[n] /\ Latest(n) >= file[n].version
           /\ Latest(n) >= bak[n].version /\ Latest(n) >= saved[n]
<1>1. /\ mem[n] \in Nat /\ mem[n] <= MaxVersion
      /\ saved[n] \in Nat /\ saved[n] <= MaxVersion
      /\ file[n].version \in Nat /\ file[n].version <= MaxVersion
      /\ bak[n].version \in Nat /\ bak[n].version <= MaxVersion
  BY Records, SaveAssumption DEF TypeOK
<1> QED BY <1>1, SaveAssumption DEF Latest, Max2

-----------------------------------------------------------------------------
(* Between saves.                                                          *)

\* What changes only what is in memory, to nothing or to a version no older
\* than what was saved, keeps the invariant.
LEMMA MemoryStep ==
    ASSUME IInv, NEW m \in File, NEW v \in 0..MaxVersion,
           job = Idle, v # 0 => v >= saved[m],
           mem' = [mem EXCEPT ![m] = v],
           UNCHANGED <<file, bak, job, saved, hurt>>
    PROVE  IInv'
<1>1. TypeOK'
  BY DEF IInv, TypeOK
<1>2. Job'
  BY DEF Job
<1>3. ASSUME NEW n \in File PROVE Sound(n)'
  <2>1. mem'[n] = IF n = m THEN v ELSE mem[n]
    BY DEF IInv, TypeOK
  <2>2. job.name # n
    BY Records, SaveAssumption
  <2> QED BY <2>1, <2>2 DEF IInv, Sound, Under, Newer, Kept, Reads, In
<1> QED BY <1>1, <1>2, <1>3 DEF IInv

\* A file is loaded.
LEMMA LoadStep == ASSUME IInv, NEW m \in File, Load(m) PROVE IInv'
<1>1. file[m] # absent /\ file[m].version \in 0..MaxVersion
  BY Records DEF Load, IInv, TypeOK
<1>2. file[m].version >= saved[m]
  BY <1>1 DEF IInv, Sound, Newer
<1> QED BY <1>1, <1>2, MemoryStep DEF Load

\* A copy in memory changes.
LEMMA ProgressStep ==
    ASSUME IInv, NEW m \in File, create_ply(m) \/ Play(m) PROVE IInv'
<1>1. Latest(m) \in 0..MaxVersion /\ Latest(m) >= saved[m] /\ saved[m] \in 0..MaxVersion
  BY LatestNewest DEF IInv, TypeOK
<1>2. Latest(m) + 1 \in 0..MaxVersion /\ Latest(m) + 1 >= saved[m]
  BY <1>1, SaveAssumption DEF create_ply, Play
<1> QED BY <1>2, MemoryStep DEF create_ply, Play

\* A copy leaves memory.
LEMMA ForgetStep == ASSUME IInv, NEW m \in File, Forget(m) PROVE IInv'
<1>1. 0 \in 0..MaxVersion
  BY SaveAssumption
<1> QED BY <1>1, MemoryStep DEF Forget

-----------------------------------------------------------------------------
(* The steps of a save.                                                    *)

\* A save begins.
LEMMA BeginStep ==
    ASSUME IInv, NEW m \in File, Begin(m) \/ BeginInPlace(m) PROVE IInv'
<1>0. "rename" \in Step /\ "open" \in Step
  BY DEF Step
<1>1. job' \in Jobs
  BY <1>0, JobTypes DEF Begin, BeginInPlace
<1>2. TypeOK' /\ Job'
  BY <1>1 DEF IInv, TypeOK, Job, Jobs, Begin, BeginInPlace
<1>3. ASSUME NEW n \in File PROVE Sound(n)'
  <2>1. job.name # n /\ UNCHANGED <<file, bak, mem, saved, hurt>>
    BY Records, SaveAssumption DEF Begin, BeginInPlace
  <2>2. CASE n = m
    BY <2>1, <2>2
       DEF Begin, BeginInPlace, IInv, Sound, Under, Newer, Kept, Reads, In
  <2>3. CASE n # m
    BY <2>1, <2>3, Others DEF Begin, BeginInPlace, IInv
  <2> QED BY <2>2, <2>3
<1> QED BY <1>2, <1>3 DEF IInv

\* A step of the save of file m leaves the other files alone, and the save
\* is then still of m or over.
LEMMA OneAtATime ==
    ASSUME IInv, NEW m \in File, job.name = m, job'.name \in {m, "none"},
           \A n \in File \ {m} :
               /\ file'[n] = file[n] /\ bak'[n] = bak[n] /\ mem'[n] = mem[n]
               /\ saved'[n] = saved[n] /\ hurt'[n] = hurt[n]
    PROVE  \A n \in File \ {m} : Sound(n)'
<1> SUFFICES ASSUME NEW n \in File \ {m} PROVE Sound(n)'
  OBVIOUS
<1>1. job.name # n /\ job'.name # n
  BY SaveAssumption
<1> QED BY <1>1, Others DEF IInv

\* The file becomes the copy, or the rename fails.
LEMMA RenameStep == ASSUME IInv, NEW m \in File, Rename(m) PROVE IInv'
<1> USE DEF IInv
<1>0. /\ job # Idle /\ job.name = m /\ job.step = "rename" /\ ~job.inplace
      /\ job' = [job EXCEPT !.step = "open"]
      /\ job'.name = m /\ job'.step = "open" /\ job'.inplace = job.inplace
      /\ mem' = mem /\ saved' = saved
  BY Records DEF Rename, At, Goes, TypeOK, Job
<1>1. TypeOK'
  <2>1. job' \in Jobs
    BY <1>0, JobTypes DEF TypeOK, Jobs, Step
  <2>2. file' \in [File -> Contents] /\ bak' \in [File -> Contents]
    <3>1. file[m] \in Contents /\ absent \in Contents
      BY Records DEF TypeOK
    <3>2. CASE file[m] = absent
      BY <3>2 DEF Rename, SetAside, TypeOK
    <3>3. CASE file[m] # absent
      BY <3>1, <3>3 DEF Rename, SetAside, TypeOK
    <3> QED BY <3>2, <3>3
  <2>3. hurt' \in [File -> SUBSET Hurt]
    BY DEF Rename, SetAside, TypeOK, Hurts, Hurt
  <2> QED BY <1>0, <2>1, <2>2, <2>3 DEF TypeOK, Jobs
<1>2. Job'
  BY <1>0 DEF Job
<1>3. Sound(m)'
  <2>1. CASE file[m] = absent
    BY <1>0, <2>1, Records
       DEF Rename, SetAside, Sound, Under, Newer, Kept, Reads, In
  <2>2. CASE file[m] # absent
    <3>1. bak'[m] = file[m] /\ file'[m] = absent
      BY <2>2 DEF Rename, SetAside, TypeOK
    <3>2. hurt'[m] = IF file[m].whole THEN hurt[m] ELSE hurt[m] \cup {"clobbered"}
      BY <2>2 DEF Rename, SetAside, TypeOK, Hurts
    <3> QED BY <1>0, <2>2, <3>1, <3>2, Records
            DEF Sound, Under, Newer, Kept, Reads, In
  <2> QED BY <2>1, <2>2
<1>4. \A n \in File \ {m} : Sound(n)'
  BY <1>0, OneAtATime DEF Rename, SetAside, Hurts, TypeOK
<1> QED BY <1>1, <1>2, <1>3, <1>4

\* The new file is created, or its opening fails.
LEMMA OpenStep == ASSUME IInv, NEW m \in File, Open(m) PROVE IInv'
<1> USE DEF IInv
<1>0. /\ job # Idle /\ job.name = m /\ job.step = "open" /\ mem[m] # 0
      /\ mem[m] \in 0..MaxVersion /\ mem' = mem /\ saved' = saved
      /\ job.inplace => m \in Rom
  BY Records DEF Open, At, TypeOK, Job
<1>1. CASE /\ Goes("write")
           /\ file' = [file EXCEPT ![m] = Part(mem[m])]
           /\ UNCHANGED bak
           /\ IF job.inplace THEN Hurts(m, "mixed") ELSE UNCHANGED hurt
  <2>1. /\ job'.name = m /\ job'.step = "write" /\ job'.inplace = job.inplace
        /\ file'[m] = Part(mem[m])
        /\ hurt'[m] = IF job.inplace THEN hurt[m] \cup {"mixed"} ELSE hurt[m]
    BY <1>0, <1>1 DEF Goes, Hurts, TypeOK
  <2>2. TypeOK'
    <3>1. job' \in [step : Step, name : File \cup {"none"}, inplace : BOOLEAN]
      BY <1>1 DEF TypeOK, Goes, Step
    <3>2. file' \in [File -> Contents] /\ bak' \in [File -> Contents]
      <4>1. Part(mem[m]) \in Contents
        BY <1>0, Records
      <4> QED BY <1>1, <4>1 DEF TypeOK
    <3>3. hurt' \in [File -> SUBSET Hurt]
      BY <1>1 DEF TypeOK, Hurts, Hurt
    <3> QED BY <1>0, <3>1, <3>2, <3>3 DEF TypeOK
  <2>3. Job'
    BY <1>0, <2>1 DEF Job
  <2>4. Sound(m)'
    BY <1>0, <1>1, <2>1, Records, ZenonT(40)
       DEF Sound, Under, Newer, Kept, Reads, In, TypeOK
  <2>5. \A n \in File \ {m} : Sound(n)'
    BY <1>0, <1>1, <2>1, OneAtATime DEF Hurts, TypeOK
  <2> QED BY <2>2, <2>3, <2>4, <2>5
<1>2. CASE job' = Idle /\ m \in Ply /\ PutBack(m) /\ UNCHANGED hurt
  <2>1. ~job.inplace /\ job'.name = "none" /\ m # "none"
    BY <1>0, <1>2, Records, SaveAssumption
  <2>2. TypeOK'
    <3>1. file' \in [File -> Contents] /\ bak' \in [File -> Contents]
      BY <1>2, Records, SMTT(30) DEF TypeOK, PutBack
    <3> QED BY <1>0, <1>2, <3>1, JobTypes DEF TypeOK, Jobs
  <2>3. Job'
    BY <1>2 DEF Job
  <2>4. /\ file'[m] = IF bak[m] = absent THEN file[m] ELSE bak[m]
        /\ bak'[m] = absent
    BY <1>2 DEF PutBack, TypeOK
  <2>5. Sound(m)'
    BY <1>0, <1>2, <2>1, <2>4, Records
       DEF Sound, Under, Newer, Kept, Reads, In
  <2>6. \A n \in File \ {m} : Sound(n)'
    BY <1>0, <1>2, <2>1, OneAtATime DEF PutBack, TypeOK
  <2> QED BY <2>2, <2>3, <2>5, <2>6
<1>3. CASE job' = Idle /\ UNCHANGED <<file, bak>> /\ Hurts(m, "unopened")
  <2>1. job'.name = "none" /\ m # "none" /\ hurt'[m] = hurt[m] \cup {"unopened"}
    BY <1>3, Records, SaveAssumption DEF Hurts, TypeOK
  <2>2. TypeOK'
    BY <1>0, <1>3 DEF TypeOK, Idle, Step, Hurts, Hurt
  <2>3. Job'
    BY <1>3 DEF Job
  <2>4. Sound(m)'
    BY <1>0, <1>3, <2>1 DEF Sound, Under, Newer, Kept, Reads, In
  <2>5. \A n \in File \ {m} : Sound(n)'
    BY <1>0, <1>3, <2>1, OneAtATime DEF Hurts, TypeOK
  <2> QED BY <2>2, <2>3, <2>4, <2>5
<1> QED BY <1>1, <1>2, <1>3 DEF Open

\* It is written, or cut off by a full disk.
LEMMA WriteStep ==
    ASSUME IInv, NEW m \in File, Write(m) \/ WriteShort(m) PROVE IInv'
<1> USE DEF IInv
<1>0. /\ job # Idle /\ job.name = m /\ job.step = "write" /\ mem[m] # 0
      /\ mem[m] \in 0..MaxVersion /\ UNCHANGED <<bak, mem, saved>>
      /\ job'.name = m /\ job'.step = "unlink" /\ job'.inplace = job.inplace
      /\ job' = [job EXCEPT !.step = "unlink"]
  BY Records DEF Write, WriteShort, At, Goes, TypeOK, Job
<1>1. \/ file'[m] = Whole(mem[m]) /\ hurt' = hurt
      \/ file' = file /\ hurt'[m] = hurt[m] \cup {"short"}
  BY DEF Write, WriteShort, Hurts, TypeOK
<1>2. TypeOK'
  <2>1. job' \in Jobs
    BY <1>0, JobTypes DEF TypeOK, Jobs, Step
  <2>2. file' \in [File -> Contents]
    BY <1>0, Records DEF Write, WriteShort, TypeOK
  <2>3. hurt' \in [File -> SUBSET Hurt]
    BY DEF Write, WriteShort, TypeOK, Hurts, Hurt
  <2> QED BY <1>0, <2>1, <2>2, <2>3 DEF TypeOK, Jobs
<1>3. Job'
  BY <1>0 DEF Job
<1>4. Sound(m)'
  BY <1>0, <1>1, Records DEF Sound, Under, Newer, Kept, Reads, In, TypeOK
<1>5. \A n \in File \ {m} : Sound(n)'
  BY <1>0, OneAtATime DEF Write, WriteShort, Hurts, TypeOK
<1> QED BY <1>2, <1>3, <1>4, <1>5

\* The write fails with a report.
LEMMA WriteFailsStep == ASSUME IInv, NEW m \in File, WriteFails(m) PROVE IInv'
<1> USE DEF IInv
<1>0. /\ job # Idle /\ job.name = m /\ job.step = "write" /\ mem[m] # 0
      /\ m \in Rom /\ m \notin Ply /\ job' = Idle /\ UNCHANGED <<mem, saved, hurt>>
      /\ job'.name = "none" /\ m # "none"
  BY Records, SaveAssumption DEF WriteFails, At, TypeOK, Job
<1>1. \/ job.inplace /\ UNCHANGED <<file, bak>>
      \/ ~job.inplace /\ bak[m] # absent /\ file'[m] = bak[m] /\ bak'[m] = absent
      \/ ~job.inplace /\ bak[m] = absent /\ file'[m] = absent /\ bak' = bak
  BY DEF WriteFails, PutBack, TypeOK
<1>2. TypeOK'
  <2>1. file' \in [File -> Contents] /\ bak' \in [File -> Contents]
    BY Records DEF WriteFails, PutBack, TypeOK
  <2> QED BY <1>0, <2>1, JobTypes DEF TypeOK, Jobs
<1>3. Job'
  BY <1>0 DEF Job
<1>4. Sound(m)'
  BY <1>0, <1>1, Records DEF Sound, Under, Newer, Kept, Reads, In
<1>5. \A n \in File \ {m} : Sound(n)'
  BY <1>0, OneAtATime DEF WriteFails, PutBack, TypeOK
<1> QED BY <1>2, <1>3, <1>4, <1>5

\* The copy goes.
LEMMA UnlinkStep == ASSUME IInv, NEW m \in File, Unlink(m) PROVE IInv'
<1> USE DEF IInv
<1>0. /\ job # Idle /\ job.name = m /\ job.step = "unlink" /\ mem[m] # 0
      /\ mem[m] \in 0..MaxVersion /\ job' = Idle /\ UNCHANGED <<file, mem>>
      /\ job'.name = "none" /\ m # "none"
      /\ bak'[m] = Copy(m) /\ (m \in Ply => bak'[m] = absent)
  BY Records, SaveAssumption DEF Unlink, At, TypeOK, Job, Copy
<1>1. \/ /\ file[m] = Whole(mem[m]) /\ saved'[m] = mem[m] /\ hurt'[m] = {}
      \/ /\ file[m] = Part(mem[m]) /\ "short" \in hurt[m]
         /\ UNCHANGED <<saved, hurt>>
  BY <1>0, Records DEF Unlink, TypeOK, Sound, Under, In
<1>2. TypeOK'
  BY <1>0, Records DEF Unlink, TypeOK, Copy, Idle, Step
<1>3. Job'
  BY <1>0 DEF Job
<1>4. Sound(m)'
  BY <1>0, <1>1, Records DEF Sound, Under, Newer, Kept, Reads, In, TypeOK
<1>5. \A n \in File \ {m} : Sound(n)'
  BY <1>0, OneAtATime DEF Unlink, TypeOK
<1> QED BY <1>2, <1>3, <1>4, <1>5

\* A crash forgets what is in memory and cuts off the save under way.
LEMMA CrashStep == ASSUME IInv, Crash PROVE IInv'
<1> USE DEF IInv
<1>0. 0 \in 0..MaxVersion
  BY SaveAssumption
<1>1. TypeOK'
  BY <1>0 DEF Crash, TypeOK, Idle, Step, Hurts, Hurt
<1>2. Job'
  BY DEF Crash, Job
<1>3. ASSUME NEW n \in File PROVE Sound(n)'
  <2>1. /\ job'.name # n /\ mem'[n] = 0 /\ UNCHANGED <<file, bak, saved>>
    BY Records, SaveAssumption DEF Crash
  <2>2. CASE job.name = n
    <3>1. hurt'[n] = hurt[n] \cup {"cut"}
      BY <2>2, Records, SaveAssumption DEF Crash, Hurts, TypeOK
    <3>2. In(n, {"rename", "open", "write", "unlink"})
      BY <2>2, Records, SaveAssumption DEF In, TypeOK, Job, Step
    <3>3. file[n] = absent => bak[n] = absent \/ bak[n].version >= saved[n]
      BY DEF Sound, Newer
    <3> QED BY <2>1, <3>1, <3>3
            DEF Sound, Under, Newer, Kept, Reads, In
  <2>3. CASE job.name # n
    <3>1. hurt'[n] = hurt[n]
      BY <2>3 DEF Crash, Hurts, TypeOK
    <3> QED BY <2>1, <2>3, <3>1 DEF Sound, Under, Newer, Kept, Reads, In
  <2> QED BY <2>2, <2>3
<1> QED BY <1>1, <1>2, <1>3

-----------------------------------------------------------------------------

\* No step of a save, failure or crash leads out of the invariant.
LEMMA NextIInv == IInv /\ [Next]_vars => IInv'
<1> SUFFICES ASSUME IInv, [Next]_vars PROVE IInv'
  OBVIOUS
<1>1. CASE UNCHANGED vars
  BY <1>1 DEF vars, IInv, TypeOK, Job, Sound, Under, Newer, Kept, Reads, In
<1> QED BY <1>1, LoadStep, ProgressStep, ForgetStep, BeginStep, RenameStep, OpenStep,
           WriteStep, WriteFailsStep, UnlinkStep, CrashStep
        DEF Next

\* Every reachable state satisfies the invariant, whatever Ply and Rom are.
THEOREM AlwaysIInv == Spec => []IInv
  BY InitIInv, NextIInv, PTL DEF Spec

\* Wherever a save is cut off, what was last saved is still whole, under the
\* name of the file or in the copy.
THEOREM CopyAlwaysKept == Spec => []CopyKept
<1>1. IInv => CopyKept
  BY Records DEF IInv, Sound, Kept, Newer, CopyKept
<1> QED BY <1>1, AlwaysIInv, PTL

\* Between saves the file is what was last saved, also after saves that could
\* not open or write it.
THEOREM AlwaysReadsSaved == Spec => []ReadsSaved
<1>1. IInv => ReadsSaved
  BY DEF IInv, Sound, Reads, ReadsSaved, In
<1> QED BY <1>1, AlwaysIInv, PTL

-----------------------------------------------------------------------------
(* 2. RoomCache.                                                           *)

\* A set of natural numbers has a least one.
LEMMA Least ==
    ASSUME NEW T \in SUBSET Nat, T # {}
    PROVE  \E x \in T : \A y \in T : x <= y
<1>1. IsWellFoundedOn(OpToRel(<, Nat), Nat)
  BY NatLessThanWellFounded
<1>2. PICK x \in T : \A y \in T : <<y, x>> \notin OpToRel(<, Nat)
  BY <1>1, WFMin
<1>3. \A y \in T : ~(y < x)
  BY <1>2 DEF OpToRel
<1> QED BY <1>3

\* q is the queue of c: L tags, linked both ways.
Linked(c, q, L) ==
    /\ L \in Nat /\ c.size = L
    /\ q \in [1..L -> Room]
    /\ \A i, j \in 1..L : q[i] = q[j] => i = j
    /\ c.head = IF L = 0 THEN Nil ELSE q[1]
    /\ c.tail = IF L = 0 THEN Nil ELSE q[L]
    /\ \A i \in 1..L : /\ c.next[q[i]] = IF i = L THEN Nil ELSE q[i + 1]
                       /\ c.prev[q[i]] = IF i = 1 THEN Nil ELSE q[i - 1]

\* d differs from c in the links and the size only.
Relinked(c, d) ==
    /\ d \in CacheType
    /\ d.loaded = c.loaded /\ d.file = c.file /\ d.freed = c.freed
    /\ d.out = c.out /\ d.torn = c.torn

Links(c, n, h, l, nx, pv) ==
    [c EXCEPT !.size = n, !.head = h, !.tail = l, !.next = nx, !.prev = pv]

\* The fields of such a cache.
LEMMA LinksFields ==
    ASSUME NEW c \in CacheType, NEW n \in Nat, NEW h \in Ptr, NEW l \in Ptr,
           NEW nx \in [Room -> Ptr], NEW pv \in [Room -> Ptr]
    PROVE  LET d == Links(c, n, h, l, nx, pv)
           IN /\ Relinked(c, d)
              /\ d.size = n /\ d.head = h /\ d.tail = l
              /\ d.next = nx /\ d.prev = pv
  BY DEF CacheType, Links, Relinked

With(q, L, t) == [i \in 1..L+1 |-> IF i = 1 THEN t ELSE q[i - 1]]
Without(q, L, k) == [i \in 1..L-1 |-> IF i < k THEN q[i] ELSE q[i + 1]]

\* put_queue puts a tag that is in no queue in front.
LEMMA PutLinked ==
    ASSUME RoomCacheAssumption,
           NEW c \in CacheType, NEW q, NEW L, Linked(c, q, L),
           NEW t \in Room, \A i \in 1..L : q[i] # t
    PROVE  Linked(put_queue(c, t), With(q, L, t), L + 1) /\ Relinked(c, put_queue(c, t))
<1> DEFINE d == put_queue(c, t)
           w == With(q, L, t)
<1>0. Nil \notin Room
  BY DEF RoomCacheAssumption
<1>1. L \in Nat /\ c.size = L /\ q \in [1..L -> Room]
  BY DEF Linked
<1>2. w \in [1..L+1 -> Room] /\ w[1] = t /\ \A i \in 2..L+1 : w[i] = q[i - 1] /\ i - 1 \in 1..L
  BY <1>1 DEF With
<1>3. \A i, j \in 1..L+1 : w[i] = w[j] => i = j
  <2> SUFFICES ASSUME NEW i \in 1..L+1, NEW j \in 1..L+1, w[i] = w[j] PROVE i = j
    OBVIOUS
  <2> HIDE DEF w
  <2>1. CASE i = 1 \/ j = 1
    BY <2>1, <1>1, <1>2
  <2>2. CASE i \in 2..L+1 /\ j \in 2..L+1
    <3>1. i - 1 = j - 1
      BY <2>2, <1>1, <1>2 DEF Linked
    <3> QED BY <3>1
  <2> QED BY <2>1, <2>2, <1>1
<1>4. CASE L = 0
  <2>1. c.head = Nil
    BY <1>4 DEF Linked
  <2>2. /\ d.size = 1 /\ d.head = t /\ d.tail = t /\ d.next[t] = Nil /\ d.prev[t] = Nil
        /\ Relinked(c, d)
    <3>1. d = Links(c, c.size + 1, t, t, [c.next EXCEPT ![t] = Nil],
                                         [c.prev EXCEPT ![t] = Nil])
      BY <2>1 DEF put_queue, Links, CacheType
    <3>2. /\ c.size + 1 = 1 /\ t \in Ptr
          /\ [c.next EXCEPT ![t] = Nil] \in [Room -> Ptr]
          /\ [c.prev EXCEPT ![t] = Nil] \in [Room -> Ptr]
          /\ [c.next EXCEPT ![t] = Nil][t] = Nil
          /\ [c.prev EXCEPT ![t] = Nil][t] = Nil
      BY <1>1, <1>4 DEF CacheType, Ptr
    <3> HIDE DEF d
    <3> QED BY <3>1, <3>2, LinksFields, Z3T(30)
  <2> HIDE DEF d, w
  <2>3. Linked(d, w, L + 1)
    BY <2>2, <1>2, <1>3, <1>4 DEF Linked
  <2> QED BY <2>2, <2>3 DEF d, w
<1>5. CASE L # 0
  <2>0. L \in 1..L /\ 1 \in 1..L
    BY <1>5, <1>1
  <2>1. c.head = q[1] /\ c.tail = q[L] /\ c.head \in Room /\ c.head # Nil
    BY <2>0, <1>0, <1>1, <1>5 DEF Linked
  <2>2. /\ d.size = L + 1 /\ d.head = t /\ d.tail = c.tail
        /\ d.next = [c.next EXCEPT ![t] = c.head]
        /\ d.prev = [[c.prev EXCEPT ![c.head] = t] EXCEPT ![t] = Nil]
        /\ Relinked(c, d)
    <3>1. d = Links(c, c.size + 1, t, c.tail, [c.next EXCEPT ![t] = c.head],
                    [[c.prev EXCEPT ![c.head] = t] EXCEPT ![t] = Nil])
      BY <2>1 DEF put_queue, Links, CacheType
    <3>2. /\ c.size + 1 = L + 1 /\ L + 1 \in Nat /\ t \in Ptr /\ c.tail \in Ptr
          /\ [c.next EXCEPT ![t] = c.head] \in [Room -> Ptr]
          /\ [[c.prev EXCEPT ![c.head] = t] EXCEPT ![t] = Nil] \in [Room -> Ptr]
      BY <1>1, <2>1 DEF CacheType, Ptr
    <3> DEFINE nx == [c.next EXCEPT ![t] = c.head]
               pv == [[c.prev EXCEPT ![c.head] = t] EXCEPT ![t] = Nil]
    <3> HIDE DEF d, nx, pv
    <3>3. d = Links(c, L + 1, t, c.tail, nx, pv)
      BY <3>1, <3>2 DEF nx, pv
    <3>4. nx \in [Room -> Ptr] /\ pv \in [Room -> Ptr]
      BY <3>2 DEF nx, pv
    <3>5. /\ Relinked(c, d) /\ d.size = L + 1 /\ d.head = t
          /\ d.tail = c.tail /\ d.next = nx /\ d.prev = pv
      BY <3>2, <3>3, <3>4, LinksFields, Z3T(30)
    <3> QED BY <3>5 DEF nx, pv
  <2>3. c.next \in [Room -> Ptr] /\ c.prev \in [Room -> Ptr]
    BY DEF CacheType
  <2>4. d.next[t] = q[1] /\ d.prev[t] = Nil
    BY <2>1, <2>2, <2>3
  <2>5. ASSUME NEW i \in 1..L
        PROVE /\ d.next[q[i]] = c.next[q[i]]
              /\ d.prev[q[i]] = IF i = 1 THEN t ELSE c.prev[q[i]]
    <3>1. q[i] # t /\ q[i] \in Room /\ (q[i] = q[1] => i = 1)
      BY <1>1, <2>0 DEF Linked
    <3> QED BY <3>1, <2>1, <2>2, <2>3
  <2> HIDE DEF d, w
  <2>6. ASSUME NEW i \in 1..L+1
        PROVE  /\ d.next[w[i]] = IF i = L + 1 THEN Nil ELSE w[i + 1]
               /\ d.prev[w[i]] = IF i = 1 THEN Nil ELSE w[i - 1]
    <3>1. CASE i = 1
      BY <3>1, <2>4, <1>2, <1>5, <1>1
    <3>2. CASE i # 1
      <4>1. i \in 2..L+1 /\ i - 1 \in 1..L /\ w[i] = q[i - 1]
        BY <3>2, <1>2, <1>1
      <4>2. /\ c.next[q[i - 1]] = IF i - 1 = L THEN Nil ELSE q[(i - 1) + 1]
            /\ c.prev[q[i - 1]] = IF i - 1 = 1 THEN Nil ELSE q[(i - 1) - 1]
        BY <4>1 DEF Linked
      <4>3. i # L + 1 => w[i + 1] = q[i]
        BY <4>1, <1>1, <1>2
      <4>4. i # 2 => w[i - 1] = q[i - 2]
        BY <4>1, <1>1, <1>2
      <4>5. /\ d.next[q[i - 1]] = c.next[q[i - 1]]
            /\ d.prev[q[i - 1]] = IF i - 1 = 1 THEN t ELSE c.prev[q[i - 1]]
        BY <4>1, <2>5
      <4> QED BY <4>1, <4>2, <4>3, <4>4, <4>5, <1>2, <1>1
    <3> QED BY <3>1, <3>2
  <2>7. w[L + 1] = q[L] /\ w[1] = t
    BY <1>2, <1>1, <1>5
  <2>8. Linked(d, w, L + 1)
    BY <2>1, <2>2, <2>6, <2>7, <1>1, <1>2, <1>3 DEF Linked
  <2> QED BY <2>2, <2>8 DEF d, w
<1> QED BY <1>4, <1>5

\* pull_queue takes the last tag.
LEMMA PullLinked ==
    ASSUME RoomCacheAssumption,
           NEW c \in CacheType, NEW q, NEW L, Linked(c, q, L), L # 0
    PROVE  /\ Linked(pull_queue(c), Without(q, L, L), L - 1)
           /\ Relinked(c, pull_queue(c))
           /\ c.tail = q[L] /\ c.tail \in Room
<1> DEFINE d == pull_queue(c)
           w == Without(q, L, L)
<1>0. Nil \notin Room
  BY DEF RoomCacheAssumption
<1>1. L \in Nat /\ c.size = L /\ q \in [1..L -> Room] /\ L \in 1..L
  BY DEF Linked
<1>2. w \in [1..L-1 -> Room] /\ \A i \in 1..L-1 : w[i] = q[i] /\ i \in 1..L
  BY <1>1 DEF Without
<1>3. \A i, j \in 1..L-1 : w[i] = w[j] => i = j
  BY <1>2 DEF Linked
<1>4. c.tail = q[L] /\ c.tail \in Room /\ c.prev[c.tail] = IF L = 1 THEN Nil ELSE q[L - 1]
  BY <1>1 DEF Linked
<1>5. CASE L = 1
  <2>1. d.size = 0 /\ d.head = Nil /\ d.tail = Nil /\ Relinked(c, d)
    <3>1. d = Links(c, c.size - 1, Nil, Nil, c.next, c.prev)
      BY <1>4, <1>5 DEF pull_queue, Links, CacheType
    <3>2. c.size - 1 = 0 /\ Nil \in Ptr /\ c.next \in [Room -> Ptr] /\ c.prev \in [Room -> Ptr]
      BY <1>1, <1>5 DEF CacheType, Ptr
    <3> DEFINE nx == c.next
               pv == c.prev
    <3> HIDE DEF d, w, nx, pv
    <3>3. d = Links(c, 0, Nil, Nil, nx, pv)
      BY <3>1, <3>2 DEF nx, pv
    <3>4. nx \in [Room -> Ptr] /\ pv \in [Room -> Ptr] /\ Nil \in Ptr /\ 0 \in Nat
      BY <3>2 DEF nx, pv
    <3> QED BY <3>3, <3>4, LinksFields, Z3T(30)
  <2> HIDE DEF d, w
  <2>2. Linked(d, w, L - 1)
    BY <2>1, <1>2, <1>3, <1>5 DEF Linked
  <2> QED BY <2>1, <2>2, <1>4 DEF d, w
<1>6. CASE L # 1
  <2>0. L - 1 \in 1..L /\ q[L - 1] \in Room /\ 1 \in 1..L-1
    BY <1>6, <1>1
  <2>1. /\ d.size = L - 1 /\ d.head = c.head /\ d.tail = q[L - 1]
        /\ d.next = [c.next EXCEPT ![q[L - 1]] = Nil] /\ d.prev = c.prev
        /\ Relinked(c, d)
    <3>1. c.prev[c.tail] = q[L - 1] /\ q[L - 1] # Nil
      BY <1>4, <1>6, <2>0, <1>0
    <3>2. d = Links(c, c.size - 1, c.head, q[L - 1],
                    [c.next EXCEPT ![q[L - 1]] = Nil], c.prev)
      BY <3>1, <1>4 DEF pull_queue, Links, CacheType
    <3>3. /\ c.size - 1 = L - 1 /\ L - 1 \in Nat /\ c.head \in Ptr /\ q[L - 1] \in Ptr
          /\ [c.next EXCEPT ![q[L - 1]] = Nil] \in [Room -> Ptr] /\ c.prev \in [Room -> Ptr]
      BY <1>1, <2>0 DEF CacheType, Ptr
    <3> DEFINE nx == [c.next EXCEPT ![q[L - 1]] = Nil]
    <3> HIDE DEF d, nx
    <3>4. d = Links(c, L - 1, c.head, q[L - 1], nx, c.prev)
      BY <3>2, <3>3 DEF nx
    <3>5. nx \in [Room -> Ptr]
      BY <3>3 DEF nx
    <3>6. /\ Relinked(c, d) /\ d.size = L - 1 /\ d.head = c.head
          /\ d.tail = q[L - 1] /\ d.next = nx /\ d.prev = c.prev
      BY <3>3, <3>4, <3>5, LinksFields, Z3T(30)
    <3> QED BY <3>6 DEF nx
  <2>2. c.next \in [Room -> Ptr]
    BY DEF CacheType
  <2>3. ASSUME NEW i \in 1..L-1
        PROVE  /\ d.next[q[i]] = IF i = L - 1 THEN Nil ELSE q[i + 1]
               /\ d.prev[q[i]] = IF i = 1 THEN Nil ELSE q[i - 1]
    <3>1. i \in 1..L /\ i # L /\ q[i] \in Room /\ (q[i] = q[L - 1] => i = L - 1)
      BY <1>1, <2>0 DEF Linked
    <3>2. /\ c.next[q[i]] = q[i + 1]
          /\ c.prev[q[i]] = IF i = 1 THEN Nil ELSE q[i - 1]
      BY <3>1 DEF Linked
    <3> QED BY <3>1, <3>2, <2>1, <2>2
  <2>4. \A i \in 1..L-1 : (i # L - 1 => w[i + 1] = q[i + 1]) /\ (i # 1 => w[i - 1] = q[i - 1])
    BY <1>2, <1>1
  <2>5. c.head = q[1] /\ w[1] = q[1] /\ w[L - 1] = q[L - 1]
    BY <1>1, <1>2, <2>0 DEF Linked
  <2> HIDE DEF d, w
  <2>6. Linked(d, w, L - 1)
    BY <2>0, <2>1, <2>3, <2>4, <2>5, <1>1, <1>2, <1>3, <1>6 DEF Linked
  <2> QED BY <2>1, <2>6, <1>4 DEF d, w
<1> QED BY <1>5, <1>6

\* The first half of front_queue takes a tag out from where it is.
LEMMA UnlinkedLinked ==
    ASSUME RoomCacheAssumption,
           NEW c \in CacheType, NEW q, NEW L, Linked(c, q, L), NEW k \in 1..L
    PROVE  /\ Linked([Unlinked(c, q[k]) EXCEPT !.size = @ - 1], Without(q, L, k), L - 1)
           /\ Relinked(c, [Unlinked(c, q[k]) EXCEPT !.size = @ - 1])
<1> DEFINE t == q[k]
           d == [Unlinked(c, t) EXCEPT !.size = @ - 1]
           w == Without(q, L, k)
           p == IF k = 1 THEN Nil ELSE q[k - 1]
           n == IF k = L THEN Nil ELSE q[k + 1]
           h == IF n = Nil THEN (IF p = Nil THEN Nil ELSE c.head)
                ELSE IF t = c.head THEN n ELSE c.head
           l == IF p = Nil THEN (IF n = Nil THEN Nil ELSE c.tail)
                ELSE IF t = c.tail THEN p ELSE c.tail
           nx == IF p = Nil THEN c.next ELSE [c.next EXCEPT ![p] = n]
           pv == IF n = Nil THEN c.prev ELSE [c.prev EXCEPT ![n] = p]
<1>0. Nil \notin Room
  BY DEF RoomCacheAssumption
<1>1. L \in Nat /\ L # 0 /\ c.size = L /\ q \in [1..L -> Room] /\ L \in 1..L /\ 1 \in 1..L
  BY DEF Linked
<1>2. /\ k # 1 => k - 1 \in 1..L /\ q[k - 1] \in Room /\ q[k - 1] # Nil
      /\ k # L => k + 1 \in 1..L /\ q[k + 1] \in Room /\ q[k + 1] # Nil
  BY <1>0, <1>1
<1>3. c.prev[t] = p /\ c.next[t] = n /\ c.head = q[1] /\ c.tail = q[L] /\ t \in Room
  BY <1>1 DEF Linked
<1>4. /\ p = Nil <=> k = 1
      /\ n = Nil <=> k = L
      /\ t = c.head <=> k = 1
      /\ t = c.tail <=> k = L
  <2>1. (q[k] = q[1] => k = 1) /\ (q[k] = q[L] => k = L)
    BY <1>1 DEF Linked
  <2> QED BY <2>1, <1>2, <1>3
<1>5. /\ p \in Ptr /\ n \in Ptr /\ c.head \in Ptr /\ c.tail \in Ptr
      /\ c.next \in [Room -> Ptr] /\ c.prev \in [Room -> Ptr]
  BY <1>2 DEF CacheType, Ptr
<1> HIDE DEF p, n, t
<1>6. d = Links(c, c.size - 1, h, l, nx, pv)
  BY <1>3, ZenonT(40) DEF Unlinked, Links, CacheType
<1>7. /\ h \in Ptr /\ l \in Ptr /\ nx \in [Room -> Ptr] /\ pv \in [Room -> Ptr]
      /\ L - 1 \in Nat
  BY <1>5, <1>1 DEF Ptr
<1>8. /\ h = IF k = L THEN (IF k = 1 THEN Nil ELSE q[1])
             ELSE IF k = 1 THEN n ELSE q[1]
      /\ l = IF k = 1 THEN (IF k = L THEN Nil ELSE q[L])
             ELSE IF k = L THEN p ELSE q[L]
  BY <1>3, <1>4
<1>9. ASSUME NEW i \in 1..L, i # k
      PROVE  /\ nx[q[i]] = IF i = k - 1 THEN n ELSE c.next[q[i]]
             /\ pv[q[i]] = IF i = k + 1 THEN p ELSE c.prev[q[i]]
  <2>1. q[i] \in Room
    BY <1>1
  <2>2. k # 1 => (p = q[k - 1] /\ p \in Room /\ (q[i] = p <=> i = k - 1))
    BY <1>2, <1>1 DEF Linked, p
  <2>3. k # L => (n = q[k + 1] /\ n \in Room /\ (q[i] = n <=> i = k + 1))
    BY <1>2, <1>1 DEF Linked, n
  <2>4. k = 1 => i # k - 1
    OBVIOUS
  <2>5. k = L => i # k + 1
    BY <1>1
  <2>6. nx[q[i]] = IF i = k - 1 THEN n ELSE c.next[q[i]]
    <3>1. CASE k = 1
      BY <3>1, <1>4, <2>4
    <3>2. CASE k # 1
      <4>1. nx = [c.next EXCEPT ![p] = n]
        BY <3>2, <1>4
      <4> HIDE DEF nx
      <4> QED BY <4>1, <3>2, <2>1, <2>2, <1>5
    <3> QED BY <3>1, <3>2
  <2>7. pv[q[i]] = IF i = k + 1 THEN p ELSE c.prev[q[i]]
    <3>1. CASE k = L
      BY <3>1, <1>4, <2>5
    <3>2. CASE k # L
      <4>1. pv = [c.prev EXCEPT ![n] = p]
        BY <3>2, <1>4
      <4> HIDE DEF pv
      <4> QED BY <4>1, <3>2, <2>1, <2>3, <1>5
    <3> QED BY <3>1, <3>2
  <2> QED BY <2>6, <2>7
<1> HIDE DEF d, h, l, nx, pv
<1>10. /\ Relinked(c, d) /\ d.size = L - 1 /\ d.head = h /\ d.tail = l
       /\ d.next = nx /\ d.prev = pv
  <2>1. d = Links(c, L - 1, h, l, nx, pv)
    BY <1>6, <1>1
  <2> QED BY <2>1, <1>7, LinksFields, Z3
<1>11. w \in [1..L-1 -> Room]
       /\ \A i \in 1..L-1 : w[i] = (IF i < k THEN q[i] ELSE q[i + 1])
                            /\ i \in 1..L /\ i + 1 \in 1..L
  BY <1>1 DEF Without
<1> HIDE DEF w
<1>12. \A i, j \in 1..L-1 : w[i] = w[j] => i = j
  <2> SUFFICES ASSUME NEW i \in 1..L-1, NEW j \in 1..L-1, w[i] = w[j] PROVE i = j
    OBVIOUS
  <2> DEFINE a == IF i < k THEN i ELSE i + 1
             b == IF j < k THEN j ELSE j + 1
  <2>1. q[a] = q[b] /\ a \in 1..L /\ b \in 1..L
    BY <1>11
  <2>2. a = b
    <3> HIDE DEF a, b
    <3> QED BY <2>1 DEF Linked
  <2> QED BY <2>2
<1>13. ASSUME NEW i \in 1..L-1
       PROVE  /\ d.next[w[i]] = IF i = L - 1 THEN Nil ELSE w[i + 1]
              /\ d.prev[w[i]] = IF i = 1 THEN Nil ELSE w[i - 1]
  <2> DEFINE a == IF i < k THEN i ELSE i + 1
  <2>1. w[i] = q[a] /\ a \in 1..L /\ a # k
    BY <1>11
  <2>2. /\ c.next[q[a]] = IF a = L THEN Nil ELSE q[a + 1]
        /\ c.prev[q[a]] = IF a = 1 THEN Nil ELSE q[a - 1]
    <3> HIDE DEF a
    <3> QED BY <2>1 DEF Linked
  <2>3. /\ d.next[q[a]] = IF a = k - 1 THEN n ELSE c.next[q[a]]
        /\ d.prev[q[a]] = IF a = k + 1 THEN p ELSE c.prev[q[a]]
    <3> HIDE DEF a
    <3> QED BY <2>1, <1>9, <1>10
  <2>4. i # L - 1 => w[i + 1] = IF i + 1 < k THEN q[i + 1] ELSE q[i + 2]
    BY <1>11, <1>1
  <2>5. i # 1 => w[i - 1] = IF i - 1 < k THEN q[i - 1] ELSE q[i]
    BY <1>11, <1>1
  <2>6. d.next[q[a]] = IF i = L - 1 THEN Nil ELSE w[i + 1]
    <3>1. CASE i + 1 < k
      BY <3>1, <2>2, <2>3, <2>4, <1>1
    <3>2. CASE i + 1 = k
      BY <3>2, <2>2, <2>3, <2>4, <1>1 DEF n
    <3>3. CASE i >= k
      BY <3>3, <2>2, <2>3, <2>4, <1>1
    <3> QED BY <3>1, <3>2, <3>3
  <2>7. d.prev[q[a]] = IF i = 1 THEN Nil ELSE w[i - 1]
    <3>1. CASE i < k
      BY <3>1, <2>2, <2>3, <2>5, <1>1
    <3>2. CASE i = k
      BY <3>2, <2>2, <2>3, <2>5, <1>1 DEF p
    <3>3. CASE i > k
      BY <3>3, <2>2, <2>3, <2>5, <1>1
    <3> QED BY <3>1, <3>2, <3>3
  <2> HIDE DEF a
  <2> QED BY <2>1, <2>6, <2>7
<1>14. /\ h = IF L - 1 = 0 THEN Nil ELSE w[1]
       /\ l = IF L - 1 = 0 THEN Nil ELSE w[L - 1]
  <2>1. L - 1 # 0 => 1 \in 1..L-1 /\ L - 1 \in 1..L-1
    BY <1>1
  <2>2. L - 1 # 0 => w[1] = IF k = 1 THEN q[2] ELSE q[1]
    BY <2>1, <1>11
  <2>3. L - 1 # 0 => w[L - 1] = IF k = L THEN q[L - 1] ELSE q[L]
    BY <2>1, <1>11, <1>1
  <2> QED BY <2>2, <2>3, <1>8, <1>1 DEF n, p
<1>15. Linked(d, w, L - 1)
  BY <1>7, <1>10, <1>11, <1>12, <1>13, <1>14 DEF Linked
<1> QED BY <1>10, <1>15 DEF d, w, t

\* front_queue moves a tag of the queue to its front.
Fronted(q, L, k) == [i \in 1..L |-> IF i = 1 THEN q[k] ELSE IF i <= k THEN q[i - 1] ELSE q[i]]

\* front_queue moves a tag of the queue to its front.
LEMMA FrontLinked ==
    ASSUME RoomCacheAssumption,
           NEW c \in CacheType, NEW q, NEW L, Linked(c, q, L), NEW k \in 1..L
    PROVE  /\ Linked(front_queue(c, q[k]), Fronted(q, L, k), L)
           /\ Relinked(c, front_queue(c, q[k]))
<1> DEFINE d == [Unlinked(c, q[k]) EXCEPT !.size = @ - 1]
           w == Without(q, L, k)
<1>1. Linked(d, w, L - 1) /\ Relinked(c, d)
  BY UnlinkedLinked
<1>2. L \in Nat /\ L # 0 /\ q \in [1..L -> Room] /\ q[k] \in Room
  BY DEF Linked
<1>3. \A i \in 1..L-1 : w[i] # q[k]
  <2> SUFFICES ASSUME NEW i \in 1..L-1, w[i] = q[k] PROVE FALSE
    OBVIOUS
  <2>1. CASE i < k
    <3>1. w[i] = q[i] /\ i \in 1..L /\ i # k
      BY <2>1, <1>2 DEF Without
    <3> QED BY <3>1 DEF Linked
  <2>2. CASE ~(i < k)
    <3>1. w[i] = q[i + 1] /\ i + 1 \in 1..L /\ i + 1 # k
      BY <2>2, <1>2 DEF Without
    <3> QED BY <3>1 DEF Linked
  <2> QED BY <2>1, <2>2
<1>4. front_queue(c, q[k]) = put_queue(d, q[k])
  BY DEF front_queue
<1>5. d \in CacheType
  BY <1>1 DEF Relinked
<1> HIDE DEF d
<1>6. /\ Linked(put_queue(d, q[k]), With(w, L - 1, q[k]), (L - 1) + 1)
      /\ Relinked(d, put_queue(d, q[k]))
  <2> HIDE DEF w
  <2> DEFINE t == q[k]
             K == L - 1
  <2>1. t \in Room /\ Linked(d, w, K) /\ \A i \in 1..K : w[i] # t
    BY <1>1, <1>2, <1>3
  <2> HIDE DEF t, K
  <2>2. Linked(put_queue(d, t), With(w, K, t), K + 1) /\ Relinked(d, put_queue(d, t))
    BY <2>1, <1>5, PutLinked
  <2> QED BY <2>2 DEF t, K
<1>7. (L - 1) + 1 = L
  BY <1>2
<1>8. With(w, L - 1, q[k]) = Fronted(q, L, k)
  <2>1. ASSUME NEW i \in 1..L
        PROVE  (IF i = 1 THEN q[k] ELSE w[i - 1])
               = (IF i = 1 THEN q[k] ELSE IF i <= k THEN q[i - 1] ELSE q[i])
    <3>1. CASE i = 1
      BY <3>1
    <3>2. CASE i # 1
      <4>1. i - 1 \in 1..L-1 /\ (i - 1) + 1 = i /\ (i - 1 < k <=> i <= k)
        BY <3>2, <1>2
      <4>2. w[i - 1] = IF i - 1 < k THEN q[i - 1] ELSE q[(i - 1) + 1]
        BY <4>1 DEF Without
      <4> QED BY <4>1, <4>2, <3>2
    <3> QED BY <3>1, <3>2
  <2> HIDE DEF w
  <2> QED BY <2>1, <1>7 DEF With, Fronted
<1> QED BY <1>1, <1>4, <1>6, <1>7, <1>8 DEF Relinked

\* What load_rom does with an occupied room at the tail: it goes to the front.
Turned(c) == put_queue(pull_queue(c), c.tail)

\* It brings the last tag of the queue to its front.
LEMMA TurnLinked ==
    ASSUME RoomCacheAssumption,
           NEW c \in CacheType, NEW q, NEW L, Linked(c, q, L), L # 0
    PROVE  Linked(Turned(c), Fronted(q, L, L), L) /\ Relinked(c, Turned(c))
<1> DEFINE d == pull_queue(c)
           w == Without(q, L, L)
           t == q[L]
<1>1. Linked(d, w, L - 1) /\ Relinked(c, d) /\ c.tail = t /\ t \in Room
  BY PullLinked
<1>2. L \in Nat /\ L \in 1..L /\ q \in [1..L -> Room]
  BY DEF Linked
<1>3. \A i \in 1..L-1 : w[i] # t
  <2> SUFFICES ASSUME NEW i \in 1..L-1, w[i] = t PROVE FALSE
    OBVIOUS
  <2>1. w[i] = q[i] /\ i \in 1..L /\ i # L
    BY <1>2 DEF Without
  <2> QED BY <2>1, <1>2 DEF Linked
<1>4. Turned(c) = put_queue(d, t)
  BY <1>1 DEF Turned
<1>5. d \in CacheType
  BY <1>1 DEF Relinked
<1> HIDE DEF d
<1>6. Linked(put_queue(d, t), With(w, L - 1, t), (L - 1) + 1) /\ Relinked(d, put_queue(d, t))
  <2> DEFINE K == L - 1
  <2> HIDE DEF w, t, K
  <2>1. Linked(d, w, K) /\ \A i \in 1..K : w[i] # t
    BY <1>1, <1>3 DEF K
  <2>2. Linked(put_queue(d, t), With(w, K, t), K + 1) /\ Relinked(d, put_queue(d, t))
    BY <2>1, <1>1, <1>5, PutLinked
  <2> QED BY <2>2 DEF K
<1>7. (L - 1) + 1 = L
  BY <1>2
<1>8. With(w, L - 1, t) = Fronted(q, L, L)
  <2>1. ASSUME NEW i \in 1..L
        PROVE  (IF i = 1 THEN t ELSE w[i - 1])
               = (IF i = 1 THEN t ELSE IF i <= L THEN q[i - 1] ELSE q[i])
    <3>1. i # 1 => w[i - 1] = q[i - 1]
      BY <1>2 DEF Without
    <3> HIDE DEF w, t
    <3> QED BY <3>1, <1>2
  <2> HIDE DEF w
  <2> QED BY <2>1, <1>7 DEF With, Fronted
<1> QED BY <1>1, <1>4, <1>6, <1>7, <1>8 DEF Relinked

\* The queue after n occupied rooms have been put back in front.
Turning(c, n, f) ==
    f = [i \in 0..n |-> IF i = 0 THEN c
                        ELSE put_queue(pull_queue(f[i - 1]), f[i - 1].tail)]

\* There is such a function: every cache has a last tag to put in front.
LEMMA TurningExists ==
    ASSUME NEW c, NEW N \in Nat
    PROVE  \E f : Turning(c, N, f)
<1> DEFINE Bad == {n \in Nat : ~ \E f : Turning(c, n, f)}
<1> SUFFICES ASSUME N \in Bad PROVE FALSE
  OBVIOUS
<1>1. PICK n \in Bad : \A k \in Bad : n <= k
  BY Least
<1>2. n # 0
  <2> DEFINE f == [k \in 0..0 |-> c]
  <2>1. Turning(c, 0, f)
    BY DEF Turning
  <2> QED BY <2>1
<1>3. n - 1 \in Nat /\ n - 1 \notin Bad
  BY <1>1, <1>2
<1>4. PICK g : Turning(c, n - 1, g)
  BY <1>3
<1> DEFINE f == [k \in 0..n |-> IF k = n THEN Turned(g[n - 1]) ELSE g[k]]
<1>5. \A k \in 0..n - 1 : g[k] = IF k = 0 THEN c ELSE Turned(g[k - 1])
  BY <1>4 DEF Turning, Turned
<1>6. ASSUME NEW k \in 0..n
      PROVE  f[k] = IF k = 0 THEN c ELSE Turned(f[k - 1])
  <2>1. CASE k = n
    BY <2>1, <1>2, <1>3
  <2>2. CASE k = 0
    BY <2>2, <1>2, <1>3, <1>5
  <2>3. CASE k # n /\ k # 0
    <3>1. k \in 0..n - 1 /\ k - 1 \in 0..n /\ k - 1 # n
      BY <2>3, <1>3
    <3>2. f[k] = g[k] /\ f[k - 1] = g[k - 1]
      BY <3>1, <2>3
    <3> HIDE DEF f
    <3> QED BY <3>1, <3>2, <2>3, <1>5
  <2> QED BY <2>1, <2>2, <2>3
<1>7. Turning(c, n, f)
  <2>1. DOMAIN f = 0..n /\ f = [k \in 0..n |-> f[k]]
    OBVIOUS
  <2> HIDE DEF f
  <2>2. f = [k \in 0..n |-> IF k = 0 THEN c ELSE Turned(f[k - 1])]
    BY <2>1, <1>6
  <2> QED BY <2>1, <2>2 DEF Turning, Turned
<1> QED BY <1>1, <1>7

\* Rotated turns once more with every number.
LEMMA RotatedRecursion ==
    ASSUME NEW c, NEW N \in Nat
    PROVE  \E f : Rotated(c, N) = f[N] /\ \A i \in 0..N : f[i] = IF i = 0 THEN c ELSE Turned(f[i - 1])
<1> DEFINE turn == CHOOSE f : f = [i \in 0..N |-> IF i = 0 THEN c
                        ELSE put_queue(pull_queue(f[i - 1]), f[i - 1].tail)]
<1>1. Rotated(c, N) = turn[N]
  BY DEF Rotated
<1>2. turn = [i \in 0..N |-> IF i = 0 THEN c
                        ELSE put_queue(pull_queue(turn[i - 1]), turn[i - 1].tail)]
  BY TurningExists DEF Turning
<1> HIDE DEF turn
<1>3. \A i \in 0..N : turn[i] = IF i = 0 THEN c ELSE Turned(turn[i - 1])
  BY <1>2 DEF Turned
<1> QED BY <1>1, <1>3

Round(q, L, n) == [i \in 1..L |-> IF i <= n THEN q[L - n + i] ELSE q[i - n]]

\* After n turns the last n tags are in front, in their order.
LEMMA RotatedLinked ==
    ASSUME RoomCacheAssumption,
           NEW c \in CacheType, NEW q, NEW L, Linked(c, q, L), NEW N \in 0..L-1
    PROVE  Linked(Rotated(c, N), Round(q, L, N), L) /\ Relinked(c, Rotated(c, N))
<1>0. L \in Nat /\ L # 0 /\ q \in [1..L -> Room] /\ N \in Nat /\ DOMAIN q = 1..L
  BY DEF Linked
<1>1. PICK f : Rotated(c, N) = f[N] /\ \A i \in 0..N : f[i] = IF i = 0 THEN c ELSE Turned(f[i - 1])
  BY <1>0, RotatedRecursion
<1> DEFINE Good(n) == Linked(f[n], Round(q, L, n), L) /\ Relinked(c, f[n])
           Bad == {n \in 0..N : ~Good(n)}
<1>2. Bad = {}
  <2> SUFFICES ASSUME Bad # {} PROVE FALSE
    OBVIOUS
  <2>0. Bad \in SUBSET Nat
    OBVIOUS
  <2>1. PICK n \in Bad : \A j \in Bad : n <= j
    <3> HIDE DEF Bad
    <3> QED BY <2>0, Least
  <2>2. n # 0
    <3> SUFFICES Good(0)
      BY <2>1
    <3>1. Round(q, L, 0) = q
      <4>1. \A i \in 1..L : (IF i <= 0 THEN q[L - 0 + i] ELSE q[i - 0]) = q[i]
        OBVIOUS
      <4> QED BY <4>1, <1>0 DEF Round
    <3>2. f[0] = c
      BY <1>1, <1>0
    <3> QED BY <3>1, <3>2 DEF Relinked
  <2>3. n - 1 \in 0..N /\ n - 1 \notin Bad /\ n \in 1..N
    BY <2>1, <2>2, <1>0
  <2>4. Good(n - 1) /\ f[n] = Turned(f[n - 1])
    BY <2>1, <2>2, <2>3, <1>1
  <2> DEFINE g == f[n - 1]
             w == Round(q, L, n - 1)
  <2>5. g \in CacheType /\ Linked(g, w, L)
    BY <2>4 DEF Relinked
  <2> HIDE DEF g, w
  <2>6. Linked(Turned(g), Fronted(w, L, L), L) /\ Relinked(g, Turned(g))
    BY <2>5, <1>0, TurnLinked
  <2>7. Fronted(w, L, L) = Round(q, L, n)
    <3>1. ASSUME NEW i \in 1..L
          PROVE  (IF i = 1 THEN w[L] ELSE IF i <= L THEN w[i - 1] ELSE w[i])
                 = (IF i <= n THEN q[L - n + i] ELSE q[i - n])
      <4>1. w[L] = q[L - n + 1]
        <5>1. L \in 1..L /\ ~(L <= n - 1) /\ L - (n - 1) = L - n + 1
          BY <2>3, <1>0
        <5> QED BY <5>1 DEF w, Round
      <4>2. i # 1 => w[i - 1] = IF i <= n THEN q[L - n + i] ELSE q[i - n]
        <5>1. i # 1 => /\ i - 1 \in 1..L /\ (i - 1 <= n - 1 <=> i <= n)
                       /\ L - (n - 1) + (i - 1) = L - n + i /\ (i - 1) - (n - 1) = i - n
          BY <2>3, <1>0
        <5> QED BY <5>1 DEF w, Round
      <4> QED BY <4>1, <4>2, <2>3, <1>0
    <3> QED BY <3>1 DEF Fronted, Round
  <2>8. Good(n)
    BY <2>4, <2>6, <2>7 DEF Relinked, g
  <2> QED BY <2>1, <2>8
<1>3. Good(N)
  BY <1>2, <1>0
<1> QED BY <1>1, <1>3

-----------------------------------------------------------------------------
(* How many rooms there can be in the queue.                               *)

\* Different rooms: there are as many as their numbers say, and no more than
\* there are rooms.
LEMMA QueueCount ==
    ASSUME RoomCacheAssumption,
           NEW L \in Nat, NEW q \in [1..L -> Room],
           \A i, j \in 1..L : q[i] = q[j] => i = j
    PROVE  /\ Cardinality({q[i] : i \in 1..L}) = L
           /\ L <= Cardinality(Room) /\ Cardinality(Room) \in Nat
<1> DEFINE S == {q[i] : i \in 1..L}
<1>1. q \in Bijection(1..L, S)
  <2>1. q \in Injection(1..L, S)
    BY DEF Injection, IsInjective
  <2>2. q \in Surjection(1..L, S)
    BY DEF Surjection
  <2> QED BY <2>1, <2>2 DEF Bijection
<1>2. Cardinality(S) = L
  <2> HIDE DEF S
  <2> QED BY <1>1, FS_CountingElements DEF ExistsBijection
<1>3. S \in SUBSET Room
  OBVIOUS
<1>4. Cardinality(S) <= Cardinality(Room) /\ Cardinality(Room) \in Nat
  <2> HIDE DEF S
  <2> QED BY <1>3, FS_Subset, FS_CardinalityType DEF RoomCacheAssumption
<1> QED BY <1>2, <1>4

\* There are fewer players than rooms in a full queue.
LEMMA SomeUnoccupied ==
    ASSUME RoomCacheAssumption,
           NEW q \in [1..RQMAX+1 -> Room],
           \A i, j \in 1..RQMAX+1 : q[i] = q[j] => i = j
    PROVE  \E i \in 2..RQMAX+1 : q[i] \notin Occupied
<1> SUFFICES ASSUME \A i \in 2..RQMAX+1 : q[i] \in Occupied PROVE FALSE
  OBVIOUS
<1>0. RQMAX \in Nat /\ IsFiniteSet(Player) /\ Cardinality(Player) < RQMAX
  BY DEF RoomCacheAssumption
<1> DEFINE f == [i \in 1..RQMAX |-> CHOOSE p \in Player : at[p] = q[i + 1]]
<1>1. ASSUME NEW i \in 1..RQMAX PROVE f[i] \in Player /\ at[f[i]] = q[i + 1]
  <2>1. i + 1 \in 2..RQMAX+1
    BY <1>0
  <2>2. \E p \in Player : at[p] = q[i + 1]
    BY <2>1 DEF Occupied
  <2> QED BY <2>2
<1>2. f \in [1..RQMAX -> Player]
  BY <1>1
<1>3. IsFiniteSet(1..RQMAX) /\ Cardinality(1..RQMAX) = RQMAX
  BY <1>0, FS_Interval
<1> HIDE DEF f
<1>4. PICK x, y \in 1..RQMAX : x # y /\ f[x] = f[y]
  BY <1>0, <1>2, <1>3, FS_PigeonHole
<1>5. q[x + 1] = q[y + 1] /\ x + 1 \in 1..RQMAX+1 /\ y + 1 \in 1..RQMAX+1
  BY <1>0, <1>1, <1>4
<1> QED BY <1>4, <1>5

\* load_rom's loop ends at the first unoccupied room from the tail, and that
\* is not the room in front.
LEMMA VictimLinked ==
    ASSUME RoomCacheAssumption,
           NEW c \in CacheType, NEW q, Linked(c, q, RQMAX + 1)
    PROVE  \E n \in 0..RQMAX-1 :
              /\ Linked(Victim(c), Round(q, RQMAX + 1, n), RQMAX + 1)
              /\ Relinked(c, Victim(c))
              /\ q[RQMAX + 1 - n] \notin Occupied
              /\ \A i \in RQMAX+1-n+1..RQMAX+1 : q[i] \in Occupied
<1> DEFINE L == RQMAX + 1
           busy(n) == Rotated(c, n).tail \in Occupied
           Stops(n) == ~busy(n) /\ \A i \in 0..(n-1) : busy(i)
<1>0. RQMAX \in Nat /\ L \in Nat /\ L # 0
  BY DEF RoomCacheAssumption
<1>1. /\ q \in [1..L -> Room] /\ \A i, j \in 1..L : q[i] = q[j] => i = j
  BY DEF Linked
<1>2. ASSUME NEW n \in 0..RQMAX
      PROVE  /\ Linked(Rotated(c, n), Round(q, L, n), L) /\ Relinked(c, Rotated(c, n))
             /\ Rotated(c, n).tail = q[L - n]
  <2>1. Linked(Rotated(c, n), Round(q, L, n), L) /\ Relinked(c, Rotated(c, n))
    BY <1>0, RotatedLinked
  <2>2. Rotated(c, n).tail = Round(q, L, n)[L]
    BY <2>1, <1>0 DEF Linked
  <2>3. L \in 1..L /\ ~(L <= n)
    BY <1>0
  <2>4. Round(q, L, n)[L] = q[L - n]
    BY <2>3 DEF Round
  <2> QED BY <2>1, <2>2, <2>4
<1>3. PICK k \in 2..L : q[k] \notin Occupied
  BY <1>1, SomeUnoccupied
<1> DEFINE T == {n \in 0..RQMAX : ~busy(n)}
<1>4. L - k \in T /\ L - k <= RQMAX - 1
  <2>1. L - k \in 0..RQMAX /\ L - (L - k) = k /\ L - k <= RQMAX - 1
    BY <1>0
  <2>2. Rotated(c, L - k).tail = q[k]
    <3> DEFINE n == L - k
    <3>1. n \in 0..RQMAX /\ L - n = k
      BY <2>1
    <3> HIDE DEF n
    <3>2. Rotated(c, n).tail = q[k]
      BY <3>1, <1>2
    <3> QED BY <3>2 DEF n
  <2> QED BY <2>1, <2>2, <1>3
<1>5. PICK n \in T : \A j \in T : n <= j
  <2>1. T \in SUBSET Nat
    BY <1>0
  <2> HIDE DEF T
  <2> QED BY <2>1, <1>4, Least
<1>6. n \in 0..RQMAX-1
  BY <1>0, <1>4, <1>5
<1>7. Stops(n)
  <2>1. ASSUME NEW i \in 0..(n-1) PROVE busy(i)
    BY <1>0, <1>5, <1>6
  <2> QED BY <2>1, <1>5
<1>8. n \in 0..Cardinality(Room)
  <2>1. L <= Cardinality(Room) /\ Cardinality(Room) \in Nat
    <3> HIDE DEF L
    <3> QED BY <1>0, <1>1, QueueCount
  <2> QED BY <2>1, <1>0, <1>6
<1>9. ASSUME NEW m \in 0..Cardinality(Room), Stops(m) PROVE m = n
  <2>1. m \in Nat /\ n \in Nat
    OBVIOUS
  <2>2. ~(m < n)
    BY <2>1, <1>7, <1>9
  <2>3. ~(n < m)
    BY <2>1, <1>7, <1>9
  <2> QED BY <2>1, <2>2, <2>3
<1>10. Victim(c) = Rotated(c, n)
  <2>1. (CHOOSE m \in 0..Cardinality(Room) : Stops(m)) = n
    <3> HIDE DEF Stops
    <3> QED BY <1>7, <1>8, <1>9
  <2> QED BY <2>1 DEF Victim
<1>11. q[L - n] \notin Occupied
  BY <1>2, <1>5
<1>12. ASSUME NEW i \in RQMAX+1-n+1..RQMAX+1 PROVE q[i] \in Occupied
  <2> DEFINE m == L - i
  <2>1. m \in 0..(n-1) /\ m \in 0..RQMAX /\ L - m = i
    BY <1>0, <1>6
  <2> HIDE DEF m
  <2>2. Rotated(c, m).tail = q[i]
    BY <2>1, <1>2
  <2> QED BY <2>1, <2>2, <1>7
<1>13. n \in 0..RQMAX
  BY <1>5
<1> QED BY <1>2, <1>6, <1>10, <1>11, <1>12, <1>13

\* The queue w, of one room too many, without its k-th: those behind it are
\* in front now.
Dropping(w, k) ==
    [i \in 1..RQMAX |-> IF i <= RQMAX + 1 - k THEN w[k + i] ELSE w[i - (RQMAX + 1 - k)]]

\* The queue an eviction leaves, and the room it takes out.
LEMMA EvictedLinked ==
    ASSUME RoomCacheAssumption,
           NEW c \in CacheType, NEW w, Linked(c, w, RQMAX + 1)
    PROVE  \E k \in 2..RQMAX+1 :
              /\ Victim(c).tail = w[k]
              /\ w[k] \notin Occupied
              /\ \A i \in k+1..RQMAX+1 : w[i] \in Occupied
              /\ Linked(pull_queue(Victim(c)), Dropping(w, k), RQMAX)
              /\ Relinked(c, pull_queue(Victim(c)))
<1> DEFINE L == RQMAX + 1
           e == Victim(c)
<1>0. RQMAX \in Nat /\ L \in Nat /\ L # 0
  BY DEF RoomCacheAssumption
<1>1. PICK n \in 0..RQMAX-1 :
              /\ Linked(e, Round(w, L, n), L) /\ Relinked(c, e)
              /\ w[L - n] \notin Occupied
              /\ \A i \in L-n+1..L : w[i] \in Occupied
  BY VictimLinked
<1> DEFINE k == L - n
           x == Round(w, L, n)
<1>2. k \in 2..L /\ k \in 1..L
  BY <1>0
<1>3. x[L] = w[k]
  <2>1. L \in 1..L /\ ~(L <= n)
    BY <1>0
  <2> QED BY <2>1 DEF Round
<1>4. e \in CacheType /\ Linked(e, x, L)
  BY <1>1 DEF Relinked
<1>5. /\ Linked(pull_queue(e), Without(x, L, L), L - 1)
      /\ Relinked(e, pull_queue(e)) /\ e.tail = x[L]
  <2> HIDE DEF L, e, x
  <2> QED BY <1>0, <1>4, PullLinked
<1>6. L - 1 = RQMAX
  BY <1>0
<1>7. Without(x, L, L) = Dropping(w, k)
  <2>1. ASSUME NEW i \in 1..RQMAX
        PROVE  (IF i < L THEN x[i] ELSE x[i + 1])
               = (IF i <= RQMAX + 1 - k THEN w[k + i] ELSE w[i - (RQMAX + 1 - k)])
    <3>1. i < L /\ i \in 1..L /\ RQMAX + 1 - k = n /\ k + i = L - n + i
      BY <1>0
    <3>2. x[i] = IF i <= n THEN w[L - n + i] ELSE w[i - n]
      BY <3>1 DEF Round
    <3> QED BY <3>1, <3>2
  <2> HIDE DEF L, x, k
  <2> QED BY <2>1, <1>6 DEF Without, Dropping
<1>8. Relinked(c, pull_queue(e))
  BY <1>1, <1>5 DEF Relinked
<1>9. \A i \in k+1..RQMAX+1 : w[i] \in Occupied
  BY <1>1
<1> QED BY <1>1, <1>2, <1>3, <1>5, <1>6, <1>7, <1>8, <1>9

\* The rooms that are left.
LEMMA DroppedRange ==
    ASSUME RoomCacheAssumption,
           NEW w \in [1..RQMAX+1 -> Room],
           \A i, j \in 1..RQMAX+1 : w[i] = w[j] => i = j,
           NEW k \in 2..RQMAX+1
    PROVE  /\ {Dropping(w, k)[i] : i \in 1..RQMAX} = {w[i] : i \in 1..RQMAX+1} \ {w[k]}
           /\ \A i \in 1..RQMAX : Dropping(w, k)[i] # w[k]
<1>0. RQMAX \in Nat /\ k \in 1..RQMAX+1
  BY DEF RoomCacheAssumption
<1> DEFINE d == Dropping(w, k)
           at_(i) == IF i <= RQMAX + 1 - k THEN k + i ELSE i - (RQMAX + 1 - k)
<1>1. ASSUME NEW i \in 1..RQMAX
      PROVE  d[i] = w[at_(i)] /\ at_(i) \in 1..RQMAX+1 /\ at_(i) # k
  BY <1>0 DEF Dropping
<1>2. ASSUME NEW j \in 1..RQMAX+1, j # k
      PROVE  \E i \in 1..RQMAX : d[i] = w[j]
  <2>1. CASE j > k
    <3>1. j - k \in 1..RQMAX /\ j - k <= RQMAX + 1 - k /\ k + (j - k) = j
      BY <2>1, <1>0
    <3>2. d[j - k] = w[j]
      BY <3>1 DEF Dropping
    <3> QED BY <3>1, <3>2
  <2>2. CASE j < k
    <3> DEFINE i == j + (RQMAX + 1 - k)
    <3>1. i \in 1..RQMAX /\ ~(i <= RQMAX + 1 - k) /\ i - (RQMAX + 1 - k) = j
      BY <2>2, <1>0
    <3> HIDE DEF i
    <3>2. d[i] = w[j]
      BY <3>1 DEF Dropping
    <3> QED BY <3>1, <3>2
  <2> QED BY <2>1, <2>2, <1>0, <1>2
<1> HIDE DEF d
<1>3. \A i \in 1..RQMAX : d[i] # w[k]
  <2> SUFFICES ASSUME NEW i \in 1..RQMAX, d[i] = w[k] PROVE FALSE
    OBVIOUS
  <2> DEFINE a == at_(i)
  <2>1. w[a] = w[k] /\ a \in 1..RQMAX+1 /\ a # k
    BY <1>1
  <2> HIDE DEF a
  <2> QED BY <2>1, <1>0
<1>4. \A i \in 1..RQMAX : \E j \in 1..RQMAX+1 : d[i] = w[j]
  <2> SUFFICES ASSUME NEW i \in 1..RQMAX PROVE \E j \in 1..RQMAX+1 : d[i] = w[j]
    OBVIOUS
  <2> DEFINE a == at_(i)
  <2>1. d[i] = w[a] /\ a \in 1..RQMAX+1
    BY <1>1
  <2> HIDE DEF a
  <2> QED BY <2>1
<1>5. {d[i] : i \in 1..RQMAX} = {w[i] : i \in 1..RQMAX+1} \ {w[k]}
  BY <1>2, <1>3, <1>4, SMTT(30)
<1> QED BY <1>3, <1>5 DEF d

-----------------------------------------------------------------------------
(* What load_rom leaves.                                                   *)

\* q is the queue of c, and it is the rooms in memory but those that an
\* eviction left over.
QueueIs(c, q, L) ==
    /\ Linked(c, q, L) /\ L <= RQMAX
    /\ {q[i] : i \in 1..L} = c.loaded \ c.out

Memory(c) ==
    /\ c \in CacheType
    /\ c.out \subseteq c.loaded
    /\ \A r \in Room \ c.loaded : c.file[r] # "stale"
    /\ ~c.torn => \E q, L : QueueIs(c, q, L)

Entering == {Nil} \cup [who : Player, rom : Ptr]

\* Every pointer of a player, also the rom_ptr of one in the middle of
\* init_ply, is a room in memory or no room.
Held ==
    /\ \A p \in Player : /\ at[p] \in Room => at[p] \in cache.loaded
                         /\ home[p] \in Room => home[p] \in cache.loaded
    /\ login # Nil => login.rom \in cache.loaded \cup {Nil}

RoomInv == RCTypeOK /\ Memory(cache) /\ cache.freed = {} /\ Held

\* The cache with a room more in front, before it is looked at for its size.
Added(r) == put_queue([cache EXCEPT !.loaded = @ \cup {r}], r)

\* The room that was read is in front of the others.
LEMMA AddedLinked ==
    ASSUME RoomCacheAssumption, RoomInv, NEW r \in Room \ cache.loaded,
           NEW q, NEW L, QueueIs(cache, q, L)
    PROVE  /\ Linked(Added(r), With(q, L, r), L + 1)
           /\ Added(r) \in CacheType
           /\ Added(r).loaded = cache.loaded \cup {r}
           /\ Added(r).out = cache.out /\ Added(r).file = cache.file
           /\ Added(r).freed = {} /\ Added(r).torn = cache.torn
           /\ {With(q, L, r)[i] : i \in 1..L+1} = (cache.loaded \cup {r}) \ cache.out
<1> DEFINE c == [cache EXCEPT !.loaded = @ \cup {r}]
           w == With(q, L, r)
<1>1. cache \in CacheType /\ cache.freed = {} /\ cache.out \subseteq cache.loaded
  BY DEF RoomInv, RCTypeOK, Memory
<1>2. /\ c \in CacheType /\ c.loaded = cache.loaded \cup {r}
      /\ c.out = cache.out /\ c.file = cache.file /\ c.freed = {} /\ c.torn = cache.torn
      /\ c.head = cache.head /\ c.tail = cache.tail /\ c.size = cache.size
      /\ c.next = cache.next /\ c.prev = cache.prev
  BY <1>1 DEF CacheType
<1> HIDE DEF c
<1>3. Linked(c, q, L) /\ L \in Nat /\ q \in [1..L -> Room]
  BY <1>2 DEF QueueIs, Linked
<1>4. \A i \in 1..L : q[i] # r
  BY DEF QueueIs
<1>5. Linked(put_queue(c, r), With(q, L, r), L + 1) /\ Relinked(c, put_queue(c, r))
  BY <1>2, <1>3, <1>4, PutLinked
<1>6. Added(r) = put_queue(c, r)
  BY DEF Added, c
<1>7. w[1] = r /\ \A i \in 1..L : w[i + 1] = q[i]
  BY <1>3 DEF With
<1>8. \A i \in 2..L+1 : w[i] = q[i - 1] /\ i - 1 \in 1..L
  BY <1>3 DEF With
<1>9. {w[i] : i \in 1..L+1} = (cache.loaded \cup {r}) \ cache.out
  <2> HIDE DEF w
  <2>1. {w[i] : i \in 1..L+1} = {q[i] : i \in 1..L} \cup {r}
    <3>1. \A i \in 1..L+1 : i = 1 \/ i \in 2..L+1
      BY <1>3
    <3>2. 1 \in 1..L+1 /\ \A i \in 1..L : i + 1 \in 1..L+1
      BY <1>3
    <3> QED BY <3>1, <3>2, <1>7, <1>8
  <2>2. r \notin cache.out
    BY <1>1
  <2> QED BY <2>1, <2>2 DEF QueueIs
<1> QED BY <1>2, <1>5, <1>6, <1>9 DEF Relinked

\* What is in memory and on the disk after a room has been loaded: a room
\* more; and when that is one too many, the first unoccupied one from the tail
\* is gone or, if the disk failed, in no queue any more.
Fetched(r, q, L, d) ==
    LET w == With(q, L, r)
    IN /\ d \in CacheType /\ d.torn = FALSE
       /\ \/ /\ L < RQMAX
             /\ Linked(d, w, L + 1)
             /\ d.loaded = cache.loaded \cup {r} /\ d.out = cache.out
             /\ d.file = cache.file /\ d.freed = {}
          \/ /\ L = RQMAX
             /\ \E k \in 2..RQMAX+1 :
                  /\ w[k] \notin Occupied
                  /\ \A i \in k+1..RQMAX+1 : w[i] \in Occupied
                  /\ Linked(d, Dropping(w, k), RQMAX)
                  /\ \/ /\ d.loaded = (cache.loaded \cup {r}) \ {w[k]}
                        /\ d.freed = {w[k]} /\ d.out = cache.out
                        /\ d.file[w[k]] = "current"
                     \/ /\ d.loaded = cache.loaded \cup {r}
                        /\ d.freed = {} /\ d.out = cache.out \cup {w[k]}
                  /\ \A s \in Room \ {w[k]} : d.file[s] = cache.file[s]

\* An eviction touches nothing of the tags that stay in the queue.
LEMMA LinkedKept ==
    ASSUME NEW c, NEW q, NEW L, Linked(c, q, L), NEW d,
           d.head = c.head, d.tail = c.tail, d.size = c.size,
           \A i \in 1..L : d.next[q[i]] = c.next[q[i]] /\ d.prev[q[i]] = c.prev[q[i]]
    PROVE  Linked(d, q, L)
  BY DEF Linked

\* The calls of load_rom that read a room: it fits, or the queue is turned to
\* the last unoccupied room, and that is evicted or falls out.
LEMMA FetchOutcome ==
    ASSUME RoomCacheAssumption, RoomInv, ~cache.torn,
           NEW r \in Room \ cache.loaded,
           NEW q, NEW L, QueueIs(cache, q, L),
           NEW o \in IF Added(r).size > RQMAX THEN Evict(Victim(Added(r)), r)
                                             ELSE {Outcome(Added(r), r, 0, FALSE)}
    PROVE  /\ Fetched(r, q, L, o.cache)
           /\ o.ptr = r
<1> DEFINE c == Added(r)
           w == With(q, L, r)
<1>0. RQMAX \in Nat /\ L \in Nat /\ L <= RQMAX
  BY DEF RoomCacheAssumption, QueueIs, Linked
<1>1. /\ Linked(c, w, L + 1) /\ c \in CacheType
      /\ c.loaded = cache.loaded \cup {r} /\ c.out = cache.out
      /\ c.file = cache.file /\ c.freed = {} /\ c.torn = FALSE
  BY AddedLinked DEF RoomInv, RCTypeOK, CacheType
<1>2. c.size = L + 1
  BY <1>1 DEF Linked
<1> HIDE DEF c, w
<1>3. CASE L < RQMAX
  <2>1. o = Outcome(c, r, 0, FALSE)
    <3>1. ~(Added(r).size > RQMAX)
      BY <1>0, <1>2, <1>3 DEF c
    <3>2. o \in {Outcome(Added(r), r, 0, FALSE)}
      BY <3>1, Zenon
    <3> QED BY <3>2 DEF c
  <2>2. o.cache = c /\ o.ptr = r
    BY <2>1 DEF Outcome
  <2> QED BY <2>2, <1>1, <1>3 DEF Fetched, w
<1>4. CASE L = RQMAX
  <2> DEFINE e == Victim(c)
             d == pull_queue(e)
             v == e.tail
  <2>1. o \in Evict(e, r)
    <3>1. Added(r).size > RQMAX
      BY <1>0, <1>2, <1>4 DEF c
    <3>2. o \in Evict(Victim(Added(r)), r)
      BY <3>1, Zenon
    <3> QED BY <3>2 DEF c, e
  <2>2. PICK k \in 2..RQMAX+1 :
              /\ v = w[k]
              /\ w[k] \notin Occupied
              /\ \A i \in k+1..RQMAX+1 : w[i] \in Occupied
              /\ Linked(d, Dropping(w, k), RQMAX)
              /\ Relinked(c, d)
    BY <1>1, <1>4, EvictedLinked
  <2>3. /\ w \in [1..RQMAX+1 -> Room]
        /\ \A i, j \in 1..RQMAX+1 : w[i] = w[j] => i = j
    BY <1>1, <1>4 DEF Linked
  <2>4. \A i \in 1..RQMAX : Dropping(w, k)[i] # v
    BY <2>2, <2>3, DroppedRange
  <2>5. v \in Room
    BY <2>2, <2>3, <1>0
  <2>6. /\ d \in CacheType /\ d.loaded = cache.loaded \cup {r} /\ d.out = cache.out
        /\ d.file = cache.file /\ d.freed = {} /\ d.torn = FALSE
    BY <1>1, <2>2 DEF Relinked
  <2>7. Dropping(w, k) \in [1..RQMAX -> Room]
    BY <2>2 DEF Linked
  <2>8. \/ o = Outcome([d EXCEPT !.loaded = @ \ {v}, !.freed = @ \cup {v},
                          !.next[v] = Nil, !.prev[v] = Nil,
                          !.file[v] = "current"], r, 0, FALSE)
        \/ o = Outcome([d EXCEPT !.file[v] = "moved", !.out = @ \cup {v}], r, -1, TRUE)
        \/ o = Outcome([d EXCEPT !.file[v] = IF @ = "moved" THEN "stale" ELSE @,
                          !.out = @ \cup {v}], r, -1, TRUE)
    BY <2>1 DEF Evict
  <2> HIDE DEF d, v, e
  <2>9. o.ptr = r
    BY <2>8 DEF Outcome
  <2> DEFINE x == o.cache
  <2>10. CASE o = Outcome([d EXCEPT !.loaded = @ \ {v}, !.freed = @ \cup {v},
                          !.next[v] = Nil, !.prev[v] = Nil,
                          !.file[v] = "current"], r, 0, FALSE)
    <3>1. x = [d EXCEPT !.loaded = @ \ {v}, !.freed = @ \cup {v},
                          !.next[v] = Nil, !.prev[v] = Nil,
                          !.file[v] = "current"]
      BY <2>10 DEF Outcome
    <3>2. /\ x.head = d.head /\ x.tail = d.tail /\ x.size = d.size
          /\ x.next = [d.next EXCEPT ![v] = Nil] /\ x.prev = [d.prev EXCEPT ![v] = Nil]
          /\ x.loaded = d.loaded \ {v} /\ x.freed = {v} /\ x.out = d.out
          /\ x.torn = FALSE /\ x.file = [d.file EXCEPT ![v] = "current"]
      BY <3>1, <2>6 DEF CacheType
    <3>3. x \in CacheType
      <4> DEFINE S == d.loaded \ {v}
                 F == d.freed \cup {v}
                 nx == [d.next EXCEPT ![v] = Nil]
                 pv == [d.prev EXCEPT ![v] = Nil]
                 f == [d.file EXCEPT ![v] = "current"]
      <4>1. x = [d EXCEPT !.loaded = S, !.freed = F, !.next = nx, !.prev = pv, !.file = f]
        BY <3>1
      <4>2. /\ S \in SUBSET Room /\ F \in SUBSET Room
            /\ nx \in [Room -> Ptr] /\ pv \in [Room -> Ptr]
            /\ f \in [Room -> {"current", "stale", "moved"}]
        BY <2>5, <2>6 DEF CacheType, Ptr
      <4> HIDE DEF S, F, nx, pv, f, x
      <4> QED BY <4>1, <4>2, <2>6 DEF CacheType
    <3> HIDE DEF x
    <3>4. \A s \in Room : /\ s # v => /\ x.file[s] = d.file[s]
                                      /\ x.next[s] = d.next[s] /\ x.prev[s] = d.prev[s]
                          /\ s = v => x.file[s] = "current"
      BY <3>2, <2>6 DEF CacheType
    <3>5. Linked(x, Dropping(w, k), RQMAX)
      <4>1. \A i \in 1..RQMAX : Dropping(w, k)[i] \in Room
        BY <2>7
      <4> DEFINE z == Dropping(w, k)
      <4> HIDE DEF z
      <4>2. \A i \in 1..RQMAX : x.next[z[i]] = d.next[z[i]] /\ x.prev[z[i]] = d.prev[z[i]]
        BY <4>1, <2>4, <3>4 DEF z
      <4>3. Linked(x, z, RQMAX)
        BY <4>2, <3>2, <2>2, LinkedKept DEF z
      <4> QED BY <4>3 DEF z
    <3>6. Fetched(r, q, L, x)
      BY <3>2, <3>3, <3>4, <3>5, <2>2, <2>5, <2>6, <1>4 DEF Fetched, w
    <3> QED BY <3>6, <2>9 DEF x
  <2>11. ASSUME NEW f \in {"current", "stale", "moved"},
                o.cache = [d EXCEPT !.file[v] = f, !.out = @ \cup {v}]
         PROVE  Fetched(r, q, L, o.cache)
    <3>2. /\ x.head = d.head /\ x.tail = d.tail /\ x.size = d.size
          /\ x.next = d.next /\ x.prev = d.prev
          /\ x.loaded = d.loaded /\ x.freed = {} /\ x.out = d.out \cup {v}
          /\ x.torn = FALSE /\ x.file = [d.file EXCEPT ![v] = f]
      BY <2>11, <2>6 DEF CacheType
    <3>3. x \in CacheType
      <4> DEFINE g == [d.file EXCEPT ![v] = f]
                 U == d.out \cup {v}
      <4>1. x = [d EXCEPT !.file = g, !.out = U]
        BY <2>11
      <4>2. U \in SUBSET Room /\ g \in [Room -> {"current", "stale", "moved"}]
        BY <2>5, <2>6, <2>11 DEF CacheType
      <4> HIDE DEF U, g, x
      <4> QED BY <4>1, <4>2, <2>6 DEF CacheType
    <3> HIDE DEF x
    <3>4. \A s \in Room : s # v => x.file[s] = d.file[s]
      BY <3>2, <2>6 DEF CacheType
    <3>5. Linked(x, Dropping(w, k), RQMAX)
      <4> DEFINE z == Dropping(w, k)
      <4> HIDE DEF z
      <4>1. Linked(d, z, RQMAX)
        BY <2>2 DEF z
      <4>2. Linked(x, z, RQMAX)
        BY <3>2, <4>1, LinkedKept
      <4> QED BY <4>2 DEF z
    <3>6. Fetched(r, q, L, x)
      BY <3>2, <3>3, <3>4, <3>5, <2>2, <2>5, <2>6, <1>4 DEF Fetched, w
    <3> QED BY <3>6 DEF x
  <2>12. CASE o = Outcome([d EXCEPT !.file[v] = "moved", !.out = @ \cup {v}], r, -1, TRUE)
    <3>1. o.cache = [d EXCEPT !.file[v] = "moved", !.out = @ \cup {v}]
      BY <2>12 DEF Outcome
    <3> QED BY <3>1, <2>9, <2>11
  <2>13. CASE o = Outcome([d EXCEPT !.file[v] = IF @ = "moved" THEN "stale" ELSE @,
                          !.out = @ \cup {v}], r, -1, TRUE)
    <3> DEFINE f == IF d.file[v] = "moved" THEN "stale" ELSE d.file[v]
    <3>1. o.cache = [d EXCEPT !.file[v] = f, !.out = @ \cup {v}]
      BY <2>13 DEF Outcome
    <3>2. f \in {"current", "stale", "moved"}
      BY <2>5, <2>6 DEF CacheType
    <3> HIDE DEF f
    <3> QED BY <3>1, <3>2, <2>9, <2>11
  <2> QED BY <2>8, <2>10, <2>12, <2>13
<1> QED BY <1>0, <1>3, <1>4

PutFirst(c, n, nx, pv, t) ==
    Links(c, n + 1, t, t, [nx EXCEPT ![t] = Nil], [pv EXCEPT ![t] = Nil])
PutMore(c, n, h, l, nx, pv, t) ==
    Links(c, n + 1, t, l, [nx EXCEPT ![t] = h], [[pv EXCEPT ![h] = t] EXCEPT ![t] = Nil])

\* put_queue in those words.
LEMMA PutLinks ==
    ASSUME NEW c \in CacheType, NEW n, NEW h, NEW l, NEW nx, NEW pv, NEW t
    PROVE  put_queue(Links(c, n, h, l, nx, pv), t) =
             IF h = Nil THEN PutFirst(c, n, nx, pv, t)
                        ELSE PutMore(c, n, h, l, nx, pv, t)
<1>1. CASE h = Nil
  BY <1>1 DEF CacheType, Links, put_queue, PutFirst
<1>2. CASE h # Nil
  BY <1>2 DEF CacheType, Links, put_queue, PutMore
<1> QED BY <1>1, <1>2, Zenon

\* front_queue leaves a cache also where its tag is in no queue.
LEMMA FrontTyped ==
    ASSUME NEW c \in CacheType, NEW t \in Room
    PROVE  Relinked(c, front_queue(c, t))
<1> DEFINE p == c.prev[t]
           n == c.next[t]
           h == IF n = Nil THEN (IF p = Nil THEN Nil ELSE c.head)
                ELSE IF t = c.head THEN n ELSE c.head
           l == IF p = Nil THEN (IF n = Nil THEN Nil ELSE c.tail)
                ELSE IF t = c.tail THEN p ELSE c.tail
           nx == IF p = Nil THEN c.next ELSE [c.next EXCEPT ![p] = n]
           pv == IF n = Nil THEN c.prev ELSE [c.prev EXCEPT ![n] = p]
           d == [Unlinked(c, t) EXCEPT !.size = @ - 1]
<1>1. /\ p \in Ptr /\ n \in Ptr /\ c.head \in Ptr /\ c.tail \in Ptr /\ Nil \in Ptr /\ t \in Ptr
      /\ c.next \in [Room -> Ptr] /\ c.prev \in [Room -> Ptr] /\ c.size \in Nat
  BY DEF CacheType, Ptr
<1>2. d = Links(c, c.size - 1, h, l, nx, pv)
  BY ZenonT(40) DEF Unlinked, Links, CacheType
<1> HIDE DEF p, n
<1>3. h \in Ptr /\ l \in Ptr /\ nx \in [Room -> Ptr] /\ pv \in [Room -> Ptr]
  BY <1>1 DEF Ptr
<1> HIDE DEF d, h, l, nx, pv
<1>4. (c.size - 1) + 1 = c.size
  BY <1>1
<1>5. front_queue(c, t) =
        IF h = Nil THEN PutFirst(c, c.size - 1, nx, pv, t)
                   ELSE PutMore(c, c.size - 1, h, l, nx, pv, t)
  <2>1. front_queue(c, t) = put_queue(Links(c, c.size - 1, h, l, nx, pv), t)
    BY <1>2 DEF front_queue, d
  <2> QED BY <2>1, PutLinks
<1>6. /\ [nx EXCEPT ![t] = Nil] \in [Room -> Ptr] /\ [pv EXCEPT ![t] = Nil] \in [Room -> Ptr]
      /\ [nx EXCEPT ![t] = h] \in [Room -> Ptr]
      /\ [[pv EXCEPT ![h] = t] EXCEPT ![t] = Nil] \in [Room -> Ptr]
  BY <1>1, <1>3
<1> DEFINE x1 == [nx EXCEPT ![t] = Nil]
           y1 == [pv EXCEPT ![t] = Nil]
           x2 == [nx EXCEPT ![t] = h]
           y2 == [[pv EXCEPT ![h] = t] EXCEPT ![t] = Nil]
           m == c.size
<1>7. /\ x1 \in [Room -> Ptr] /\ y1 \in [Room -> Ptr]
      /\ x2 \in [Room -> Ptr] /\ y2 \in [Room -> Ptr] /\ m \in Nat
      /\ front_queue(c, t) = IF h = Nil THEN Links(c, m, t, t, x1, y1)
                                        ELSE Links(c, m, t, l, x2, y2)
  BY <1>1, <1>4, <1>5, <1>6 DEF PutFirst, PutMore
<1> HIDE DEF x1, y1, x2, y2, m
<1>8. Relinked(c, Links(c, m, t, t, x1, y1)) /\ Relinked(c, Links(c, m, t, l, x2, y2))
  <2>1. Relinked(c, Links(c, m, t, t, x1, y1))
    BY <1>1, <1>7, LinksFields, Z3
  <2>2. Relinked(c, Links(c, m, t, l, x2, y2))
    BY <1>1, <1>3, <1>7, LinksFields, Z3
  <2> QED BY <2>1, <2>2
<1> QED BY <1>7, <1>8

\* A room in memory is used: its tag goes to the front.
LEMMA TouchOutcome ==
    ASSUME RoomCacheAssumption, RoomInv,
           NEW r \in cache.loaded
    PROVE  LET d == [front_queue(cache, r) EXCEPT !.torn = r \in cache.out]
           IN /\ d \in CacheType
              /\ d.loaded = cache.loaded /\ d.out = cache.out
              /\ d.file = cache.file /\ d.freed = {}
              /\ d.torn = (r \in cache.out)
              /\ \A q, L : Linked(front_queue(cache, r), q, L) => Linked(d, q, L)
<1> DEFINE f == front_queue(cache, r)
           b == (r \in cache.out)
<1>1. cache \in CacheType /\ r \in Room /\ cache.freed = {}
  BY DEF RoomInv, RCTypeOK, CacheType
<1>2. Relinked(cache, f)
  BY <1>1, FrontTyped
<1>3. b \in BOOLEAN
  OBVIOUS
<1> HIDE DEF f, b
<1> DEFINE d == [f EXCEPT !.torn = b]
<1>4. /\ d \in CacheType
      /\ d.loaded = f.loaded /\ d.out = f.out /\ d.file = f.file /\ d.freed = f.freed
      /\ d.torn = b /\ d.head = f.head /\ d.tail = f.tail /\ d.size = f.size
      /\ d.next = f.next /\ d.prev = f.prev
  BY <1>2, <1>3 DEF Relinked, CacheType
<1>5. \A q, L : Linked(f, q, L) => Linked(d, q, L)
  <2> HIDE DEF d
  <2> QED BY <1>4 DEF Linked
<1> QED BY <1>1, <1>2, <1>4, <1>5 DEF Relinked, f, b

\* It has the same rooms as before.
LEMMA FrontedRange ==
    ASSUME NEW L \in Nat, NEW q \in [1..L -> Room], NEW k \in 1..L
    PROVE  {Fronted(q, L, k)[i] : i \in 1..L} = {q[i] : i \in 1..L}
<1> DEFINE f == Fronted(q, L, k)
<1>1. \A i \in 1..L : f[i] = IF i = 1 THEN q[k] ELSE IF i <= k THEN q[i - 1] ELSE q[i]
  BY DEF Fronted
<1> HIDE DEF f
<1>2. \A i \in 1..L : \E j \in 1..L : f[i] = q[j]
  <2> SUFFICES ASSUME NEW i \in 1..L PROVE \E j \in 1..L : f[i] = q[j]
    OBVIOUS
  <2>1. i # 1 => i - 1 \in 1..L
    OBVIOUS
  <2> QED BY <1>1, <2>1
<1>3. \A j \in 1..L : \E i \in 1..L : f[i] = q[j]
  <2> SUFFICES ASSUME NEW j \in 1..L PROVE \E i \in 1..L : f[i] = q[j]
    OBVIOUS
  <2>1. CASE j = k
    <3>1. 1 \in 1..L /\ f[1] = q[k]
      BY <1>1
    <3> QED BY <3>1, <2>1
  <2>2. CASE j < k
    <3>1. j + 1 \in 1..L /\ j + 1 # 1 /\ j + 1 <= k /\ (j + 1) - 1 = j
      BY <2>2
    <3>2. f[j + 1] = q[j]
      BY <3>1, <1>1
    <3> QED BY <3>1, <3>2
  <2>3. CASE j > k
    <3>1. f[j] = q[j]
      BY <2>3, <1>1
    <3> QED BY <3>1
  <2> QED BY <2>1, <2>2, <2>3
<1>4. {f[i] : i \in 1..L} = {q[i] : i \in 1..L}
  <2>1. ASSUME NEW x \in {f[i] : i \in 1..L} PROVE x \in {q[i] : i \in 1..L}
    BY <1>2, Zenon
  <2>2. ASSUME NEW x \in {q[i] : i \in 1..L} PROVE x \in {f[i] : i \in 1..L}
    BY <1>3, Zenon
  <2> QED BY <2>1, <2>2, Zenon
<1> QED BY <1>4 DEF f

\* The calls of load_rom there can be.
LEMMA LoadCases ==
    ASSUME NEW r \in Room, NEW o \in load_rom(r)
    PROVE  \/ /\ r \in cache.loaded
              /\ o.cache = [front_queue(cache, r) EXCEPT !.torn = r \in cache.out]
              /\ o.ptr = r /\ o.ret = 0
           \/ /\ r \notin cache.loaded
              /\ o.cache = cache /\ o.ptr = Nil /\ o.ret = -1
           \/ /\ r \notin cache.loaded /\ cache.file[r] # "moved"
              /\ o \in IF Added(r).size > RQMAX THEN Evict(Victim(Added(r)), r)
                                                ELSE {Outcome(Added(r), r, 0, FALSE)}
<1>1. CASE r \in cache.loaded
  <2>1. o = Outcome([front_queue(cache, r) EXCEPT !.torn = r \in cache.out], r, 0, FALSE)
    BY <1>1 DEF load_rom
  <2> QED BY <2>1, <1>1 DEF Outcome
<1>2. CASE r \notin cache.loaded
  <2>1. \/ o = Outcome(cache, Nil, -1, cache.file[r] # "moved")
        \/ /\ cache.file[r] # "moved"
           /\ o \in IF Added(r).size > RQMAX THEN Evict(Victim(Added(r)), r)
                                                ELSE {Outcome(Added(r), r, 0, FALSE)}
    BY <1>2, Zenon DEF load_rom, Added
  <2>2. CASE o = Outcome(cache, Nil, -1, cache.file[r] # "moved")
    BY <2>2, <1>2 DEF Outcome
  <2> QED BY <2>1, <2>2, <1>2
<1> QED BY <1>1, <1>2

\* After a room has been loaded the queue is again what is in memory.
LEMMA FetchedSound ==
    ASSUME RoomCacheAssumption, RoomInv, ~cache.torn,
           NEW r \in Room \ cache.loaded, cache.file[r] # "moved",
           NEW q, NEW L, QueueIs(cache, q, L),
           NEW d, Fetched(r, q, L, d)
    PROVE  /\ Memory(d) /\ r \in d.loaded
           /\ d.freed \cap d.loaded = {} /\ d.freed \cap Occupied = {}
           /\ cache.loaded \ d.freed \subseteq d.loaded
<1> DEFINE w == With(q, L, r)
<1>0. /\ RQMAX \in Nat /\ L \in Nat /\ L <= RQMAX
      /\ cache \in CacheType /\ cache.loaded \in SUBSET Room
      /\ cache.out \subseteq cache.loaded
      /\ \A s \in Room \ cache.loaded : cache.file[s] # "stale"
      /\ Occupied \subseteq cache.loaded
      /\ cache.file \in [Room -> {"current", "stale", "moved"}]
      /\ r \notin cache.out
  BY DEF RoomCacheAssumption, QueueIs, Linked, RoomInv, RCTypeOK, CacheType, Memory, Held, Occupied
<1>1. /\ Linked(Added(r), w, L + 1)
      /\ {w[i] : i \in 1..L+1} = (cache.loaded \cup {r}) \ cache.out
  BY AddedLinked
<1> HIDE DEF w
<1>2. d \in CacheType /\ d.torn = FALSE
  BY DEF Fetched
<1>3. CASE L < RQMAX
  <2>1. /\ Linked(d, w, L + 1)
        /\ d.loaded = cache.loaded \cup {r} /\ d.out = cache.out
        /\ d.file = cache.file /\ d.freed = {}
    BY <1>0, <1>3 DEF Fetched, w
  <2>2. QueueIs(d, w, L + 1)
    BY <1>0, <1>1, <1>3, <2>1 DEF QueueIs
  <2>3. Memory(d)
    BY <1>0, <1>2, <2>1, <2>2 DEF Memory
  <2> QED BY <2>1, <2>3
<1>4. CASE L = RQMAX
  <2>1. PICK k \in 2..RQMAX+1 :
                  /\ w[k] \notin Occupied
                  /\ Linked(d, Dropping(w, k), RQMAX)
                  /\ \/ /\ d.loaded = (cache.loaded \cup {r}) \ {w[k]}
                        /\ d.freed = {w[k]} /\ d.out = cache.out
                        /\ d.file[w[k]] = "current"
                     \/ /\ d.loaded = cache.loaded \cup {r}
                        /\ d.freed = {} /\ d.out = cache.out \cup {w[k]}
                  /\ \A s \in Room \ {w[k]} : d.file[s] = cache.file[s]
    BY <1>0, <1>4 DEF Fetched, w
  <2>2. /\ w \in [1..RQMAX+1 -> Room] /\ \A i, j \in 1..RQMAX+1 : w[i] = w[j] => i = j
        /\ k \in 1..RQMAX+1 /\ 1 \in 1..RQMAX+1
    BY <1>0, <1>1, <1>4 DEF Linked
  <2>3. {Dropping(w, k)[i] : i \in 1..RQMAX} = ((cache.loaded \cup {r}) \ cache.out) \ {w[k]}
    BY <1>1, <1>4, <2>2, DroppedRange
  <2>4. w[k] # r /\ w[k] \in Room
    <3>1. w[1] = r
      BY <1>0 DEF w, With
    <3> QED BY <2>2, <3>1
  <2>5. w[k] \in cache.loaded \ cache.out
    BY <1>1, <1>4, <2>2, <2>4
  <2>6. CASE /\ d.loaded = (cache.loaded \cup {r}) \ {w[k]}
             /\ d.freed = {w[k]} /\ d.out = cache.out /\ d.file[w[k]] = "current"
    <3>1. d.loaded \ d.out = ((cache.loaded \cup {r}) \ cache.out) \ {w[k]}
      BY <2>6
    <3>2. QueueIs(d, Dropping(w, k), RQMAX)
      BY <1>0, <2>1, <2>3, <3>1 DEF QueueIs
    <3>3. d.out \subseteq d.loaded
      BY <1>0, <2>5, <2>6
    <3>4. \A s \in Room \ d.loaded : d.file[s] # "stale"
      BY <1>0, <2>1, <2>6
    <3>5. Memory(d)
      BY <1>2, <3>2, <3>3, <3>4 DEF Memory
    <3> QED BY <1>0, <2>1, <2>4, <2>6, <3>5
  <2>7. CASE /\ d.loaded = cache.loaded \cup {r}
             /\ d.freed = {} /\ d.out = cache.out \cup {w[k]}
    <3>1. d.loaded \ d.out = ((cache.loaded \cup {r}) \ cache.out) \ {w[k]}
      BY <2>7
    <3>2. QueueIs(d, Dropping(w, k), RQMAX)
      BY <1>0, <2>1, <2>3, <3>1 DEF QueueIs
    <3>3. d.out \subseteq d.loaded
      BY <1>0, <2>5, <2>7
    <3>4. \A s \in Room \ d.loaded : d.file[s] # "stale"
      BY <1>0, <2>1, <2>5, <2>7
    <3>5. Memory(d)
      BY <1>2, <3>2, <3>3, <3>4 DEF Memory
    <3> QED BY <2>7, <3>5
  <2> QED BY <2>1, <2>6, <2>7
<1> QED BY <1>0, <1>3, <1>4

\* The queue after a room in memory is used.
LEMMA TouchedSound ==
    ASSUME RoomCacheAssumption, RoomInv, ~cache.torn,
           NEW r \in cache.loaded, r \notin cache.out,
           NEW q, NEW L, QueueIs(cache, q, L),
           NEW d, d = [front_queue(cache, r) EXCEPT !.torn = r \in cache.out]
    PROVE  \E k \in 1..L : q[k] = r /\ QueueIs(d, Fronted(q, L, k), L)
<1>1. cache \in CacheType /\ Linked(cache, q, L) /\ L \in Nat /\ q \in [1..L -> Room]
  BY DEF RoomInv, RCTypeOK, QueueIs, Linked
<1>2. PICK k \in 1..L : q[k] = r
  BY DEF QueueIs
<1>3. Linked(front_queue(cache, r), Fronted(q, L, k), L)
  BY <1>1, <1>2, FrontLinked
<1>4. /\ d.loaded = cache.loaded /\ d.out = cache.out
      /\ Linked(d, Fronted(q, L, k), L)
  BY <1>3, TouchOutcome
<1>5. {Fronted(q, L, k)[i] : i \in 1..L} = {q[i] : i \in 1..L}
  BY <1>1, FrontedRange
<1> QED BY <1>2, <1>4, <1>5 DEF QueueIs

\* What every call of load_rom leaves.
LEMMA LoadSound ==
    ASSUME RoomCacheAssumption, RoomInv, ~cache.torn,
           NEW r \in Room, NEW o \in load_rom(r)
    PROVE  /\ Memory(o.cache)
           /\ o.cache.freed \cap o.cache.loaded = {}
           /\ o.cache.freed \cap Occupied = {}
           /\ cache.loaded \ o.cache.freed \subseteq o.cache.loaded
           /\ (o.ptr = r /\ r \in o.cache.loaded) \/ (o.ptr = Nil /\ o.ret = -1)
<1> DEFINE d == o.cache
<1>1. /\ Memory(cache) /\ cache.freed = {} /\ cache \in CacheType
  BY DEF RoomInv, RCTypeOK
<1>2. PICK q, L : QueueIs(cache, q, L)
  BY <1>1 DEF Memory
<1>3. CASE /\ r \in cache.loaded
           /\ d = [front_queue(cache, r) EXCEPT !.torn = r \in cache.out]
           /\ o.ptr = r
  <2>1. /\ d \in CacheType
        /\ d.loaded = cache.loaded /\ d.out = cache.out
        /\ d.file = cache.file /\ d.freed = {}
        /\ d.torn = (r \in cache.out)
    BY <1>3, TouchOutcome
  <2>2. r \notin cache.out => \E k \in 1..L : q[k] = r /\ QueueIs(d, Fronted(q, L, k), L)
    BY <1>2, <1>3, TouchedSound
  <2> HIDE DEF d
  <2>3. Memory(d)
    BY <1>1, <2>1, <2>2 DEF Memory
  <2> QED BY <1>3, <2>1, <2>3 DEF d
<1>4. CASE d = cache /\ o.ptr = Nil /\ o.ret = -1
  BY <1>1, <1>4
<1>5. CASE /\ r \notin cache.loaded /\ cache.file[r] # "moved"
           /\ o \in IF Added(r).size > RQMAX THEN Evict(Victim(Added(r)), r)
                                             ELSE {Outcome(Added(r), r, 0, FALSE)}
  <2>1. Fetched(r, q, L, d) /\ o.ptr = r
    BY <1>2, <1>5, FetchOutcome, Zenon
  <2> HIDE DEF d
  <2>2. /\ Memory(d) /\ r \in d.loaded
        /\ d.freed \cap d.loaded = {} /\ d.freed \cap Occupied = {}
        /\ cache.loaded \ d.freed \subseteq d.loaded
    BY <1>2, <1>5, <2>1, FetchedSound
  <2> QED BY <2>1, <2>2 DEF d
<1> QED BY <1>3, <1>4, <1>5, LoadCases

-----------------------------------------------------------------------------
(* The steps.                                                              *)

\* What PresentLoaded says of a step.
Stays ==
    \A p \in Player :
        /\ at'[p] \in Room => at'[p] \in cache'.loaded
        /\ at'[p] = Freed => at[p] = Freed \/ home[p] = Freed

\* What a call leaves when it returns.
LEMMA TookCache ==
    ASSUME RoomCacheAssumption, RoomInv,
           NEW r \in Room, NEW o \in load_rom(r), Took(o)
    PROVE  /\ Memory(cache') /\ cache'.freed = {}
           /\ cache'.loaded = o.cache.loaded /\ cache'.out = o.cache.out
           /\ cache'.torn = o.cache.torn
           /\ \A q, L : Linked(o.cache, q, L) <=> Linked(cache', q, L)
           /\ faults' \in 0..MaxFaults
           /\ ~cache.torn
<1> DEFINE d == o.cache
           F == {}
<1>1. ~cache.torn
  BY DEF Took
<1>2. Memory(d)
  BY <1>1, LoadSound
<1>3. cache' = [d EXCEPT !.freed = F]
  BY DEF Took
<1> HIDE DEF d
<1>4. F \in SUBSET Room
  OBVIOUS
<1> HIDE DEF F
<1>5. /\ cache' \in CacheType /\ cache'.freed = F
      /\ cache'.loaded = d.loaded /\ cache'.out = d.out /\ cache'.torn = d.torn
      /\ cache'.head = d.head /\ cache'.tail = d.tail /\ cache'.size = d.size
      /\ cache'.next = d.next /\ cache'.prev = d.prev /\ cache'.file = d.file
  BY <1>2, <1>3, <1>4 DEF Memory, CacheType
<1>6. ASSUME NEW q, NEW L PROVE Linked(d, q, L) <=> Linked(cache', q, L)
  BY <1>5 DEF Linked
<1>7. Memory(cache')
  <2>1. ASSUME ~cache'.torn PROVE \E q, L : QueueIs(cache', q, L)
    <3>1. PICK q, L : QueueIs(d, q, L)
      BY <1>2, <1>5, <2>1 DEF Memory
    <3>2. QueueIs(cache', q, L)
      BY <1>5, <1>6, <3>1 DEF QueueIs
    <3> QED BY <3>2
  <2> QED BY <1>2, <1>5, <2>1 DEF Memory
<1>8. faults' \in 0..MaxFaults
  BY DEF Took, RoomInv, RCTypeOK, RoomCacheAssumption
<1> QED BY <1>1, <1>5, <1>6, <1>7, <1>8 DEF d, F

\* Who pointed to a room that was freed is left with a dangling pointer.
LEMMA DangleSound ==
    ASSUME RoomCacheAssumption, NEW ptr \in [Player -> Ptr \cup {Freed}],
           NEW F, NEW G, NEW D, F \subseteq Room, G \ F \subseteq D,
           \A p \in Player : ptr[p] \in Room => ptr[p] \in G
    PROVE  /\ Dangle(ptr, F) \in [Player -> Ptr \cup {Freed}]
           /\ \A p \in Player :
                 /\ Dangle(ptr, F)[p] \in Room => Dangle(ptr, F)[p] \in D
                 /\ Dangle(ptr, F)[p] = Freed => ptr[p] \in F \cup {Freed}
  BY DEF Dangle, RoomCacheAssumption

\* f is ptr after the rooms in F were freed, but for who points to x now.
Placed(f, ptr, F, x) ==
    /\ DOMAIN f = Player /\ f = [q \in Player |-> f[q]]
    /\ \A q \in Player : f[q] = Dangle(ptr, F)[q] \/ f[q] = x

\* Such a pointer is an old one, a dangling one or the new room.
LEMMA PlacedThere ==
    ASSUME NEW ptr, NEW F, NEW p \in Player, NEW x
    PROVE  /\ Placed(Dangle(ptr, F), ptr, F, x)
           /\ Placed([Dangle(ptr, F) EXCEPT ![p] = x], ptr, F, x)
  BY DEF Placed, Dangle

\* A load, whoever calls it: the players are where they were or in a room x
\* that is in memory after it, and so are their homes.
LEMMA LoadPlaces ==
    ASSUME RoomCacheAssumption, RoomInv,
           NEW r \in Room, NEW o \in load_rom(r), Took(o), NEW x \in Room,
           Placed(at', at, o.cache.freed, x), Placed(home', home, o.cache.freed, x),
           \/ x \in o.cache.loaded
           \/ /\ at' = Dangle(at, o.cache.freed)
              /\ home' = Dangle(home, o.cache.freed),
           login' \in Entering,
           login' # Nil => login'.rom \in o.cache.loaded \cup {Nil}
    PROVE  RoomInv' /\ Stays
<1> DEFINE F == o.cache.freed
           G == cache.loaded
           D == o.cache.loaded
<1>1. /\ Memory(cache') /\ cache'.freed = {} /\ cache'.loaded = D
      /\ faults' \in 0..MaxFaults /\ ~cache.torn
  BY TookCache
<1>2. /\ Memory(o.cache) /\ F \cap Occupied = {} /\ G \ F \subseteq D
  BY <1>1, LoadSound
<1>3. F \subseteq Room
  BY <1>2 DEF Memory, CacheType
<1>4. /\ at \in [Player -> Ptr \cup {Freed}] /\ home \in [Player -> Ptr \cup {Freed}]
      /\ \A p \in Player : at[p] \in Room => at[p] \in G
      /\ \A p \in Player : home[p] \in Room => home[p] \in G
  BY DEF RoomInv, RCTypeOK, Held
<1>5. /\ DOMAIN at' = Player /\ at' = [q \in Player |-> at'[q]]
      /\ \A p \in Player : \/ at'[p] = Dangle(at, F)[p]
                           \/ at'[p] = x /\ x \in D
  BY <1>2 DEF Placed
<1>6. /\ DOMAIN home' = Player /\ home' = [q \in Player |-> home'[q]]
      /\ \A p \in Player : \/ home'[p] = Dangle(home, F)[p]
                           \/ home'[p] = x /\ x \in D
  BY <1>2 DEF Placed
<1> HIDE DEF F, G, D
<1>7. /\ Dangle(at, F) \in [Player -> Ptr \cup {Freed}]
      /\ \A p \in Player :
                 /\ Dangle(at, F)[p] \in Room => Dangle(at, F)[p] \in D
                 /\ Dangle(at, F)[p] = Freed => at[p] \in F \cup {Freed}
  BY <1>2, <1>3, <1>4, DangleSound
<1>8. /\ Dangle(home, F) \in [Player -> Ptr \cup {Freed}]
      /\ \A p \in Player : Dangle(home, F)[p] \in Room => Dangle(home, F)[p] \in D
  BY <1>2, <1>3, <1>4, DangleSound
<1>9. at' \in [Player -> Ptr \cup {Freed}] /\ home' \in [Player -> Ptr \cup {Freed}]
  <2>1. \A p \in Player : at'[p] \in Ptr \cup {Freed} /\ home'[p] \in Ptr \cup {Freed}
    BY <1>5, <1>6, <1>7, <1>8 DEF Ptr
  <2> QED BY <2>1, <1>5, <1>6
<1>10. Held'
  <2>1. \A p \in Player : /\ at'[p] \in Room => at'[p] \in D
                          /\ home'[p] \in Room => home'[p] \in D
    BY <1>5, <1>6, <1>7, <1>8
  <2>2. login' # Nil => login'.rom \in D \cup {Nil}
    BY DEF D
  <2> QED BY <1>1, <2>1, <2>2 DEF Held
<1>11. Stays
  <2> SUFFICES ASSUME NEW p \in Player
               PROVE  /\ at'[p] \in Room => at'[p] \in cache'.loaded
                      /\ at'[p] = Freed => at[p] = Freed \/ home[p] = Freed
    BY DEF Stays
  <2>1. at[p] \notin F
    BY <1>2, <1>3 DEF Occupied
  <2>2. x # Freed
    BY DEF RoomCacheAssumption
  <2> QED BY <1>5, <1>7, <1>10, <2>1, <2>2 DEF Held
<1>12. Memory(cache)' /\ RCTypeOK'
  BY <1>1, <1>9 DEF RCTypeOK, Memory, Entering
<1> QED BY <1>1, <1>10, <1>11, <1>12 DEF RoomInv

\* Where the room that was loaded is the one they are put into.
LEMMA LoadKeeps ==
    ASSUME RoomCacheAssumption, RoomInv,
           NEW r \in Room, NEW o \in load_rom(r), Took(o),
           Placed(at', at, o.cache.freed, r), Placed(home', home, o.cache.freed, r),
           o.ptr = Nil => /\ at' = Dangle(at, o.cache.freed)
                          /\ home' = Dangle(home, o.cache.freed),
           login' \in Entering,
           login' # Nil => login'.rom = o.ptr
    PROVE  RoomInv' /\ Stays
<1>1. ~cache.torn
  BY DEF Took
<1>2. (o.ptr = r /\ r \in o.cache.loaded) \/ o.ptr = Nil
  BY <1>1, LoadSound
<1>3. login' # Nil => login'.rom \in o.cache.loaded \cup {Nil}
  BY <1>2
<1>4. \/ r \in o.cache.loaded
      \/ at' = Dangle(at, o.cache.freed) /\ home' = Dangle(home, o.cache.freed)
  BY <1>2
<1> QED BY <1>3, <1>4, LoadPlaces

\* init_ply, the room the player left the game in.
LEMMA StepLogin ==
    ASSUME RoomCacheAssumption, RoomInv, NEW p \in Player, NEW r \in Room, Login(p, r)
    PROVE  RoomInv' /\ Stays
<1>1. PICK o \in load_rom(r) :
         /\ Took(o)
         /\ \/ /\ o.ret = 0
               /\ at' = [Dangle(at, o.cache.freed) EXCEPT ![p] = r]
               /\ \/ /\ home' = [Dangle(home, o.cache.freed) EXCEPT ![p] = r]
                     /\ login' = Nil
                  \/ /\ r \in NoHome
                     /\ home' = Dangle(home, o.cache.freed)
                     /\ login' = [who |-> p, rom |-> o.ptr]
            \/ /\ o.ret = -1 \/ r \in NoHome
               /\ at' = Dangle(at, o.cache.freed)
               /\ home' = Dangle(home, o.cache.freed)
               /\ login' = [who |-> p, rom |-> o.ptr]
  BY DEF Login
<1>2. ~cache.torn
  BY <1>1 DEF Took
<1>3. o.ret = 0 => o.ptr = r
  BY <1>2, LoadSound
<1>4. r # Nil
  BY DEF RoomCacheAssumption
<1>5. /\ Placed(at', at, o.cache.freed, r) /\ Placed(home', home, o.cache.freed, r)
  <2> DEFINE F == o.cache.freed
  <2>1. /\ at' = Dangle(at, F) \/ at' = [Dangle(at, F) EXCEPT ![p] = r]
        /\ home' = Dangle(home, F) \/ home' = [Dangle(home, F) EXCEPT ![p] = r]
    BY <1>1
  <2> HIDE DEF F
  <2>2. Placed(at', at, F, r)
    <3>1. CASE at' = Dangle(at, F)
      BY <3>1 DEF Placed, Dangle
    <3>2. CASE at' = [Dangle(at, F) EXCEPT ![p] = r]
      BY <3>2 DEF Placed, Dangle
    <3> QED BY <2>1, <3>1, <3>2
  <2>3. Placed(home', home, F, r)
    <3>1. CASE home' = Dangle(home, F)
      BY <3>1 DEF Placed, Dangle
    <3>2. CASE home' = [Dangle(home, F) EXCEPT ![p] = r]
      BY <3>2 DEF Placed, Dangle
    <3> QED BY <2>1, <3>1, <3>2
  <2> QED BY <2>1, <2>2, <2>3 DEF F
<1>6. o.ptr = Nil => at' = Dangle(at, o.cache.freed) /\ home' = Dangle(home, o.cache.freed)
  BY <1>1, <1>3, <1>4
<1>7. o.ptr \in Ptr
  BY <1>2, LoadSound DEF Ptr
<1>8. login' \in Entering /\ (login' # Nil => login'.rom = o.ptr)
  BY <1>1, <1>7 DEF Entering
<1> QED BY <1>1, <1>5, <1>6, <1>8, LoadKeeps

\* init_ply, load_rom(1).
LEMMA StepLoginStart ==
    ASSUME RoomCacheAssumption, RoomInv, NEW p \in Player, LoginStart(p)
    PROVE  RoomInv' /\ Stays
<1>0. PICK o \in load_rom(Start) :
         LET rom_ptr == IF o.ptr = Nil THEN login.rom ELSE Start
         IN /\ rom_ptr # Nil
            /\ Took(o)
            /\ at' = [Dangle(at, o.cache.freed) EXCEPT
                         ![p] = IF at[p] = Nil THEN rom_ptr ELSE @]
            /\ \/ /\ home' = [Dangle(home, o.cache.freed) EXCEPT ![p] = rom_ptr]
                  /\ login' = Nil
               \/ /\ at[p] = Nil /\ rom_ptr \in NoHome
                  /\ home' = Dangle(home, o.cache.freed)
                  /\ login' = login
  BY DEF LoginStart
<1> DEFINE x == IF o.ptr = Nil THEN login.rom ELSE Start
           F == o.cache.freed
<1>1. /\ x # Nil
      /\ Took(o)
      /\ at' = [Dangle(at, F) EXCEPT ![p] = IF at[p] = Nil THEN x ELSE @]
      /\ \/ home' = [Dangle(home, F) EXCEPT ![p] = x] /\ login' = Nil
         \/ x \in NoHome /\ home' = Dangle(home, F) /\ login' = login
  BY <1>0
<1>2. Start \in Room /\ Start \notin NoHome /\ Nil \notin Room
  BY DEF RoomCacheAssumption
<1>3. ~cache.torn /\ login # Nil
  BY <1>1 DEF Took, LoginStart
<1>4. /\ login \in Entering /\ login.rom \in cache.loaded \cup {Nil}
      /\ cache.loaded \subseteq Room
  BY <1>3 DEF RoomInv, RCTypeOK, Held, Entering, CacheType
<1>5. /\ (o.ptr = Start /\ Start \in o.cache.loaded) \/ o.ptr = Nil
      /\ cache.loaded \ o.cache.freed \subseteq o.cache.loaded
  BY <1>2, <1>3, LoadSound
<1>6. o.ptr = Nil => F = {}
  <2>1. cache.freed = {} 
    BY DEF RoomInv
  <2>2. CASE Start \in cache.loaded
    BY <1>2, <2>2 DEF load_rom, Outcome
  <2>3. CASE Start \notin cache.loaded
    BY <1>2, <2>1, <2>3 DEF load_rom, Outcome, Evict
  <2> QED BY <2>2, <2>3
<1>7. x \in Room /\ x \in o.cache.loaded
  BY <1>1, <1>2, <1>4, <1>5, <1>6
<1>8. login' \in Entering /\ (login' # Nil => login'.rom \in o.cache.loaded \cup {Nil})
  BY <1>1, <1>2, <1>3, <1>4, <1>7 DEF Entering
<1> HIDE DEF x
<1>9. Placed(at', at, F, x) /\ Placed(home', home, F, x)
  <2> DEFINE d == Dangle(at, F)
  <2>1. at' = d \/ at' = [d EXCEPT ![p] = x]
    BY <1>1 DEF Dangle
  <2>2. Placed(d, at, F, x) /\ Placed([d EXCEPT ![p] = x], at, F, x)
    BY PlacedThere
  <2>3. Placed(Dangle(home, F), home, F, x) /\ Placed([Dangle(home, F) EXCEPT ![p] = x], home, F, x)
    BY PlacedThere
  <2> HIDE DEF d
  <2> QED BY <1>1, <2>1, <2>2, <2>3
<1> QED BY <1>1, <1>2, <1>7, <1>8, <1>9, LoadPlaces

\* A player goes from a room to a room.
LEMMA StepMove ==
    ASSUME RoomCacheAssumption, RoomInv, NEW p \in Player, NEW r \in Room, Move(p, r)
    PROVE  RoomInv' /\ Stays
<1>1. PICK o \in load_rom(r) :
         /\ Took(o)
         /\ home' = Dangle(home, o.cache.freed)
         /\ at' = LET d == Dangle(at, o.cache.freed)
                  IN IF o.ptr = Nil THEN d ELSE [d EXCEPT ![p] = r]
  BY DEF Move
<1>2. login' = Nil /\ Nil \in Entering
  BY DEF Move, Entering
<1>3. Placed(at', at, o.cache.freed, r) /\ Placed(home', home, o.cache.freed, r)
  BY <1>1, PlacedThere
<1> QED BY <1>1, <1>2, <1>3, LoadKeeps

\* A room is loaded and nobody enters it.
LEMMA StepVisit ==
    ASSUME RoomCacheAssumption, RoomInv, NEW r \in Room, Visit(r)
    PROVE  RoomInv' /\ Stays
<1>1. PICK o \in load_rom(r) :
         /\ Took(o)
         /\ home' = Dangle(home, o.cache.freed)
         /\ at' = Dangle(at, o.cache.freed)
  BY DEF Visit
<1>2. login' = Nil /\ Nil \in Entering
  BY DEF Visit, Entering
<1>3. Placed(at', at, o.cache.freed, r) /\ Placed(home', home, o.cache.freed, r)
  BY <1>1 DEF Placed, Dangle
<1> QED BY <1>1, <1>2, <1>3, LoadKeeps

\* The steps that load nothing.
LEMMA StepQuiet ==
    ASSUME RoomCacheAssumption, RoomInv, NEW p \in Player,
           SetHome(p) \/ TeleportHome(p) \/ Quit(p) \/ UNCHANGED rcvars
    PROVE  RoomInv' /\ Stays
<1>1. /\ at \in [Player -> Ptr \cup {Freed}] /\ home \in [Player -> Ptr \cup {Freed}]
      /\ Nil \notin Room /\ Nil # Freed /\ Nil \in Ptr /\ RCTypeOK /\ Held
  BY DEF RoomInv, RCTypeOK, RoomCacheAssumption, Ptr
<1>2. cache' = cache /\ login' = login /\ faults' = faults
  BY DEF SetHome, TeleportHome, Quit, rcvars
<1>3. /\ at' \in [Player -> Ptr \cup {Freed}] /\ home' \in [Player -> Ptr \cup {Freed}]
      /\ \A q \in Player : /\ at'[q] \in {at[q], home[q], Nil}
                           /\ home'[q] \in {at[q], home[q], Nil}
  BY <1>1 DEF SetHome, TeleportHome, Quit, rcvars
<1>4. Held' /\ Stays
  BY <1>1, <1>2, <1>3 DEF Held, Stays
<1>5. RCTypeOK'
  BY <1>1, <1>2, <1>3 DEF RCTypeOK
<1> QED BY <1>2, <1>4, <1>5 DEF RoomInv, Memory

\* A step that changes nothing of the cache but files of rooms in memory.
LEMMA FileStep ==
    ASSUME RoomCacheAssumption, RoomInv,
           NEW f \in [Room -> {"current", "stale", "moved"}],
           \A s \in Room \ cache.loaded : f[s] # "stale",
           cache' = [cache EXCEPT !.file = f],
           at' = at, login' = login, faults' \in 0..MaxFaults,
           home' \in [Player -> Ptr \cup {Freed}],
           \A p \in Player : home'[p] \in {home[p], Freed}
    PROVE  RoomInv' /\ Stays
<1>1. cache \in CacheType /\ cache.freed = {} /\ Memory(cache) /\ Held /\ RCTypeOK
  BY DEF RoomInv, RCTypeOK
<1>2. /\ cache' \in CacheType
      /\ cache'.freed = {} /\ cache'.loaded = cache.loaded /\ cache'.out = cache.out
      /\ cache'.torn = cache.torn /\ cache'.file = f
      /\ cache'.head = cache.head /\ cache'.tail = cache.tail /\ cache'.size = cache.size
      /\ cache'.next = cache.next /\ cache'.prev = cache.prev
  BY <1>1 DEF CacheType
<1>3. ASSUME NEW q, NEW L, QueueIs(cache, q, L) PROVE QueueIs(cache', q, L)
  BY <1>2, <1>3 DEF QueueIs, Linked
<1>4. Memory(cache')
  BY <1>1, <1>2, <1>3, Zenon DEF Memory
<1>5. Freed \notin Room
  BY DEF RoomCacheAssumption
<1>6. Held' /\ Stays
  BY <1>1, <1>2, <1>5 DEF Held, Stays
<1>7. RCTypeOK'
  BY <1>1, <1>2 DEF RCTypeOK
<1> QED BY <1>2, <1>4, <1>6, <1>7 DEF RoomInv

\* Changes, saves and reloads: only files and pointers home change.
LEMMA StepFiles ==
    ASSUME RoomCacheAssumption, RoomInv, NEW r \in Room,
           Change(r) \/ resave_rom(r) \/ reload_rom(r) \/ resave_all_rom
    PROVE  RoomInv' /\ Stays
<1>1. /\ cache \in CacheType /\ RCTypeOK /\ Held
      /\ \A s \in Room \ cache.loaded : cache.file[s] # "stale"
      /\ cache.file \in [Room -> {"current", "stale", "moved"}]
      /\ home \in [Player -> Ptr \cup {Freed}] /\ faults \in 0..MaxFaults
      /\ MaxFaults \in Nat
      /\ Occupied \subseteq cache.loaded
  BY DEF RoomInv, RCTypeOK, Memory, CacheType, RoomCacheAssumption, Occupied, Held
<1>2. CASE Change(r)
  <2> DEFINE f == [cache.file EXCEPT ![r] = "stale"]
  <2>1. f \in [Room -> {"current", "stale", "moved"}]
        /\ \A s \in Room \ cache.loaded : f[s] # "stale"
    BY <1>1, <1>2 DEF Change
  <2>2. /\ cache' = [cache EXCEPT !.file = f] /\ at' = at /\ login' = login
        /\ faults' = faults /\ home' = home
    BY <1>2 DEF Change
  <2> HIDE DEF f
  <2> QED BY <1>1, <2>1, <2>2, FileStep
<1>3. CASE resave_rom(r)
  <2>1. PICK x \in {"current", "stale", "moved"} :
            cache' = [cache EXCEPT !.file = [@ EXCEPT ![r] = x]]
    BY <1>1, <1>3 DEF resave_rom
  <2> DEFINE f == [cache.file EXCEPT ![r] = x]
  <2>2. f \in [Room -> {"current", "stale", "moved"}]
        /\ \A s \in Room \ cache.loaded : f[s] # "stale"
    BY <1>1, <1>3 DEF resave_rom
  <2>3. /\ cache' = [cache EXCEPT !.file = f] /\ at' = at /\ login' = login
        /\ faults' \in 0..MaxFaults /\ home' = home
    BY <1>1, <1>3, <2>1 DEF resave_rom
  <2> HIDE DEF f
  <2> QED BY <1>1, <2>2, <2>3, FileStep
<1>4. CASE reload_rom(r)
  <2> DEFINE f == [cache.file EXCEPT ![r] = "current"]
  <2>1. f \in [Room -> {"current", "stale", "moved"}]
        /\ \A s \in Room \ cache.loaded : f[s] # "stale"
    BY <1>1, <1>4 DEF reload_rom
  <2>2. /\ cache' = [cache EXCEPT !.file = f] /\ at' = at /\ login' = login
        /\ faults' = faults /\ home' = Dangle(home, {r})
    BY <1>4 DEF reload_rom
  <2>3. /\ home' \in [Player -> Ptr \cup {Freed}]
        /\ \A p \in Player : home'[p] \in {home[p], Freed}
    BY <1>1, <2>2 DEF Dangle
  <2> HIDE DEF f
  <2> QED BY <1>1, <2>1, <2>2, <2>3, FileStep
<1>5. CASE resave_all_rom
  <2>1. PICK n : cache' = [cache EXCEPT !.file = Resaved(n)]
    BY <1>5 DEF resave_all_rom
  <2> DEFINE f == Resaved(n)
  <2>2. f \in [Room -> {"current", "stale", "moved"}]
        /\ \A s \in Room \ cache.loaded : f[s] # "stale"
    BY <1>1 DEF Resaved
  <2>3. /\ at' = at /\ login' = login /\ faults' \in 0..MaxFaults /\ home' = home
    BY <1>1, <1>5 DEF resave_all_rom
  <2>4. cache' = [cache EXCEPT !.file = f]
    BY <2>1
  <2> HIDE DEF f
  <2> QED BY <1>1, <2>2, <2>3, <2>4, FileStep
<1> QED BY <1>2, <1>3, <1>4, <1>5

\* A cache with nothing in it.
LEMMA NewCacheSound ==
    ASSUME RoomCacheAssumption, NEW f \in [Room -> {"current", "stale", "moved"}],
           \A s \in Room : f[s] # "stale"
    PROVE  LET c == NewCache(f)
           IN Memory(c) /\ c.freed = {} /\ ~c.torn /\ c.size = 0 /\ c.out = {}
<1> DEFINE c == NewCache(f)
           q == [i \in 1..0 |-> Nil]
<1>1. /\ c.size = 0 /\ c.head = Nil /\ c.tail = Nil /\ c.loaded = {} /\ c.out = {}
      /\ c.file = f /\ ~c.torn /\ c.freed = {}
  BY DEF NewCache
<1>2. c \in CacheType
  BY DEF NewCache, CacheType, Ptr
<1> HIDE DEF c
<1>3. q \in [1..0 -> Room] /\ RQMAX \in Nat
  BY DEF RoomCacheAssumption
<1>4. QueueIs(c, q, 0)
  <2> HIDE DEF q
  <2> QED BY <1>1, <1>3 DEF QueueIs, Linked
<1>5. Memory(c)
  BY <1>1, <1>2, <1>4 DEF Memory
<1> QED BY <1>1, <1>5 DEF c

\* At the start there is nothing in memory.
LEMMA RoomInitSound == RoomCacheAssumption /\ RCInit => RoomInv
<1> SUFFICES ASSUME RoomCacheAssumption, RCInit PROVE RoomInv
  OBVIOUS
<1> DEFINE f == [r \in Room |-> "current"]
<1>1. cache = NewCache(f) /\ f \in [Room -> {"current", "stale", "moved"}]
      /\ \A s \in Room : f[s] # "stale"
  BY DEF RCInit
<1> HIDE DEF f
<1>2. Memory(cache) /\ cache.freed = {}
  BY <1>1, NewCacheSound
<1>3. RCTypeOK /\ Held
  BY <1>2 DEF RCInit, RCTypeOK, Memory, Held, Ptr, RoomCacheAssumption
<1> QED BY <1>2, <1>3 DEF RoomInv

\* After a crash there is nothing in memory either.
LEMMA StepCrash ==
    ASSUME RoomCacheAssumption, RoomInv, RCCrash
    PROVE  RoomInv' /\ Stays
<1> DEFINE f == [r \in Room |-> IF cache.file[r] = "stale" THEN "current" ELSE cache.file[r]]
<1>1. f \in [Room -> {"current", "stale", "moved"}] /\ \A s \in Room : f[s] # "stale"
  BY DEF RoomInv, RCTypeOK, CacheType
<1>2. cache' = NewCache(f)
  BY DEF RCCrash
<1> HIDE DEF f
<1>3. Memory(cache') /\ cache'.freed = {}
  BY <1>1, <1>2, NewCacheSound
<1>4. /\ Nil \notin Room /\ Nil # Freed /\ Nil \in Ptr /\ faults \in 0..MaxFaults
  BY DEF RoomCacheAssumption, Ptr, RoomInv, RCTypeOK
<1>5. RCTypeOK' /\ Held' /\ Stays
  BY <1>3, <1>4 DEF RCCrash, RCTypeOK, Memory, Held, Stays
<1> QED BY <1>3, <1>5 DEF RoomInv, Memory

\* Every step keeps the invariant, and does what PresentLoaded says.
LEMMA RoomInductive ==
    RoomCacheAssumption /\ RoomInv /\ [RCNext]_rcvars => RoomInv' /\ Stays
<1> SUFFICES ASSUME RoomCacheAssumption, RoomInv, [RCNext]_rcvars
             PROVE  RoomInv' /\ Stays
  OBVIOUS
<1>1. ASSUME NEW p \in Player, NEW r \in Room, Login(p, r) \/ Move(p, r)
      PROVE  RoomInv' /\ Stays
  BY <1>1, StepLogin, StepMove
<1>2. ASSUME NEW p \in Player, LoginStart(p) \/ SetHome(p) \/ TeleportHome(p) \/ Quit(p)
      PROVE  RoomInv' /\ Stays
  BY <1>2, StepLoginStart, StepQuiet
<1>3. ASSUME NEW r \in Room, Visit(r) \/ Change(r) \/ resave_rom(r) \/ reload_rom(r)
      PROVE  RoomInv' /\ Stays
  BY <1>3, StepVisit, StepFiles
<1>4. ASSUME resave_all_rom PROVE RoomInv' /\ Stays
  <2>1. Start \in Room
    BY DEF RoomCacheAssumption
  <2> QED BY <1>4, <2>1, StepFiles
<1>5. ASSUME UNCHANGED rcvars PROVE RoomInv' /\ Stays
  <2>1. RoomInv'
    BY <1>5 DEF rcvars, RoomInv, RCTypeOK, Memory, Held
  <2>2. Stays
    BY <1>5 DEF rcvars, RoomInv, Held, Stays
  <2> QED BY <2>1, <2>2
<1> QED BY <1>1, <1>2, <1>3, <1>4, <1>5, StepCrash DEF RCNext

-----------------------------------------------------------------------------
(* The queue read from its ends.                                           *)

\* f is the tags from h on along the links nx, Nil after the last.
Walks(f, h, nx, N) ==
    f = [i \in 0..N |-> IF i = 0 THEN h
                        ELSE IF f[i - 1] = Nil THEN Nil ELSE nx[f[i - 1]]]

Chain(h, nx, N) == CHOOSE f : Walks(f, h, nx, N)

\* There is one such walk.
LEMMA WalkOnly ==
    ASSUME NEW h, NEW nx, NEW N \in Nat, NEW f, NEW g,
           Walks(f, h, nx, N), Walks(g, h, nx, N)
    PROVE  f = g
<1> DEFINE Bad == {i \in 0..N : f[i] # g[i]}
<1>1. /\ \A i \in 0..N : f[i] = IF i = 0 THEN h
                        ELSE IF f[i - 1] = Nil THEN Nil ELSE nx[f[i - 1]]
      /\ \A i \in 0..N : g[i] = IF i = 0 THEN h
                        ELSE IF g[i - 1] = Nil THEN Nil ELSE nx[g[i - 1]]
  BY DEF Walks
<1>2. Bad = {}
  <2> SUFFICES ASSUME Bad # {} PROVE FALSE
    OBVIOUS
  <2>1. Bad \in SUBSET Nat
    OBVIOUS
  <2>2. PICK i \in Bad : \A j \in Bad : i <= j
    <3> HIDE DEF Bad
    <3> QED BY <2>1, Least
  <2>3. i # 0
    BY <1>1, <2>2
  <2>4. i - 1 \in 0..N /\ i - 1 \notin Bad
    BY <2>2, <2>3
  <2>5. f[i - 1] = g[i - 1]
    BY <2>4
  <2> QED BY <1>1, <2>2, <2>3, <2>5
<1>3. \A i \in 0..N : f[i] = g[i]
  BY <1>2
<1>4. f = [i \in 0..N |-> f[i]] /\ g = [i \in 0..N |-> g[i]]
  <2>1. DOMAIN f = 0..N /\ DOMAIN g = 0..N
    BY DEF Walks
  <2> QED BY <2>1 DEF Walks
<1> QED BY <1>3, <1>4

Ahead(q, L, N) == [i \in 0..N |-> IF i < L THEN q[i + 1] ELSE Nil]

\* A walk along a queue meets its rooms in order, and then Nil.
LEMMA WalkIs ==
    ASSUME RoomCacheAssumption, NEW L \in Nat, NEW N \in Nat, L <= N,
           NEW q \in [1..L -> Room], NEW nx, NEW h,
           h = IF L = 0 THEN Nil ELSE q[1],
           \A i \in 1..L : nx[q[i]] = IF i = L THEN Nil ELSE q[i + 1]
    PROVE  Chain(h, nx, N) = Ahead(q, L, N)
<1> DEFINE g == [i \in 0..N |-> IF i < L THEN q[i + 1] ELSE Nil]
<1>0. Nil \notin Room
  BY DEF RoomCacheAssumption
<1>1. ASSUME NEW i \in 0..N
      PROVE  g[i] = IF i = 0 THEN h ELSE IF g[i - 1] = Nil THEN Nil ELSE nx[g[i - 1]]
  <2>1. CASE i = 0
    BY <2>1
  <2>2. CASE i # 0
    <3>1. i - 1 \in 0..N /\ g[i - 1] = IF i - 1 < L THEN q[(i - 1) + 1] ELSE Nil
      BY <2>2
    <3>2. CASE i - 1 < L
      <4>1. i \in 1..L /\ (i - 1) + 1 = i /\ q[i] \in Room
        BY <2>2, <3>2
      <4>2. g[i - 1] = q[i] /\ q[i] # Nil
        BY <1>0, <3>1, <3>2, <4>1
      <4>3. g[i] = IF i = L THEN Nil ELSE q[i + 1]
        BY <4>1
      <4> HIDE DEF g
      <4> QED BY <2>2, <4>1, <4>2, <4>3
    <3>3. CASE ~(i - 1 < L)
      BY <2>2, <3>1, <3>3
    <3> QED BY <3>2, <3>3
  <2> QED BY <2>1, <2>2
<1>2. Walks(g, h, nx, N)
  <2>1. g = [i \in 0..N |-> g[i]]
    OBVIOUS
  <2> HIDE DEF g
  <2>2. g = [i \in 0..N |-> IF i = 0 THEN h
                        ELSE IF g[i - 1] = Nil THEN Nil ELSE nx[g[i - 1]]]
    BY <1>1, <2>1
  <2> QED BY <2>2 DEF Walks
<1> HIDE DEF g
<1>3. \A f : Walks(f, h, nx, N) => f = g
  BY <1>2, WalkOnly
<1>4. Chain(h, nx, N) = g
  BY <1>2, <1>3 DEF Chain
<1> QED BY <1>4 DEF g, Ahead

Back(q, L) == [i \in 1..L |-> q[L + 1 - i]]

\* What Forward and Backward read of a queue.
LEMMA BothEnds ==
    ASSUME RoomCacheAssumption, NEW q, NEW L, Linked(cache, q, L)
    PROVE  /\ L <= Cardinality(Room) /\ Cardinality(Room) \in Nat
           /\ Forward = [i \in 0..Cardinality(Room) |-> IF i < L THEN q[i + 1] ELSE Nil]
           /\ Backward = [i \in 0..Cardinality(Room) |->
                              IF i < L THEN Back(q, L)[i + 1] ELSE Nil]
<1> DEFINE N == Cardinality(Room)
           b == Back(q, L)
<1>1. /\ L \in Nat /\ q \in [1..L -> Room]
      /\ \A i, j \in 1..L : q[i] = q[j] => i = j
  BY DEF Linked
<1>2. L <= N /\ N \in Nat
  BY <1>1, QueueCount
<1> HIDE DEF N
<1>3. Forward = Chain(cache.head, cache.next, N)
  BY DEF Forward, Walks, Chain, N
<1>4. Backward = Chain(cache.tail, cache.prev, N)
  BY DEF Backward, Walks, Chain, N
<1>5. Forward = Ahead(q, L, N)
  <2> DEFINE h == cache.head
             nx == cache.next
  <2>1. /\ h = IF L = 0 THEN Nil ELSE q[1]
        /\ \A i \in 1..L : nx[q[i]] = IF i = L THEN Nil ELSE q[i + 1]
    BY DEF Linked
  <2>2. Forward = Chain(h, nx, N)
    BY <1>3
  <2> HIDE DEF h, nx
  <2>3. L \in Nat /\ q \in [1..L -> Room]
    BY <1>1
  <2>4. h = IF L = 0 THEN Nil ELSE q[1]
    BY <2>1
  <2>5. \A i \in 1..L : nx[q[i]] = IF i = L THEN Nil ELSE q[i + 1]
    BY <2>1
  <2>6. Chain(h, nx, N) = Ahead(q, L, N)
    BY <1>2, <2>3, <2>4, <2>5, WalkIs, Z3
  <2> QED BY <2>2, <2>6
<1>6. Backward = Ahead(b, L, N)
  <2> DEFINE h == cache.tail
             nx == cache.prev
  <2>1. /\ \A i \in 1..L : b[i] = q[L + 1 - i] /\ L + 1 - i \in 1..L
        /\ b \in [1..L -> Room]
    BY <1>1 DEF Back
  <2> HIDE DEF b
  <2>2. h = IF L = 0 THEN Nil ELSE b[1]
    BY <1>1, <2>1 DEF Linked
  <2>3. ASSUME NEW i \in 1..L PROVE nx[b[i]] = IF i = L THEN Nil ELSE b[i + 1]
    <3> DEFINE j == L + 1 - i
    <3>1. j \in 1..L /\ b[i] = q[j] /\ (j = 1 <=> i = L) /\ (i # L => i + 1 \in 1..L /\ L + 1 - (i + 1) = j - 1)
      BY <1>1, <2>1
    <3> HIDE DEF j
    <3>2. nx[q[j]] = IF j = 1 THEN Nil ELSE q[j - 1]
      BY <3>1 DEF Linked
    <3>3. i # L => b[i + 1] = q[j - 1]
      BY <2>1, <3>1
    <3> QED BY <3>1, <3>2, <3>3
  <2>4. Backward = Chain(h, nx, N)
    BY <1>4
  <2> HIDE DEF h, nx
  <2>5. b \in [1..L -> Room] /\ \A i \in 1..L : nx[b[i]] = IF i = L THEN Nil ELSE b[i + 1]
    BY <2>1, <2>3
  <2>7. L \in Nat
    BY <1>1
  <2>6. Chain(h, nx, N) = Ahead(b, L, N)
    BY <1>2, <2>2, <2>5, <2>7, WalkIs, Z3
  <2> QED BY <2>4, <2>6
<1> QED BY <1>2, <1>5, <1>6 DEF N, b, Ahead

\* The invariant says what QueueSound asks of the two walks.
LEMMA QueueSoundFollows ==
    ASSUME RoomCacheAssumption, RoomInv
    PROVE  QueueSound
<1>1. RCTypeOK /\ Memory(cache)
  BY DEF RoomInv
<1>2. ASSUME ~cache.torn, NEW q, NEW L, QueueIs(cache, q, L)
      PROVE  LET n == cache.size
                 queued == cache.loaded \ cache.out
             IN /\ n <= RQMAX
                /\ n = Cardinality(queued)
                /\ Forward[n] = Nil /\ Backward[n] = Nil
                /\ {Forward[i] : i \in 0..(n-1)} = queued
                /\ \A i \in 0..(n-1) : Forward[i] = Backward[n - 1 - i]
  <2>1. /\ Linked(cache, q, L) /\ L <= RQMAX /\ cache.size = L /\ L \in Nat
        /\ q \in [1..L -> Room] /\ \A i, j \in 1..L : q[i] = q[j] => i = j
        /\ {q[i] : i \in 1..L} = cache.loaded \ cache.out
    BY <1>2 DEF QueueIs, Linked
  <2>2. Cardinality(cache.loaded \ cache.out) = L
    BY <2>1, QueueCount
  <2>3. /\ L <= Cardinality(Room) /\ Cardinality(Room) \in Nat
        /\ Forward = [i \in 0..Cardinality(Room) |-> IF i < L THEN q[i + 1] ELSE Nil]
        /\ Backward = [i \in 0..Cardinality(Room) |->
                              IF i < L THEN Back(q, L)[i + 1] ELSE Nil]
    BY <2>1, BothEnds
  <2>4. Forward[L] = Nil /\ Backward[L] = Nil
    BY <2>1, <2>3
  <2>5. ASSUME NEW i \in 0..(L-1)
        PROVE  Forward[i] = q[i + 1] /\ Backward[L - 1 - i] = q[i + 1]
    <3>1. i \in 0..Cardinality(Room) /\ i < L
      BY <2>1, <2>3
    <3>2. /\ L - 1 - i \in 0..Cardinality(Room) /\ L - 1 - i < L
          /\ (L - 1 - i) + 1 \in 1..L /\ L + 1 - ((L - 1 - i) + 1) = i + 1
      BY <2>1, <2>3
    <3>3. Forward[i] = q[i + 1]
      BY <2>3, <3>1
    <3>4. Backward[L - 1 - i] = Back(q, L)[(L - 1 - i) + 1]
      BY <2>3, <3>2
    <3>5. Back(q, L)[(L - 1 - i) + 1] = q[i + 1]
      BY <3>2 DEF Back
    <3> QED BY <3>3, <3>4, <3>5
  <2>6. {Forward[i] : i \in 0..(L-1)} = {q[i] : i \in 1..L}
    <3>1. ASSUME NEW x \in {Forward[i] : i \in 0..(L-1)} PROVE x \in {q[i] : i \in 1..L}
      <4>1. PICK i \in 0..(L-1) : x = Forward[i]
        OBVIOUS
      <4>2. x = q[i + 1] /\ i + 1 \in 1..L
        BY <4>1, <2>1, <2>5, SMTT(30)
      <4> QED BY <4>2
    <3>2. ASSUME NEW x \in {q[i] : i \in 1..L} PROVE x \in {Forward[i] : i \in 0..(L-1)}
      <4>1. PICK i \in 1..L : x = q[i]
        OBVIOUS
      <4>2. i - 1 \in 0..(L-1) /\ (i - 1) + 1 = i
        BY <2>1
      <4>3. x = Forward[i - 1]
        BY <4>1, <4>2, <2>5
      <4> QED BY <4>2, <4>3
    <3> QED BY <3>1, <3>2
  <2> QED BY <2>1, <2>2, <2>4, <2>5, <2>6
<1> QED BY <1>1, <1>2 DEF QueueSound, Memory

-----------------------------------------------------------------------------
(* The refinement of Lru.                                                  *)

\* A queue is a sequence.
LEMMA SequenceOf ==
    ASSUME NEW L \in Nat, NEW q \in [1..L -> Room]
    PROVE  q \in Seq(Room) /\ Len(q) = L /\ \A i \in 1..L : q[i] \in Room
<1>1. q \in Seq(Room)
  BY SeqDef
<1>2. DOMAIN q = 1..Len(q) /\ Len(q) \in Nat /\ DOMAIN q = 1..L
  BY <1>1, LenProperties
<1>3. Len(q) = L
  <2>1. \A m, n \in Nat : 1..m = 1..n => m = n
    <3> SUFFICES ASSUME NEW m \in Nat, NEW n \in Nat, 1..m = 1..n, m # n PROVE FALSE
      OBVIOUS
    <3>1. CASE m < n
      <4>1. n \in 1..n /\ n \notin 1..m
        BY <3>1
      <4> QED BY <4>1
    <3>2. CASE n < m
      <4>1. m \in 1..m /\ m \notin 1..n
        BY <3>2
      <4> QED BY <4>1
    <3> QED BY <3>1, <3>2
  <2> QED BY <1>2, <2>1
<1> QED BY <1>1, <1>3

\* What Lru does with a sequence is what the links were shown to do.
LEMMA TouchedSequence ==
    ASSUME NEW L \in Nat, NEW q \in [1..L -> Room], NEW k \in 1..L
    PROVE  <<q[k]>> \o SubSeq(q, 1, k - 1) \o SubSeq(q, k + 1, Len(q)) = Fronted(q, L, k)
<1>1. q \in Seq(Room) /\ Len(q) = L
  BY SequenceOf
<1> DEFINE a == SubSeq(q, 1, k - 1)
           b == SubSeq(q, k + 1, L)
<1>2. /\ a \in Seq(Room) /\ Len(a) = k - 1 /\ \A i \in 1..k-1 : a[i] = q[i]
      /\ b \in Seq(Room) /\ Len(b) = L - k /\ \A i \in 1..L-k : b[i] = q[k + i]
  <2>1. \A i \in 1..k-1 : i \in 1..Len(q)
    BY <1>1
  <2>2. \A i \in k+1..L : i \in 1..Len(q)
    BY <1>1
  <2>3. \A i \in 1..L-k : i + (k + 1) - 1 = k + i
    OBVIOUS
  <2> QED BY <1>1, <2>1, <2>2, <2>3, SubSeqProperties
<1> HIDE DEF a, b
<1> DEFINE c == <<q[k]>> \o a
<1>3. c \in Seq(Room) /\ Len(c) = k /\ c[1] = q[k] /\ \A i \in 2..k : c[i] = q[i - 1]
  <2>1. <<q[k]>> \in Seq(Room) /\ Len(<<q[k]>>) = 1 /\ <<q[k]>>[1] = q[k]
    OBVIOUS
  <2>2. /\ c \in Seq(Room) /\ Len(c) = 1 + (k - 1)
        /\ \A i \in 1..Len(c) : c[i] = IF i <= 1 THEN <<q[k]>>[i] ELSE a[i - 1]
    BY <1>2, <2>1, ConcatProperties
  <2> HIDE DEF c
  <2> QED BY <1>2, <2>1, <2>2
<1> HIDE DEF c
<1> DEFINE d == c \o b
<1>4. /\ d \in Seq(Room) /\ Len(d) = L
      /\ \A i \in 1..L : d[i] = IF i <= k THEN c[i] ELSE q[i]
  <2>1. /\ d \in Seq(Room) /\ Len(d) = k + (L - k)
        /\ \A i \in 1..Len(d) : d[i] = IF i <= k THEN c[i] ELSE b[i - k]
    <3>1. /\ d \in Seq(Room) /\ Len(d) = Len(c) + Len(b)
          /\ \A i \in 1..Len(c) + Len(b) : d[i] = IF i <= Len(c) THEN c[i] ELSE b[i - Len(c)]
      BY <1>2, <1>3, ConcatProperties
    <3> HIDE DEF d
    <3> QED BY <1>2, <1>3, <3>1
  <2> HIDE DEF d
  <2>2. \A i \in 1..L : i > k => i - k \in 1..L-k /\ k + (i - k) = i
    OBVIOUS
  <2> QED BY <1>2, <2>1, <2>2
<1> HIDE DEF d
<1>5. d = [i \in 1..L |-> d[i]]
  BY <1>4, LenProperties
<1>6. d = Fronted(q, L, k)
  BY <1>3, <1>4, <1>5, SMTT(30) DEF Fronted
<1> QED BY <1>1, <1>6 DEF a, b, c, d

\* A room put in front.
LEMMA AddedSequence ==
    ASSUME NEW L \in Nat, NEW q \in [1..L -> Room], NEW r \in Room
    PROVE  <<r>> \o q = With(q, L, r)
<1>1. q \in Seq(Room) /\ Len(q) = L
  BY SequenceOf
<1> DEFINE d == <<r>> \o q
<1>2. <<r>> \in Seq(Room) /\ Len(<<r>>) = 1 /\ <<r>>[1] = r
  OBVIOUS
<1>3. /\ d \in Seq(Room) /\ Len(d) = 1 + L
      /\ \A i \in 1..Len(d) : d[i] = IF i <= 1 THEN <<r>>[i] ELSE q[i - 1]
  BY <1>1, <1>2, ConcatProperties
<1> HIDE DEF d
<1>4. d = [i \in 1..L+1 |-> d[i]]
  BY <1>3, LenProperties
<1>5. \A i \in 1..L+1 : d[i] = IF i = 1 THEN r ELSE q[i - 1]
  BY <1>2, <1>3
<1>6. d = With(q, L, r)
  BY <1>4, <1>5 DEF With
<1> QED BY <1>6 DEF d

\* The rooms behind the one dropped are brought in front.
LEMMA DroppedSequence ==
    ASSUME NEW w \in [1..RQMAX+1 -> Room], RQMAX \in Nat, NEW k \in 1..RQMAX+1
    PROVE  Abstract!Dropped(w, k) = Dropping(w, k)
<1> DEFINE L == RQMAX + 1
<1>1. w \in Seq(Room) /\ Len(w) = L
  BY SequenceOf
<1> DEFINE a == SubSeq(w, k + 1, L)
           b == SubSeq(w, 1, k - 1)
<1>2. /\ b \in Seq(Room) /\ Len(b) = k - 1 /\ \A i \in 1..k-1 : b[i] = w[i]
      /\ a \in Seq(Room) /\ Len(a) = L - k /\ \A i \in 1..L-k : a[i] = w[k + i]
  <2>1. \A i \in 1..k-1 : i \in 1..Len(w)
    BY <1>1
  <2>2. \A i \in k+1..L : i \in 1..Len(w)
    BY <1>1
  <2>3. \A i \in 1..L-k : i + (k + 1) - 1 = k + i
    OBVIOUS
  <2> QED BY <1>1, <2>1, <2>2, <2>3, SubSeqProperties
<1> HIDE DEF a, b
<1> DEFINE d == a \o b
<1>4. /\ d \in Seq(Room) /\ Len(d) = RQMAX
      /\ \A i \in 1..RQMAX : d[i] = IF i <= L - k THEN w[k + i] ELSE w[i - (L - k)]
  <2>1. /\ d \in Seq(Room) /\ Len(d) = (L - k) + (k - 1)
        /\ \A i \in 1..Len(d) : d[i] = IF i <= L - k THEN a[i] ELSE b[i - (L - k)]
    <3>1. a \in Seq(Room) /\ b \in Seq(Room)
      BY <1>2
    <3>2. /\ d \in Seq(Room) /\ Len(d) = Len(a) + Len(b)
          /\ \A i \in 1..Len(d) : d[i] = IF i <= Len(a) THEN a[i] ELSE b[i - Len(a)]
      BY <3>1, ConcatProperties
    <3>3. Len(a) = L - k /\ Len(b) = k - 1
      BY <1>2
    <3> HIDE DEF d
    <3> QED BY <3>2, <3>3
  <2> HIDE DEF d
  <2>2. \A i \in 1..RQMAX : /\ i > L - k => i - (L - k) \in 1..k-1
                           /\ i <= L - k => i \in 1..L-k
    OBVIOUS
  <2>3. Len(d) = RQMAX
    BY <2>1
  <2>4. ASSUME NEW i \in 1..RQMAX
        PROVE  d[i] = IF i <= L - k THEN w[k + i] ELSE w[i - (L - k)]
    <3>1. d[i] = IF i <= L - k THEN a[i] ELSE b[i - (L - k)]
      BY <2>1, <2>3
    <3>2. i <= L - k => a[i] = w[k + i]
      BY <1>2, <2>2
    <3>3. ~(i <= L - k) => b[i - (L - k)] = w[i - (L - k)]
      BY <1>2, <2>2
    <3> QED BY <3>1, <3>2, <3>3
  <2> QED BY <2>1, <2>3, <2>4
<1> HIDE DEF d
<1>5. d = [i \in 1..RQMAX |-> d[i]]
  BY <1>4, LenProperties
<1>6. d = Dropping(w, k)
  BY <1>4, <1>5 DEF Dropping
<1> QED BY <1>1, <1>6 DEF a, b, d, Abstract!Dropped

\* The queue of c from its head: what Lru's queue stands for.
Shown(c) == [i \in 1..c.size |-> Chain(c.head, c.next, Cardinality(Room))[i - 1]]

\* It is the queue the links were shown to be.
LEMMA ShownIs ==
    ASSUME RoomCacheAssumption, NEW c, NEW q, NEW L, Linked(c, q, L)
    PROVE  Shown(c) = q
<1> DEFINE N == Cardinality(Room)
           h == c.head
           nx == c.next
<1>1. /\ L \in Nat /\ q \in [1..L -> Room] /\ c.size = L
      /\ \A i, j \in 1..L : q[i] = q[j] => i = j
      /\ h = IF L = 0 THEN Nil ELSE q[1]
  BY DEF Linked
<1>2. \A i \in 1..L : nx[q[i]] = IF i = L THEN Nil ELSE q[i + 1]
  BY DEF Linked
<1>3. L <= N /\ N \in Nat
  BY <1>1, QueueCount
<1> HIDE DEF N, h, nx
<1>4. L \in Nat /\ q \in [1..L -> Room]
  BY <1>1
<1>9. h = IF L = 0 THEN Nil ELSE q[1]
  BY <1>1
<1>10. \A i \in 1..L : nx[q[i]] = IF i = L THEN Nil ELSE q[i + 1]
  BY <1>2
<1>11. L <= N /\ N \in Nat
  BY <1>3
<1>5. Chain(h, nx, N) = Ahead(q, L, N)
  BY <1>4, <1>9, <1>10, <1>11, WalkIs, Z3
<1>6. \A i \in 1..L : Ahead(q, L, N)[i - 1] = q[i]
  BY <1>3, <1>4 DEF Ahead
<1>7. Shown(c) = [i \in 1..L |-> Chain(h, nx, N)[i - 1]]
  BY <1>1 DEF Shown, h, nx, N
<1>8. [i \in 1..L |-> Chain(h, nx, N)[i - 1]] = [i \in 1..L |-> q[i]]
  BY <1>5, <1>6
<1> QED BY <1>4, <1>7, <1>8

\* The abstract queue, before and after a step.
AQ == [i \in 1..cache.size |-> Forward[i - 1]]
AB == Occupied \ cache.out

\* Both read the links with the same walk.
LEMMA ShownQueue == AQ = Shown(cache) /\ AQ' = Shown(cache')
<1>1. Forward = Chain(cache.head, cache.next, Cardinality(Room))
  BY DEF Forward, Walks, Chain
<1>2. Forward' = Chain(cache'.head, cache'.next, Cardinality(Room))
  BY DEF Forward, Walks, Chain
<1> QED BY <1>1, <1>2 DEF AQ, Shown

\* A room with players in it is in the queue, unless an eviction of it failed.
LEMMA StayIs ==
    ASSUME RoomInv', NEW q, NEW L, QueueIs(cache', q, L), AQ' = q
    PROVE  AB' \subseteq {AQ'[i] : i \in 1..Len(AQ')}
<1>1. /\ L \in Nat /\ q \in [1..L -> Room]
      /\ {q[i] : i \in 1..L} = cache'.loaded \ cache'.out
  BY DEF QueueIs, Linked
<1>2. Len(q) = L
  BY <1>1, SequenceOf
<1>3. Occupied' \subseteq cache'.loaded
  BY DEF RoomInv, Held, Occupied
<1> QED BY <1>1, <1>2, <1>3 DEF AB

\* A call of load_rom is a use of Lru, or it has failed and is a walk.
LEMMA LoadRefines ==
    ASSUME RoomCacheAssumption, RoomInv, RoomInv', ~cache'.torn,
           NEW r \in Room, NEW o \in load_rom(r), Took(o)
    PROVE  Abstract!Next
<1> DEFINE d == o.cache
<1>1. /\ ~cache.torn /\ cache'.loaded = d.loaded /\ cache'.out = d.out
      /\ cache'.torn = d.torn
      /\ \A q, L : Linked(d, q, L) <=> Linked(cache', q, L)
  BY TookCache
<1>2. PICK q, L : QueueIs(cache, q, L)
  BY <1>1 DEF RoomInv, Memory
<1>3. /\ Linked(cache, q, L) /\ L \in Nat /\ L <= RQMAX /\ RQMAX \in Nat
      /\ q \in [1..L -> Room] /\ \A i, j \in 1..L : q[i] = q[j] => i = j
      /\ {q[i] : i \in 1..L} = cache.loaded \ cache.out
  BY <1>2 DEF QueueIs, Linked, RoomCacheAssumption
<1>4. AQ = q /\ Len(q) = L
  BY <1>3, ShownIs, ShownQueue, SequenceOf
<1>5. \A x, M : Linked(d, x, M) => AQ' = x
  BY <1>1, ShownIs, ShownQueue
<1>6. PICK y, K : QueueIs(cache', y, K)
  BY DEF RoomInv, Memory
<1>7. AQ' = y
  BY <1>6, ShownIs, ShownQueue DEF QueueIs
<1>8. Abstract!Stay
  <2>1. AB' \subseteq {AQ'[i] : i \in 1..Len(AQ')}
    BY <1>6, <1>7, StayIs
  <2> QED BY <2>1 DEF Abstract!Stay, AB, AQ
<1>9. CASE r \in cache.loaded /\ d = [front_queue(cache, r) EXCEPT !.torn = r \in cache.out]
  <2>1. r \notin cache.out
    BY <1>1, <1>9, TouchOutcome
  <2> HIDE DEF d
  <2>2. PICK k \in 1..L : q[k] = r /\ QueueIs(d, Fronted(q, L, k), L)
    BY <1>1, <1>2, <1>9, <2>1, TouchedSound
  <2>3. AQ' = Fronted(q, L, k)
    BY <1>5, <2>2 DEF QueueIs
  <2>4. AQ' = <<AQ[k]>> \o SubSeq(AQ, 1, k - 1) \o SubSeq(AQ, k + 1, Len(AQ))
        /\ k \in 1..Len(AQ)
    BY <1>3, <1>4, <2>3, TouchedSequence
  <2>5. Abstract!Touch
    BY <2>4 DEF Abstract!Touch, AQ
  <2> QED BY <1>8, <2>5 DEF Abstract!Next, Abstract!Use
<1>10. CASE d = cache
  <2>1. AQ' = AQ
    BY <1>3, <1>4, <1>5, <1>10
  <2>2. Abstract!Walk
    BY <1>8, <2>1 DEF Abstract!Walk, AQ
  <2> QED BY <2>2 DEF Abstract!Next
<1>11. CASE /\ r \notin cache.loaded
            /\ o \in IF Added(r).size > RQMAX THEN Evict(Victim(Added(r)), r)
                                             ELSE {Outcome(Added(r), r, 0, FALSE)}
  <2> DEFINE w == With(q, L, r)
  <2>1. Fetched(r, q, L, d)
    BY <1>1, <1>2, <1>11, FetchOutcome, Zenon
  <2>2. <<r>> \o AQ = w
    BY <1>3, <1>4, AddedSequence
  <2>3. Linked(Added(r), w, L + 1)
    BY <1>2, <1>11, AddedLinked
  <2>4. w \in [1..L+1 -> Room]
    BY <2>3 DEF Linked
  <2>5. Len(w) = L + 1
    <3> DEFINE M == L + 1
    <3>1. M \in Nat /\ w \in [1..M -> Room]
      BY <1>3, <2>4
    <3> HIDE DEF M, w
    <3>2. Len(w) = M
      BY <3>1, SequenceOf
    <3> QED BY <3>2 DEF M
  <2>6. r \notin {AQ[i] : i \in 1..Len(AQ)}
    BY <1>3, <1>4, <1>11
  <2> HIDE DEF d, w
  <2>7. CASE L < RQMAX
    <3>1. Linked(d, w, L + 1)
      BY <1>3, <2>1, <2>7 DEF Fetched, w
    <3>2. AQ' = <<r>> \o AQ /\ Len(<<r>> \o AQ) <= RQMAX
      BY <1>3, <1>5, <2>2, <2>5, <2>7, <3>1
    <3>3. Abstract!Fetch(r)
      BY <2>6, <3>2 DEF Abstract!Fetch, Abstract!Cached, AQ
    <3> QED BY <1>8, <3>3 DEF Abstract!Next, Abstract!Use
  <2>8. CASE L = RQMAX
    <3>1. PICK k \in 2..RQMAX+1 :
                  /\ w[k] \notin Occupied
                  /\ \A i \in k+1..RQMAX+1 : w[i] \in Occupied
                  /\ Linked(d, Dropping(w, k), RQMAX)
      BY <1>3, <2>1, <2>8 DEF Fetched, w
    <3>2. AQ' = Dropping(w, k)
      BY <1>5, <3>1
    <3>3. k \in 1..RQMAX+1 /\ w \in [1..RQMAX+1 -> Room]
      BY <1>3, <2>4, <2>8
    <3>4. Abstract!Dropped(w, k) = Dropping(w, k)
      BY <1>3, <3>3, DroppedSequence
    <3>5. w[k] \notin AB
      BY <3>1 DEF AB
    <3>6. ASSUME NEW i \in k+1..RQMAX+1 PROVE w[i] \in AB
      <4>1. w[i] \in Occupied /\ i \in 2..RQMAX+1
        BY <1>3, <3>1
      <4>2. w[i] = q[i - 1] /\ i - 1 \in 1..L
        BY <1>3, <2>8, <4>1 DEF w, With
      <4>3. w[i] \notin cache.out
        BY <1>3, <4>2
      <4> QED BY <4>1, <4>3 DEF AB
    <3>9. PICK x : x = <<r>> \o AQ
      OBVIOUS
    <3>10. x = w /\ Len(x) = RQMAX + 1
      BY <1>3, <2>2, <2>5, <2>8, <3>9
    <3>11. \A i \in k+1..RQMAX+1 : w[i] \in AB
      BY <3>6
    <3>12. AQ' = Abstract!Dropped(x, k)
      BY <3>2, <3>4, <3>10
    <3>13. RQMAX \in Nat /\ RQMAX + 1 > RQMAX
      BY <1>3, <2>8
    <3>14. Len(x) > RQMAX /\ k \in 1..Len(x)
      BY <3>3, <3>10, <3>13
    <3>15. x[k] \notin AB /\ \A i \in (k+1)..Len(x) : x[i] \in AB
      BY <3>5, <3>10, <3>11
    <3>7. /\ Len(<<r>> \o AQ) > RQMAX
          /\ k \in 1..Len(<<r>> \o AQ)
          /\ (<<r>> \o AQ)[k] \notin AB
          /\ \A i \in (k+1)..Len(<<r>> \o AQ) : (<<r>> \o AQ)[i] \in AB
          /\ AQ' = Abstract!Dropped(<<r>> \o AQ, k)
      BY <3>9, <3>12, <3>14, <3>15
    <3>8. Abstract!Fetch(r)
      BY <2>6, <3>7 DEF Abstract!Fetch, Abstract!Cached, AQ, AB
    <3> QED BY <1>8, <3>8 DEF Abstract!Next, Abstract!Use
  <2> QED BY <1>3, <2>7, <2>8
<1> QED BY <1>9, <1>10, <1>11, LoadCases

\* A step that loads nothing is a walk.
LEMMA WalkRefines ==
    ASSUME RoomCacheAssumption, RoomInv, RoomInv', ~cache'.torn, ~cache.torn,
           cache'.head = cache.head, cache'.tail = cache.tail,
           cache'.size = cache.size, cache'.next = cache.next, cache'.prev = cache.prev
    PROVE  Abstract!Next
<1>1. PICK y, K : QueueIs(cache', y, K)
  BY DEF RoomInv, Memory
<1>2. AQ' = y
  BY <1>1, ShownIs, ShownQueue DEF QueueIs
<1>3. AB' \subseteq {AQ'[i] : i \in 1..Len(AQ')}
  BY <1>1, <1>2, StayIs
<1>4. AQ' = AQ
  BY ShownQueue DEF Shown
<1> QED BY <1>3, <1>4 DEF Abstract!Next, Abstract!Walk, Abstract!Stay, AQ, AB

\* At the start and after a crash there is nothing in the queue.
LEMMA EmptyRefines ==
    ASSUME RoomCacheAssumption, NEW f, cache' = NewCache(f), at' = [p \in Player |-> Nil]
    PROVE  Abstract!Stop
<1>1. cache'.size = 0 /\ Nil \notin Room
  BY DEF NewCache, RoomCacheAssumption
<1>2. AQ' = <<>>
  BY <1>1 DEF AQ
<1>3. AB' = {}
  BY <1>1 DEF AB, Occupied
<1> QED BY <1>2, <1>3 DEF Abstract!Stop, AQ, AB

\* The first state.
LEMMA InitRefines == RoomCacheAssumption /\ RCInit => Abstract!Init
<1> SUFFICES ASSUME RoomCacheAssumption, RCInit PROVE Abstract!Init
  OBVIOUS
<1>1. cache.size = 0 /\ Nil \notin Room
  BY DEF RCInit, NewCache, RoomCacheAssumption
<1>2. AQ = <<>>
  BY <1>1 DEF AQ
<1>3. AB = {}
  BY <1>1 DEF AB, Occupied, RCInit
<1> QED BY <1>2, <1>3 DEF Abstract!Init, AQ, AB

\* Every step until the queue is torn.
LEMMA NextRefines ==
    ASSUME RoomCacheAssumption, RoomInv, RoomInv', RCNext, ~cache'.torn
    PROVE  Abstract!Next
<1>1. ASSUME NEW r \in Room, NEW o \in load_rom(r), Took(o) PROVE Abstract!Next
  BY <1>1, LoadRefines
<1>2. ASSUME NEW p \in Player, NEW r \in Room, Login(p, r) \/ Move(p, r) PROVE Abstract!Next
  BY <1>1, <1>2 DEF Login, Move
<1>3. ASSUME NEW p \in Player, LoginStart(p) PROVE Abstract!Next
  BY <1>1, <1>3 DEF LoginStart, RoomCacheAssumption
<1>4. ASSUME NEW r \in Room, Visit(r) PROVE Abstract!Next
  BY <1>1, <1>4 DEF Visit
<1>5. ASSUME NEW f, cache' = [cache EXCEPT !.file = f] PROVE Abstract!Next
  <2>1. /\ cache'.head = cache.head /\ cache'.tail = cache.tail
        /\ cache'.size = cache.size /\ cache'.next = cache.next /\ cache'.prev = cache.prev
        /\ cache'.torn = cache.torn
    BY <1>5 DEF RoomInv, RCTypeOK, CacheType
  <2> QED BY <2>1, WalkRefines
<1>6. ASSUME cache' = cache PROVE Abstract!Next
  BY <1>6, WalkRefines
<1>7. ASSUME NEW p \in Player, SetHome(p) \/ TeleportHome(p) \/ Quit(p) PROVE Abstract!Next
  BY <1>6, <1>7 DEF SetHome, TeleportHome, Quit
<1>8. ASSUME NEW r \in Room, Change(r) \/ resave_rom(r) \/ reload_rom(r) PROVE Abstract!Next
  <2>1. CASE Change(r)
    <3>1. \E f : cache' = [cache EXCEPT !.file = f]
      BY <2>1, Zenon DEF Change
    <3> QED BY <1>5, <3>1
  <2>2. CASE resave_rom(r)
    <3>1. \E f : cache' = [cache EXCEPT !.file = f]
      BY <2>2, Zenon DEF resave_rom
    <3> QED BY <1>5, <3>1
  <2>3. CASE reload_rom(r)
    <3>1. \E f : cache' = [cache EXCEPT !.file = f]
      BY <2>3, Zenon DEF reload_rom
    <3> QED BY <1>5, <3>1
  <2> QED BY <1>8, <2>1, <2>2, <2>3
<1>9. ASSUME resave_all_rom PROVE Abstract!Next
  <2>1. \E f : cache' = [cache EXCEPT !.file = f]
    BY <1>9, Zenon DEF resave_all_rom
  <2> QED BY <1>5, <2>1
<1>10. ASSUME RCCrash PROVE Abstract!Next
  <2>1. Abstract!Stop
    BY <1>10, EmptyRefines DEF RCCrash
  <2> QED BY <2>1 DEF Abstract!Next
<1> QED BY <1>2, <1>3, <1>4, <1>7, <1>8, <1>9, <1>10 DEF RCNext

-----------------------------------------------------------------------------
(* The theorems.                                                           *)

\* The inductive invariant.
LEMMA AlwaysRoomInv == RCSpec => []RoomInv
<1>1. RCInit => RoomInv
  BY RoomInitSound, RoomCacheAssumption
<1>2. RoomInv /\ [RCNext]_rcvars => RoomInv'
  BY RoomInductive, RoomCacheAssumption
<1> QED BY <1>1, <1>2, PTL DEF RCSpec

\* Until front_queue is called for a tag that is in no queue, the links read
\* from Romhead and from Romtail are one list: a tag for each room in memory
\* whose eviction has not failed, Rsize of them, and never above RQMAX.
THEOREM QueueSoundHolds == RCSpec => []QueueSound
<1>1. RoomInv => QueueSound
  BY QueueSoundFollows, RoomCacheAssumption
<1> QED BY <1>1, AlwaysRoomInv, PTL

\* What was changed in a room that is not in memory any more is on the disk.
THEOREM EvictedSavedHolds == RCSpec => []EvictedSaved
<1>1. RoomInv => EvictedSaved
  BY DEF RoomInv, Memory, EvictedSaved
<1> QED BY <1>1, AlwaysRoomInv, PTL

\* No load and no eviction takes a room away from under the players in it,
\* whatever the disk does.
THEOREM PresentLoadedHolds == RCSpec => PresentLoaded
<1>1. RoomInv /\ [RCNext]_rcvars =>
        [ \A p \in Player :
          /\ at'[p] \in Room => at'[p] \in cache'.loaded
          /\ at'[p] = Freed => at[p] = Freed \/ home[p] = Freed ]_rcvars
  BY RoomInductive, RoomCacheAssumption DEF Stays
<1> QED BY <1>1, AlwaysRoomInv, PTL DEF RCSpec, PresentLoaded

\* load_rom, put_queue, pull_queue and front_queue implement Lru: a room in use
\* goes to the front, and of a queue too long the last room without players
\* is dropped.
THEOREM ImplementsLruHolds == RCSpec => ImplementsLru
<1>1. RCInit => Abstract!Init
  BY InitRefines, RoomCacheAssumption
<1>2. RoomInv /\ RoomInv' /\ [RCNext]_rcvars =>
         [~cache'.torn => Abstract!Next]_<<Abstract!lvars, cache.torn>>
  <2>1. ASSUME RoomInv, RoomInv', RCNext PROVE ~cache'.torn => Abstract!Next
    BY <2>1, NextRefines, RoomCacheAssumption
  <2>2. ASSUME UNCHANGED rcvars PROVE UNCHANGED <<Abstract!lvars, cache.torn>>
    <3>1. cache' = cache /\ at' = at
      BY <2>2 DEF rcvars
    <3>2. AQ' = AQ /\ AB' = AB
      BY <3>1, ShownQueue DEF AB, Occupied
    <3> QED BY <3>1, <3>2 DEF Abstract!lvars, AQ, AB
  <2> QED BY <2>1, <2>2
<1> QED BY <1>1, <1>2, AlwaysRoomInv, PTL DEF RCSpec, ImplementsLru

================================================================================
