------------------------- MODULE RunDirFilesProofs -------------------------
(* Proofs about RunDirFiles, for any number of processes, commands, edits    *)
(* and deaths.                                                               *)
EXTENDS RunDirFiles, TLAPS

\* A program has up to six accesses.
LEMMA ProgramLength ==
  ASSUME NEW c \in Command, NEW program \in Programs(c)
  PROVE  Len(program) \in 1..6
<1>1. CASE c = "extract"
  <2>1. program = <<Put("acls")>> \/ program = <<Put("acls"), Dump("bindings")>>
    BY <1>1 DEF Programs, ExtractPrograms
  <2>2. Len(<<Put("acls")>>) = 1 /\ Len(<<Put("acls"), Dump("bindings")>>) = 2
    OBVIOUS
  <2> QED BY <2>1, <2>2
<1>2. CASE c = "plan"
  BY <1>2 DEF Programs, PlanProgram
<1>3. CASE c = "revalidate"
  BY <1>3 DEF Programs, RevalidateProgram
<1>4. CASE c = "apply"
  BY <1>4 DEF Programs, ApplyProgram
<1>5. CASE c = "status"
  BY <1>5 DEF Programs, StatusProgram
<1> QED BY <1>1, <1>2, <1>3, <1>4, <1>5 DEF Command

\* What the programs have in common.
LEMMA ProgramShape ==
  ASSUME NEW c \in Command, NEW program \in Programs(c), NEW i \in 1..Len(program)
  PROVE  /\ Len(program) \in 1..6
         /\ program[i].do \in {"get", "put", "dump"}
         /\ program[i].do = "get" => program[i].file \in File
         /\ program[i].do = "put" => program[i].file \in Atomic
         /\ program[i].do = "dump" => program[i].file = "bindings" /\ i = Len(program) /\ c = "extract"
         /\ program[i].do = "put" /\ program[i].file = "acls" => c = "extract"
         /\ program[i].do = "put" /\ program[i].file = "plan" =>
              c = "plan" /\ i = 4 /\ program = PlanProgram
         /\ program[i].do = "put" /\ program[i].file = "sum" =>
              /\ c \in {"plan", "revalidate"} /\ i = Len(program) /\ i - 1 \in 1..(i - 1)
              /\ program[i - 1] = Get("plan")
<1> USE DEF Get, Put, Dump, File, Atomic
<1>1. CASE c = "extract"
  <2>1. CASE program = <<Put("acls")>>
    <3>1. Len(program) = 1 /\ program[1] = Put("acls")
      BY <2>1
    <3> QED BY <1>1, <3>1
  <2>2. CASE program = <<Put("acls"), Dump("bindings")>>
    <3>1. Len(program) = 2 /\ program[1] = Put("acls") /\ program[2] = Dump("bindings")
      BY <2>2
    <3> QED BY <1>1, <3>1
  <2> QED BY <1>1, <2>1, <2>2 DEF Programs, ExtractPrograms
<1>2. CASE c = "plan"
  <2>1. program = PlanProgram
    BY <1>2 DEF Programs
  <2>2. /\ Len(program) = 6
        /\ program[1] = Get("acls") /\ program[2] = Get("bindings") /\ program[3] = Get("acls")
        /\ program[4] = Put("plan") /\ program[5] = Get("plan") /\ program[6] = Put("sum")
    BY <2>1 DEF PlanProgram
  <2>3. i \in 1..6
    BY <2>2
  <2> QED BY <1>2, <2>1, <2>2, <2>3
<1>3. CASE c = "revalidate"
  <2>1. program = RevalidateProgram
    BY <1>3 DEF Programs
  <2>2. /\ Len(program) = 3
        /\ program[1] = Get("plan") /\ program[2] = Get("plan") /\ program[3] = Put("sum")
    BY <2>1 DEF RevalidateProgram
  <2> QED BY <1>3, <2>2
<1>4. CASE c = "apply"
  <2>1. program = ApplyProgram
    BY <1>4 DEF Programs
  <2>2. /\ Len(program) = 3
        /\ program[1] = Get("sum") /\ program[2] = Get("plan") /\ program[3] = Get("plan")
    BY <2>1 DEF ApplyProgram
  <2> QED BY <1>4, <2>2
<1>5. CASE c = "status"
  <2>1. program = StatusProgram
    BY <1>5 DEF Programs
  <2>2. /\ Len(program) = 3
        /\ program[1] = Get("plan") /\ program[2] = Get("sum") /\ program[3] = Get("plan")
    BY <2>1 DEF StatusProgram
  <2> QED BY <1>5, <2>2
<1> QED BY <1>1, <1>2, <1>3, <1>4, <1>5 DEF Command

\* Arithmetic of positions in a program: the first,
LEMMA FirstPosition ==
  ASSUME NEW n \in 1..6 PROVE 1 \in 1..n
OBVIOUS

\* and the next.
LEMMA NextPosition ==
  ASSUME NEW n \in 1..6, NEW i \in 1..n, i # n
  PROVE  i + 1 \in 1..n /\ i + 1 \in 1..6 /\ i \in 1..6
OBVIOUS

\* Only p's part of run changes.
Only(p) == DOMAIN run' = Proc /\ \A q \in Proc \ {p} : run'[q] = run[q]

\* Whoever is not involved in a step stays where it is.
LEMMA OthersStay ==
  ASSUME NEW p \in Proc, Only(p), \A q \in Proc : InProgram(q), InProgram(p)'
  PROVE  DOMAIN run' = Proc /\ \A q \in Proc : InProgram(q)'
<1>1. ASSUME NEW q \in Proc, q # p
      PROVE  InProgram(q)'
  <2>1. run'[q] = run[q]
    BY <1>1 DEF Only
  <2> QED BY <2>1 DEF InProgram, Running, Access, Now
<1> QED BY <1>1 DEF Only

\* A command that ends.
LEMMA EndShape ==
  ASSUME NEW p \in Proc, FilesInv, NEW how \in {"failed", "done"},
         run' = [run EXCEPT ![p] = Ended(how)]
  PROVE  /\ Only(p) /\ InProgram(p)'
         /\ run'[p].n = 0 /\ run'[p].at = 1 /\ run'[p].phase = how
<1>1. DOMAIN run = Proc
  BY DEF FilesInv
<1>2. run'[p] = Ended(how)
  BY <1>1
<1> QED BY <1>1, <1>2 DEF Only, InProgram, Running, Ended, Nothing

\* A command that goes on to its next access.
LEMMA AdvanceShape ==
  ASSUME NEW p \in Proc, FilesInv, Running(p), NEW value, Advances(p, value),
         Access(p).do = "get" /\ run[p].cmd # "status" => value \in Usable(Now(p))
  PROVE  /\ Only(p) /\ InProgram(p)'
         /\ run'[p].n \in {0, run[p].n} /\ run'[p].at \in 1..6
         /\ run'[p].phase \in {"done", "begin"}
<1>1. DOMAIN run = Proc /\ InProgram(p)
  BY DEF FilesInv
<1>2. CASE IsLast(p)
  <2>1. run' = [run EXCEPT ![p] = Ended("done")]
    BY <1>2 DEF Advances
  <2>2. Only(p) /\ InProgram(p)' /\ run'[p].n = 0 /\ run'[p].at = 1 /\ run'[p].phase = "done"
    BY <2>1, EndShape
  <2> QED BY <2>2
<1>3. CASE ~IsLast(p)
  <2> DEFINE r == run[p]
  <2>1. run' = [run EXCEPT ![p] = Onward(r, value)]
    BY <1>3 DEF Advances
  <2>2. r.program \in Programs(r.cmd) /\ r.cmd \in Command /\ r.at \in 1..Len(r.program)
    BY <1>1 DEF InProgram
  <2>3. r.at + 1 \in 1..Len(r.program) /\ r.at + 1 \in 1..6 /\ r.at \in 1..6
    <3>1. Len(r.program) \in 1..6
      BY <2>2, ProgramShape
    <3>2. r.at # Len(r.program)
      BY <1>3 DEF IsLast
    <3> QED BY <2>2, <3>1, <3>2, NextPosition
  <2>4. run'[p] = Onward(r, value)
    BY <1>1, <2>1
  <2>5. /\ run'[p].cmd = r.cmd /\ run'[p].n = r.n /\ run'[p].program = r.program
        /\ run'[p].at = r.at + 1 /\ run'[p].phase = "begin"
        /\ run'[p].seen = [r.seen EXCEPT ![r.at] = value]
        /\ DOMAIN run'[p] = DOMAIN r
    BY <1>1, <2>4 DEF InProgram, Onward
  <2>6. Only(p)
    BY <1>1, <2>1 DEF Only
  <2>7. run'[p].phase \in Phases[Access(p).do]'
    <3>1. Access(p)'.do \in {"get", "put", "dump"}
      BY <2>2, <2>3, <2>5, ProgramShape DEF Access
    <3> QED BY <2>5, <3>1 DEF Phases
  <2>8. ASSUME NEW i \in 1..(run'[p].at - 1), run'[p].program[i].do = "get", run'[p].cmd # "status"
        PROVE  run'[p].seen[i] \in Usable(run'[p].program[i].file)
    <3>1. CASE i = r.at
      <4>1. run'[p].seen[i] = value
        BY <1>1, <2>3, <2>5, <3>1 DEF InProgram
      <4> QED BY <2>5, <2>8, <3>1, <4>1 DEF Access, Now
    <3>2. CASE i # r.at
      <4>1. i \in 1..(r.at - 1) /\ i \in 1..6
        BY <2>3, <2>5, <3>2
      <4>2. run'[p].seen[i] = r.seen[i]
        BY <1>1, <2>5, <3>2, <4>1 DEF InProgram
      <4> QED BY <1>1, <2>5, <2>8, <4>1, <4>2 DEF InProgram
    <3> QED BY <3>1, <3>2
  <2>9. InProgram(p)'
    <3>1. DOMAIN run'[p] = {"cmd", "n", "program", "at", "phase", "held", "seen"}
      BY <1>1, <2>5 DEF InProgram
    <3>2. DOMAIN run'[p].seen = 1..6
      BY <1>1, <2>5 DEF InProgram
    <3>3. run'[p].phase # "open"
      BY <2>5
    <3> QED BY <2>2, <2>3, <2>5, <2>7, <2>8, <3>1, <3>2, <3>3 DEF InProgram, Running
  <2> QED BY <2>3, <2>5, <2>6, <2>9
<1> QED BY <1>2, <1>3


\* What a command goes on with after a read is of use to it.
LEMMA ReadUsable ==
  ASSUME NEW p \in Proc, FilesInv, Reads(p), ~Unusable(p, Content(p))
  PROVE  /\ Running(p) /\ Access(p).do = "get" /\ Now(p) \in File
         /\ Content(p) \in Contents(Now(p))
         /\ run[p].cmd # "status" => Content(p) \in Usable(Now(p))
<1>1. Running(p) /\ Access(p).do = "get"
  BY DEF Reads, Doing
<1>2. /\ InProgram(p)
      /\ \A f \in File : dir[f] \in Contents(f)
  BY DEF FilesInv, FilesTyped
<1>3. Now(p) \in File
  BY <1>1, <1>2, ProgramShape DEF InProgram, Access, Now
<1>4. Content(p) \in Contents(Now(p))
  <2>1. CASE platform = "windows" /\ Now(p) \in Atomic
    BY <1>2, <2>1 DEF Reads, Doing, Content, InProgram
  <2>2. CASE ~(platform = "windows" /\ Now(p) \in Atomic)
    BY <1>2, <1>3, <2>2 DEF Content
  <2> QED BY <2>1, <2>2
<1>5. run[p].cmd # "status" => Content(p) \in Usable(Now(p))
  BY <1>4 DEF Unusable, Contents, Usable
<1> QED BY <1>1, <1>3, <1>4, <1>5

\* What WriteAtomic is given is whole.
LEMMA NewWhole ==
  ASSUME NEW p \in Proc, FilesInv, Running(p), Access(p).do = "put"
  PROVE  /\ Now(p) \in Atomic /\ New(p) \in Whole(Now(p))
         /\ Now(p) = "plan" => run[p].cmd = "plan" /\ run[p].at = 4
<1> DEFINE r == run[p]
<1>1. /\ r.cmd \in Command /\ r.program \in Programs(r.cmd) /\ r.at \in 1..Len(r.program)
      /\ \A i \in 1..(r.at - 1) :
           r.program[i].do = "get" /\ r.cmd # "status" => r.seen[i] \in Usable(r.program[i].file)
  BY DEF FilesInv, InProgram
<1>2. Now(p) \in Atomic
  BY <1>1, ProgramShape DEF Access, Now
<1>3. r.n \in Number
  BY DEF FilesInv, TypeOK, Number
<1>4. CASE Now(p) = "plan"
  <2>1. r.cmd = "plan" /\ r.at = 4 /\ r.program = PlanProgram
    BY <1>1, <1>4, ProgramShape DEF Access, Now
  <2>2. /\ r.program[1] = Get("acls") /\ r.program[2] = Get("bindings")
        /\ r.program[3] = Get("acls")
    BY <2>1 DEF PlanProgram
  <2>3. 1 \in 1..(r.at - 1) /\ 2 \in 1..(r.at - 1) /\ 3 \in 1..(r.at - 1)
    BY <2>1
  <2>4. r.seen[1] \in Usable("acls") /\ r.seen[2] \in Usable("bindings") /\ r.seen[3] \in Usable("acls")
    BY <1>1, <2>1, <2>2, <2>3 DEF Get
  <2>5. r.seen[1] \in Number /\ r.seen[2] \in Number \cup {None} /\ r.seen[3] \in Number
    BY <2>4 DEF Usable, Whole
  <2>6. New(p) = [by |-> r.n, acls |-> r.seen[1], inventory |-> r.seen[2], sha |-> r.seen[3],
                  edits |-> 0]
    BY <1>4 DEF New
  <2>7. New(p) \in Plan
    BY <1>3, <2>5, <2>6 DEF Plan
  <2> QED BY <1>2, <1>4, <2>1, <2>7 DEF Whole
<1>5. CASE Now(p) = "sum"
  <2>1. r.cmd \in {"plan", "revalidate"} /\ r.at - 1 \in 1..(r.at - 1) /\ r.program[r.at - 1] = Get("plan")
    BY <1>1, <1>5, ProgramShape DEF Access, Now
  <2>2. r.seen[r.at - 1] \in Usable("plan")
    BY <1>1, <2>1 DEF Get
  <2> QED BY <1>2, <1>5, <2>2 DEF New, Usable, Whole
<1>6. CASE Now(p) = "acls"
  BY <1>2, <1>3, <1>6 DEF New, Whole
<1> QED BY <1>2, <1>4, <1>5, <1>6 DEF Atomic


\* A file that gets content of its type, torn or not.
LEMMA BecomesTyped ==
  ASSUME FilesInv, NEW f \in File, NEW content \in Contents(f), Becomes(f, content, {})
  PROVE  DOMAIN dir' = File /\ FilesTyped'
<1>1. DOMAIN dir = File /\ DOMAIN past = File
  BY DEF FilesInv, TypeOK, FilesTyped
<1>2. \A g \in File : dir'[g] = IF g = f THEN content ELSE dir[g]
  BY <1>1 DEF Becomes
<1>3. \A g \in File : past'[g] = IF g = f THEN past[f] \cup {content} ELSE past[g]
  BY <1>1 DEF Becomes
<1>4. DOMAIN dir' = File /\ DOMAIN past' = File
  BY <1>1 DEF Becomes
<1> QED BY <1>2, <1>3, <1>4 DEF FilesInv, FilesTyped

\* What TypeOK says of the processes.
Places ==
  \A p \in Proc :
    /\ run[p].n \in 0..started /\ run[p].at \in 1..6
    /\ run[p].phase \in {"begin", "open", "written", "synced", "failed", "done"}

\* A step of one process keeps the types if the part of that process keeps them.
LEMMA Local ==
  ASSUME FilesInv, NEW p \in Proc, Only(p), InProgram(p)', started' = started,
         run'[p].n \in {0, run[p].n}, run'[p].at \in 1..6,
         run'[p].phase \in {"begin", "open", "written", "synced", "failed", "done"},
         DOMAIN dir' = File, FilesTyped',
         UNCHANGED <<platform, edits>>, deaths' \in 0..MaxDeaths, litter' \subseteq Number,
         checked' \subseteq Plan, loose' \subseteq Plan, disturbed' \subseteq Number,
         whole' \subseteq Number
  PROVE  FilesInv'
<1>1. DOMAIN run' = Proc /\ \A q \in Proc : InProgram(q)'
  BY OthersStay DEF FilesInv
<1>2. started \in Nat /\ 0 \in 0..started
  BY DEF FilesInv, TypeOK, Number
<1>3. Places'
  <2>1. ASSUME NEW q \in Proc, q # p
        PROVE  run'[q] = run[q]
    BY <2>1 DEF Only
  <2> QED BY <1>2, <2>1 DEF Places, FilesInv, TypeOK
<1>4. \A f \in File : dir'[f] \in Whole(f) \cup {None, Torn}
  BY DEF FilesTyped, Contents
<1>5. TypeOK'
  BY <1>2, <1>3, <1>4 DEF Places, FilesInv, TypeOK
<1> QED BY <1>1, <1>5 DEF FilesInv

\* A process whose command ends.
LEMMA EndStep ==
  ASSUME FilesInv, NEW p \in Proc, EndsEarly(p), started' = started,
         UNCHANGED <<platform, edits, dir, past, history>>,
         deaths' \in 0..MaxDeaths, litter' \subseteq Number
  PROVE  FilesInv'
<1>1. Only(p) /\ InProgram(p)' /\ run'[p].n = 0 /\ run'[p].at = 1 /\ run'[p].phase = "failed"
  BY EndShape DEF EndsEarly
<1>2. DOMAIN dir' = File /\ FilesTyped'
  BY DEF FilesInv, TypeOK, FilesTyped
<1>3. checked' \subseteq Plan /\ loose' \subseteq Plan /\ disturbed' \subseteq Number /\ whole' \subseteq Number
  BY DEF FilesInv, TypeOK, history
<1> QED BY <1>1, <1>2, <1>3, Local

\* A process that gets to another phase of its access.
ToPhase(p, phase, held) ==
  /\ Only(p)
  /\ DOMAIN run'[p] = DOMAIN run[p]
  /\ run'[p].cmd = run[p].cmd /\ run'[p].n = run[p].n /\ run'[p].program = run[p].program
  /\ run'[p].at = run[p].at /\ run'[p].seen = run[p].seen
  /\ run'[p].phase = phase /\ run'[p].held = held

\* It is still in its program.
LEMMA PhaseShape ==
  ASSUME FilesInv, NEW p \in Proc, Running(p), NEW phase \in Phases[Access(p).do],
         NEW held, phase = "open" => held \in Contents(Now(p)), ToPhase(p, phase, held)
  PROVE  /\ InProgram(p)' /\ run'[p].at \in 1..6
         /\ run'[p].phase \in {"begin", "open", "written", "synced", "failed", "done"}
<1> USE DEF ToPhase
<1>1. InProgram(p)
  BY DEF FilesInv
<1>2. InProgram(p)'
  BY <1>1 DEF InProgram, Running, Access, Now
<1>3. run[p].at \in 1..6
  BY DEF FilesInv, TypeOK
<1>4. Access(p).do \in {"get", "put", "dump"}
  BY <1>1, ProgramShape DEF InProgram, Access
<1>5. phase \in {"begin", "open", "written", "synced", "failed", "done"}
  BY <1>4 DEF Phases
<1> QED BY <1>2, <1>3, <1>5

\* A step that only sets the phase is such a step.
LEMMA PhaseStep ==
  ASSUME FilesInv, NEW p \in Proc, NEW phase, run' = [run EXCEPT ![p].phase = phase]
  PROVE  ToPhase(p, phase, run[p].held)
<1>1. DOMAIN run = Proc /\ InProgram(p)
  BY DEF FilesInv
<1>2. run'[p] = [run[p] EXCEPT !.phase = phase]
  BY <1>1
<1> QED BY <1>1, <1>2 DEF ToPhase, Only, InProgram

\* One access to one file.
LEMMA AccessType ==
  ASSUME FilesAssumption, FilesInv, NEW p \in Proc, Step(p)
  PROVE  FilesInv'
<1> USE DEF Untouched, counts, history
<1>a. /\ FilesTyped /\ DOMAIN dir = File /\ DOMAIN run = Proc /\ InProgram(p)
      /\ deaths \in 0..MaxDeaths /\ litter \subseteq Number /\ checked \subseteq Plan
      /\ loose \subseteq Plan /\ disturbed \subseteq Number /\ whole \subseteq Number
  BY DEF FilesInv, TypeOK
<1>b. UNCHANGED <<dir, past>> => DOMAIN dir' = File /\ FilesTyped'
  BY <1>a DEF FilesTyped
<1>c. \A q \in Proc : run[q].n \in Number
  BY DEF FilesInv, TypeOK, Number
<1>d. \A f \in File : Noticed(f, Proc \ {p}) \subseteq Number
  BY <1>a, <1>c DEF Noticed
<1>1. CASE Start(p)
  <2>0. PICK c \in Command : \E program \in Programs(c) :
          run' = [run EXCEPT ![p] = [cmd |-> c, n |-> started + 1, program |-> program, at |-> 1,
                                     phase |-> "begin", held |-> None, seen |-> Nothing]]
    BY <1>1 DEF Start
  <2>1. PICK program \in Programs(c) :
          run' = [run EXCEPT ![p] = [cmd |-> c, n |-> started + 1, program |-> program, at |-> 1,
                                     phase |-> "begin", held |-> None, seen |-> Nothing]]
    BY <2>0
  <2> DEFINE r == [cmd |-> c, n |-> started + 1, program |-> program, at |-> 1,
                   phase |-> "begin", held |-> None, seen |-> Nothing]
  <2>2. Only(p) /\ run'[p] = r
    BY <1>a, <2>1 DEF Only
  <2>3. Len(program) \in 1..6 /\ 1 \in 1..Len(program) /\ program[1].do \in {"get", "put", "dump"}
    <3>1. Len(program) \in 1..6
      BY ProgramLength
    <3>2. 1 \in 1..Len(program)
      BY <3>1, FirstPosition
    <3> QED BY <3>1, <3>2, ProgramShape
  <2>4. InProgram(p)'
    BY <2>2, <2>3 DEF InProgram, Running, Access, Now, Phases, Nothing
  <2>5. DOMAIN run' = Proc /\ \A q \in Proc : InProgram(q)'
    BY <2>2, <2>4, OthersStay DEF FilesInv
  <2>6. started \in Nat /\ started' = started + 1
    BY <1>1 DEF Start, FilesInv, TypeOK, Number
  <2>7. Places'
    <3>1. ASSUME NEW q \in Proc, q # p
          PROVE  /\ run'[q].n \in 0..started' /\ run'[q].at \in 1..6
                 /\ run'[q].phase \in {"begin", "open", "written", "synced", "failed", "done"}
      <4>1. run'[q] = run[q]
        BY <2>2, <3>1 DEF Only
      <4>2. /\ run[q].n \in 0..started /\ run[q].at \in 1..6
            /\ run[q].phase \in {"begin", "open", "written", "synced", "failed", "done"}
        BY DEF FilesInv, TypeOK
      <4> QED BY <2>6, <4>1, <4>2
    <3>2. /\ run'[p].n \in 0..started' /\ run'[p].at \in 1..6
          /\ run'[p].phase \in {"begin", "open", "written", "synced", "failed", "done"}
      BY <2>2, <2>6
    <3> QED BY <3>1, <3>2 DEF Places
  <2>8. disturbed' \subseteq Number
    <3>1. disturbed' \subseteq disturbed \cup {started + 1}
      BY <1>1 DEF Start
    <3> QED BY <1>a, <2>6, <3>1 DEF Number
  <2>9. TypeOK'
    BY <1>1, <1>a, <2>6, <2>7, <2>8 DEF Start, Places, FilesInv, TypeOK, Number
  <2> QED BY <1>1, <1>b, <2>5, <2>9 DEF Start, FilesInv
<1>2. CASE Open(p)
  <2>1. /\ Running(p) /\ Access(p).do = "get" /\ Now(p) \in File
        /\ run' = [run EXCEPT ![p].phase = "open", ![p].held = dir[Now(p)]]
    BY <1>2, <1>a, ProgramShape DEF Open, Doing, InProgram, Access, Now
  <2>2. run'[p] = [run[p] EXCEPT !.phase = "open", !.held = dir[Now(p)]]
    BY <1>a, <2>1
  <2>3. ToPhase(p, "open", dir[Now(p)])
    BY <1>a, <2>1, <2>2 DEF ToPhase, Only, InProgram
  <2>4. dir[Now(p)] \in Contents(Now(p)) /\ "open" \in Phases[Access(p).do]
    BY <1>a, <2>1 DEF FilesTyped, Phases
  <2>5. /\ InProgram(p)' /\ run'[p].at \in 1..6
        /\ run'[p].phase \in {"begin", "open", "written", "synced", "failed", "done"}
    BY <2>1, <2>3, <2>4, PhaseShape
  <2> QED BY <1>2, <1>a, <1>b, <2>3, <2>5, Local DEF Open, ToPhase
<1>3. CASE Read(p)
  <2>1. /\ Running(p) /\ Access(p).do = "get" /\ Now(p) \in File
        /\ run[p].cmd # "status" => Content(p) \in Usable(Now(p))
    BY <1>3, ReadUsable DEF Read
  <2>2. /\ Only(p) /\ InProgram(p)' /\ run'[p].n \in {0, run[p].n} /\ run'[p].at \in 1..6
        /\ run'[p].phase \in {"done", "begin"}
    BY <1>3, <2>1, AdvanceShape DEF Read
  <2>3. run[p].cmd = "revalidate" /\ run[p].at = 1 => Content(p) \in Plan
    <3>1. ASSUME run[p].cmd = "revalidate", run[p].at = 1
          PROVE  Now(p) = "plan"
      BY <1>a, <2>1, <3>1 DEF InProgram, Programs, RevalidateProgram, Access, Now, Get
    <3> QED BY <2>1, <3>1 DEF Usable, Whole
  <2>4. checked' \subseteq Plan
    BY <1>3, <1>a, <2>3 DEF Read
  <2> QED BY <1>3, <1>a, <1>b, <2>2, <2>4, Local DEF Read
<1>4. CASE ReadFails(p)
  BY <1>4, <1>a, EndStep DEF ReadFails
<1>5. CASE WriteTemp(p)
  <2>1. /\ Running(p) /\ Access(p).do = "put" /\ run' = [run EXCEPT ![p].phase = "synced"]
        /\ UNCHANGED <<platform, dir, past, litter, counts, history>>
    BY <1>5 DEF WriteTemp, Doing, Reaches
  <2>2. ToPhase(p, "synced", run[p].held) /\ "synced" \in Phases[Access(p).do] /\ "synced" # "open"
    <3>1. ToPhase(p, "synced", run[p].held)
      BY <2>1, PhaseStep
    <3> QED BY <2>1, <3>1 DEF Phases
  <2>3. /\ InProgram(p)' /\ run'[p].at \in 1..6
        /\ run'[p].phase \in {"begin", "open", "written", "synced", "failed", "done"}
    BY <2>1, <2>2, PhaseShape
  <2> QED BY <1>a, <1>b, <2>1, <2>2, <2>3, Local DEF ToPhase
<1>6. CASE Rename(p)
  <2>1. /\ Running(p) /\ Access(p).do = "put" /\ run[p].phase = "synced"
    BY <1>6, <1>a DEF Rename, Doing, InProgram, Phases
  <2>2. /\ Now(p) \in Atomic /\ New(p) \in Whole(Now(p))
    BY <2>1, NewWhole
  <2>3. Becomes(Now(p), New(p), {}) /\ Advances(p, None)
    BY <1>6, <2>1 DEF Rename, Land
  <2>4. /\ Only(p) /\ InProgram(p)' /\ run'[p].n \in {0, run[p].n} /\ run'[p].at \in 1..6
        /\ run'[p].phase \in {"done", "begin"}
    BY <2>1, <2>3, AdvanceShape
  <2>5. DOMAIN dir' = File /\ FilesTyped'
    <3>1. Now(p) \in File /\ New(p) \in Contents(Now(p))
      BY <2>2 DEF File, Contents
    <3> QED BY <2>3, <3>1, BecomesTyped
  <2>6. checked' \subseteq Plan /\ loose' \subseteq Plan
    BY <1>6, <1>a, <2>2 DEF Rename, Land, Whole
  <2>7. disturbed' \subseteq Number
    BY <1>6, <1>d, <2>2 DEF Rename, Land, File
  <2> QED BY <1>6, <1>a, <2>4, <2>5, <2>6, <2>7, Local DEF Rename, Land
<1>7. CASE RemoveFirst(p)
  <2>1. /\ Running(p) /\ Access(p).do = "put" /\ Becomes(Now(p), None, {})
        /\ UNCHANGED <<platform, litter, run, counts, checked, loose, whole>>
        /\ disturbed' = Noticed(Now(p), Proc \ {p})
    BY <1>7 DEF RemoveFirst, Doing
  <2>2. Now(p) \in Atomic
    BY <2>1, NewWhole
  <2>3. DOMAIN dir' = File /\ FilesTyped'
    <3>1. Now(p) \in File /\ None \in Contents(Now(p))
      BY <2>2 DEF File, Contents
    <3> QED BY <2>1, <3>1, BecomesTyped
  <2>4. disturbed' \subseteq Number
    BY <1>d, <2>1, <2>2 DEF File
  <2>5. /\ Only(p) /\ InProgram(p)' /\ run'[p].n = run[p].n /\ run'[p].at \in 1..6
        /\ run'[p].phase \in {"begin", "open", "written", "synced", "failed", "done"}
    BY <1>a, <2>1 DEF Only, InProgram, Running, Access, Now, FilesInv, TypeOK
  <2> QED BY <1>a, <2>1, <2>3, <2>4, <2>5, Local
<1>8. CASE Truncate(p)
  <2>1. /\ Running(p) /\ Access(p).do = "dump" /\ Becomes(Now(p), Torn, {})
        /\ run' = [run EXCEPT ![p].phase = "written"] /\ disturbed' = Noticed(Now(p), Proc \ {p})
        /\ whole' \in {{}, whole}
        /\ UNCHANGED <<platform, litter, counts, checked, loose>>
    BY <1>8 DEF Truncate, Doing
  <2>2. Now(p) = "bindings"
    BY <1>a, <2>1, ProgramShape DEF InProgram, Access, Now
  <2>3. DOMAIN dir' = File /\ FilesTyped'
    <3>1. Now(p) \in File /\ Torn \in Contents(Now(p))
      BY <2>2 DEF File, Contents
    <3> QED BY <2>1, <3>1, BecomesTyped
  <2>4. ToPhase(p, "written", run[p].held) /\ "written" \in Phases[Access(p).do] /\ "written" # "open"
    <3>1. ToPhase(p, "written", run[p].held)
      BY <2>1, PhaseStep
    <3> QED BY <2>1, <3>1 DEF Phases
  <2>5. /\ InProgram(p)' /\ run'[p].at \in 1..6
        /\ run'[p].phase \in {"begin", "open", "written", "synced", "failed", "done"}
    BY <2>1, <2>4, PhaseShape
  <2>6. disturbed' \subseteq Number /\ whole' \subseteq Number
    BY <1>a, <1>d, <2>1, <2>2 DEF File
  <2> QED BY <1>a, <2>1, <2>3, <2>4, <2>5, <2>6, Local DEF ToPhase
<1>9. CASE Fill(p)
  <2>1. /\ Running(p) /\ Access(p).do = "dump" /\ Becomes(Now(p), run[p].n, {})
        /\ Advances(p, None) /\ disturbed' = Noticed(Now(p), Proc \ {p})
        /\ whole' \in {{}, {run[p].n}, whole}
        /\ UNCHANGED <<platform, litter, counts, checked, loose>>
    BY <1>9 DEF Fill, Doing
  <2>2. Now(p) = "bindings"
    BY <1>a, <2>1, ProgramShape DEF InProgram, Access, Now
  <2>3. DOMAIN dir' = File /\ FilesTyped'
    <3>1. Now(p) \in File /\ run[p].n \in Contents(Now(p))
      BY <1>c, <2>2 DEF File, Contents, Whole
    <3> QED BY <2>1, <3>1, BecomesTyped
  <2>4. /\ Only(p) /\ InProgram(p)' /\ run'[p].n \in {0, run[p].n} /\ run'[p].at \in 1..6
        /\ run'[p].phase \in {"done", "begin"}
    BY <2>1, AdvanceShape
  <2>5. disturbed' \subseteq Number /\ whole' \subseteq Number
    BY <1>a, <1>c, <1>d, <2>1, <2>2 DEF File
  <2> QED BY <1>a, <2>1, <2>3, <2>4, <2>5, Local
<1>10. CASE Fails(p)
  BY <1>10, <1>a, EndStep DEF Fails
<1> QED BY <1>1, <1>2, <1>3, <1>4, <1>5, <1>6, <1>7, <1>8, <1>9, <1>10 DEF Step

\* Whatever happens keeps the types.
LEMMA FilesStep ==
  ASSUME FilesAssumption, FilesInv, [Next]_vars
  PROVE  FilesInv'
<1>a. /\ FilesTyped /\ DOMAIN dir = File /\ DOMAIN run = Proc
      /\ deaths \in 0..MaxDeaths /\ MaxDeaths \in Nat /\ MaxEdits \in Nat /\ edits \in 0..MaxEdits
      /\ litter \subseteq Number /\ disturbed \subseteq Number
  BY DEF FilesInv, TypeOK, FilesAssumption
<1>b. \A q \in Proc : run[q].n \in Number
  BY DEF FilesInv, TypeOK, Number
<1>1. ASSUME NEW p \in Proc, Kill(p)
      PROVE  FilesInv'
  <2>1. deaths' \in 0..MaxDeaths
    BY <1>1, <1>a DEF Kill
  <2>2. litter' \subseteq Number
    BY <1>1, <1>a, <1>b DEF Kill
  <2>3. /\ EndsEarly(p) /\ started' = started
        /\ UNCHANGED <<platform, edits, dir, past, history>>
    BY <1>1 DEF Kill
  <2> QED BY <2>1, <2>2, <2>3, EndStep
<1>2. CASE PowerLoss
  <2>1. PICK a \in past["acls"], b \in past["bindings"], c \in past["plan"], s \in past["sum"] :
          dir' = [acls |-> a, bindings |-> b, plan |-> c, sum |-> s]
    BY <1>2 DEF PowerLoss
  <2>2. DOMAIN dir' = File /\ \A f \in File : dir'[f] \in Contents(f)
    BY <1>a, <2>1 DEF FilesTyped, File, Atomic
  <2>3. FilesTyped'
    BY <1>2, <2>2 DEF PowerLoss, FilesTyped
  <2>4. DOMAIN run' = Proc /\ \A p \in Proc : run'[p] = Ended("failed")
    BY <1>2 DEF PowerLoss
  <2>5. \A p \in Proc : InProgram(p)'
    BY <2>4 DEF InProgram, Running, Ended, Nothing
  <2>6. deaths' \in 0..MaxDeaths /\ litter' \subseteq Number
    <3>1. deaths' \in 0..MaxDeaths
      BY <1>2, <1>a DEF PowerLoss
    <3>2. litter' \subseteq Number
      BY <1>2, <1>a, <1>b DEF PowerLoss
    <3> QED BY <3>1, <3>2
  <2>7. started \in Nat /\ 0 \in 0..started
    BY DEF FilesInv, TypeOK, Number
  <2>8. Places'
    <3>1. \A p \in Proc : run'[p].n = 0 /\ run'[p].at = 1 /\ run'[p].phase = "failed"
      BY <2>4 DEF Ended
    <3>2. started' = started
      BY <1>2 DEF PowerLoss
    <3> QED BY <2>7, <3>1, <3>2 DEF Places
  <2>9. TypeOK'
    <3>1. \A f \in File : dir'[f] \in Whole(f) \cup {None, Torn}
      BY <2>2 DEF Contents
    <3>2. UNCHANGED <<platform, started, edits, checked, loose, disturbed>> /\ whole' = {}
      BY <1>2 DEF PowerLoss
    <3> QED BY <2>2, <2>6, <2>8, <3>1, <3>2 DEF Places, FilesInv, TypeOK
  <2> QED BY <2>3, <2>4, <2>5, <2>9 DEF FilesInv
<1>3. CASE Edit
  <2> DEFINE edited == [dir["plan"] EXCEPT !.edits = edits + 1]
  <2>1. edits' \in 0..MaxEdits /\ edits + 1 \in Nat
    BY <1>3, <1>a DEF Edit
  <2>2. Becomes("plan", edited, {}) /\ dir["plan"] \in Plan
    BY <1>3 DEF Edit
  <2>3. edited \in Plan
    BY <2>1, <2>2 DEF Plan
  <2>4. DOMAIN dir' = File /\ FilesTyped'
    <3>1. "plan" \in File /\ edited \in Contents("plan")
      BY <2>3 DEF File, Atomic, Contents, Whole
    <3> QED BY <2>2, <3>1, BecomesTyped
  <2>5. UNCHANGED <<platform, litter, run, started, deaths, checked, loose, whole>>
    BY <1>3 DEF Edit
  <2>6. \A p \in Proc : InProgram(p)'
    BY <2>5 DEF FilesInv, InProgram, Running, Access, Now
  <2>7. disturbed' \subseteq Number
    BY <1>3, <1>a, <1>b DEF Edit, Noticed
  <2>8. TypeOK'
    <3>1. \A f \in File : dir'[f] \in Whole(f) \cup {None, Torn}
      BY <2>4 DEF FilesTyped, Contents
    <3> QED BY <2>1, <2>4, <2>5, <2>7, <3>1 DEF FilesInv, TypeOK
  <2> QED BY <1>a, <2>4, <2>5, <2>6, <2>8 DEF FilesInv
<1>4. CASE UNCHANGED vars
  BY <1>4 DEF vars, counts, history, FilesInv, TypeOK, FilesTyped, InProgram, Running, Access, Now
<1> QED BY <1>1, <1>2, <1>3, <1>4, AccessType DEF Next

\* At the start everything has its type.
LEMMA FilesStart ==
  ASSUME FilesAssumption, Init PROVE FilesInv
<1>1. /\ DOMAIN dir = File
      /\ \A f \in File : dir[f] = None \/ (dir[f] \in Whole(f) /\ dir["plan"] \in Plan)
      /\ dir["plan"] \in Plan \cup {None} /\ dir["bindings"] \in {0, None}
  <2>1. CASE dir = [f \in File |-> None]
    BY <2>1 DEF File, Atomic
  <2>2. CASE LET plan == [by |-> 0, acls |-> 0, sha |-> 0, inventory |-> 0, edits |-> 0]
             IN  dir = [f \in File |-> IF f \in {"acls", "bindings"} THEN 0 ELSE plan]
    <3> DEFINE plan == [by |-> 0, acls |-> 0, sha |-> 0, inventory |-> 0, edits |-> 0]
    <3>1. plan \in Plan
      BY DEF Plan, Number
    <3> HIDE DEF plan
    <3>2. dir = [f \in File |-> IF f \in {"acls", "bindings"} THEN 0 ELSE plan]
      BY <2>2 DEF plan
    <3> QED BY <3>1, <3>2 DEF File, Atomic, Whole, Number
  <2> QED BY <2>1, <2>2 DEF Init
<1>2. \A f \in File : dir[f] \in Contents(f) /\ dir[f] \in Whole(f) \cup {None, Torn}
  BY <1>1 DEF Contents
<1>3. FilesTyped
  BY <1>2 DEF Init, FilesTyped
<1>4. DOMAIN run = Proc /\ \A p \in Proc : run[p] = Ended("failed")
  BY DEF Init
<1>5. \A p \in Proc : InProgram(p)
  BY <1>4 DEF InProgram, Running, Ended, Nothing
<1>6. Places
  BY <1>4 DEF Init, Places, Ended
<1>7. checked \subseteq Plan /\ whole \subseteq Number
  BY <1>1 DEF Init, Number
<1>8. TypeOK
  BY <1>1, <1>2, <1>6, <1>7 DEF Init, TypeOK, Places, FilesAssumption, Number
<1> QED BY <1>3, <1>4, <1>5, <1>8 DEF FilesInv

\* The files always have their types, and a torn one among them is never acls.json,
\* plan.json or its checksum.
THEOREM TypeCorrect ==
  ASSUME FilesAssumption PROVE Spec => []TypeOK
<1>1. Init => FilesInv
  BY FilesStart
<1>2. FilesInv /\ [Next]_vars => FilesInv'
  BY FilesStep
<1>3. FilesInv => TypeOK
  BY DEF FilesInv
<1> QED BY <1>1, <1>2, <1>3, PTL DEF Spec
-----------------------------------------------------------------------------
(* WriteAtomic keeps its promise. *)

\* What the promise sees: the files WriteAtomic writes,
Files  == [f \in Atomic |-> dir[f]]
\* and what they have been.
Traces == [f \in Atomic |-> past[f]]

\* A write by WriteAtomic is a step of the promise.
LEMMA Replaced ==
  ASSUME FilesInv, NEW f \in Atomic, NEW content, Becomes(f, content, {}),
         UNCHANGED <<platform, litter, deaths>>
  PROVE  /\ content \in Whole(f) => Promise!Replace
         /\ content = None /\ platform = "windows" => Promise!Vanish
<1>1. DOMAIN dir = File /\ DOMAIN past = File
  BY DEF FilesInv, TypeOK, FilesTyped
<1>2. Files' = [Files EXCEPT ![f] = content]
  BY <1>1 DEF Files, Becomes, File
<1>3. Traces' = [Traces EXCEPT ![f] = @ \cup {content}]
  BY <1>1 DEF Traces, Becomes, File
<1>4. Promise!Becomes(f, content) /\ Files'[f] = content
  BY <1>2, <1>3 DEF Promise!Becomes, Files, Traces
<1>5. content \in Whole(f) => Promise!Replace
  BY <1>4 DEF Promise!Replace, Promise!Becomes, Files
<1>6. content = None /\ platform = "windows" => Promise!Vanish
  BY <1>4 DEF Promise!Vanish, Promise!Becomes
<1> QED BY <1>5, <1>6

\* A write by os.WriteFile is none of the promise's.
LEMMA Elsewhere ==
  ASSUME FilesInv, NEW content, Becomes("bindings", content, {})
  PROVE  Files' = Files /\ Traces' = Traces
<1>1. DOMAIN dir = File /\ DOMAIN past = File
  BY DEF FilesInv, TypeOK, FilesTyped
<1> QED BY <1>1 DEF Files, Traces, Becomes, File, Atomic

\* Every step is one of the promise, or changes nothing that it is about.
LEMMA StepKeepsPromise ==
  ASSUME FilesAssumption, FilesInv, [Next]_vars
  PROVE  [Promise!AtomicNext]_(Promise!atomicVars)
<1> USE DEF Untouched, counts
<1>a. UNCHANGED <<platform, dir, past, litter, deaths>> => UNCHANGED Promise!atomicVars
  BY DEF Promise!atomicVars
<1>1. ASSUME NEW p \in Proc, Step(p)
      PROVE  [Promise!AtomicNext]_(Promise!atomicVars)
  <2>a. InProgram(p)
    BY DEF FilesInv
  <2>1. CASE Start(p)
    BY <1>a, <2>1 DEF Start
  <2>2. CASE Open(p)
    BY <1>a, <2>2 DEF Open
  <2>3. CASE Read(p)
    BY <1>a, <2>3 DEF Read
  <2>4. CASE ReadFails(p)
    BY <1>a, <2>4 DEF ReadFails
  <2>5. CASE WriteTemp(p)
    BY <1>a, <2>5 DEF WriteTemp, Reaches
  <2>6. CASE Rename(p)
    <3>1. /\ Running(p) /\ Access(p).do = "put" /\ run[p].phase = "synced"
      BY <2>a, <2>6 DEF Rename, Doing, InProgram, Phases
    <3>2. Now(p) \in Atomic /\ New(p) \in Whole(Now(p))
      BY <3>1, NewWhole
    <3>3. Becomes(Now(p), New(p), {}) /\ UNCHANGED <<platform, litter, deaths>>
      BY <2>6, <3>1 DEF Rename, Land
    <3>4. Promise!Replace
      BY <3>2, <3>3, Replaced
    <3> QED BY <3>4 DEF Promise!AtomicNext
  <2>7. CASE RemoveFirst(p)
    <3>1. Running(p) /\ Access(p).do = "put" /\ platform = "windows"
      BY <2>7 DEF RemoveFirst, Doing
    <3>2. Now(p) \in Atomic
      BY <3>1, NewWhole
    <3>3. Becomes(Now(p), None, {}) /\ UNCHANGED <<platform, litter, deaths>>
      BY <2>7 DEF RemoveFirst
    <3>4. Promise!Vanish
      BY <3>1, <3>2, <3>3, Replaced
    <3> QED BY <3>4 DEF Promise!AtomicNext
  <2>8. CASE Truncate(p) \/ Fill(p)
    <3>1. Now(p) = "bindings"
      BY <2>a, <2>8, ProgramShape DEF Truncate, Fill, Doing, InProgram, Access, Now
    <3>2. Files' = Files /\ Traces' = Traces
      BY <2>8, <3>1, Elsewhere DEF Truncate, Fill
    <3>3. UNCHANGED <<platform, litter, deaths>>
      BY <2>8 DEF Truncate, Fill
    <3> QED BY <3>2, <3>3 DEF Promise!atomicVars, Files, Traces
  <2>9. CASE Fails(p)
    BY <1>a, <2>9 DEF Fails
  <2> QED BY <1>1, <2>1, <2>2, <2>3, <2>4, <2>5, <2>6, <2>7, <2>8, <2>9 DEF Step
<1>2. ASSUME NEW p \in Proc, Kill(p)
      PROVE  [Promise!AtomicNext]_(Promise!atomicVars)
  <2>1. Promise!Kill
    BY <1>2 DEF Kill, Promise!Kill, Promise!Dies
  <2> QED BY <2>1 DEF Promise!AtomicNext
<1>3. CASE PowerLoss
  <2>1. \A f \in Atomic : dir'[f] \in past[f]
    BY <1>3 DEF PowerLoss, Atomic
  <2>2. Traces' = [f \in Atomic |-> {dir'[f]}]
    BY <1>3 DEF PowerLoss, Traces, File
  <2>3. Promise!Dies /\ platform' = platform
    BY <1>3 DEF PowerLoss, Promise!Dies
  <2>4. Promise!PowerLoss
    BY <2>1, <2>2, <2>3 DEF Promise!PowerLoss, Traces
  <2> QED BY <2>4 DEF Promise!AtomicNext
<1>4. CASE Edit
  <2> DEFINE edited == [dir["plan"] EXCEPT !.edits = edits + 1]
  <2>1. Becomes("plan", edited, {}) /\ dir["plan"] \in Plan /\ UNCHANGED <<platform, litter, deaths>>
    BY <1>4 DEF Edit
  <2>2. edited \in Whole("plan") /\ "plan" \in Atomic
    BY <2>1 DEF Whole, Plan, FilesInv, TypeOK, Atomic
  <2>3. Promise!Replace
    BY <2>1, <2>2, Replaced
  <2> QED BY <2>3 DEF Promise!AtomicNext
<1>5. CASE UNCHANGED vars
  BY <1>a, <1>5 DEF vars
<1> QED BY <1>1, <1>2, <1>3, <1>4, <1>5 DEF Next

\* WriteAtomic's steps implement what it promises: acls.json, plan.json and its checksum
\* are whole at any time, whatever is killed, fails, overlaps or loses power.
THEOREM AtomicSpecHolds ==
  ASSUME FilesAssumption PROVE Spec => AtomicSpec
<1>1. Init => FilesInv
  BY FilesStart
<1>2. FilesInv /\ [Next]_vars => FilesInv'
  BY FilesStep
<1>3. Init => Promise!AtomicInit
  <2>1. ASSUME Init
        PROVE  \A f \in Atomic : dir[f] \in Whole(f) \cup {None}
    BY <1>1, <2>1 DEF FilesInv, FilesTyped, Contents, File, Atomic
  <2> QED BY <2>1 DEF Init, Promise!AtomicInit, File
<1>4. FilesInv /\ [Next]_vars => [Promise!AtomicNext]_(Promise!atomicVars)
  BY StepKeepsPromise
<1> QED BY <1>1, <1>2, <1>3, <1>4, PTL DEF Spec, AtomicSpec, Promise!AtomicSpec

-----------------------------------------------------------------------------
(* What is stamped has been checked. *)

\* A command reads what it rests on, and writes nothing it has read before.
LEMMA ReadsThenWrites ==
  ASSUME NEW c \in Command, NEW program \in Programs(c), NEW i \in 1..Len(program)
  PROVE  /\ program[i].do = "get" => program[i].file \in Concerns(c) /\ c # "extract"
         /\ program[i].do = "put" =>
              \A j \in 1..(i - 1) : program[j].do = "get" => program[j].file # program[i].file
         /\ program[i].do = "put" /\ program[i].file = "sum" => i > 1 /\ (c = "plan" => i > 4)
         /\ program[i].do = "put" /\ program[i].file = "acls" => i = 1
         /\ program[i].do = "dump" => i > 1
         /\ c = "plan" => (program[i].do = "get" <=> i \in {1, 2, 3, 5})
         /\ c = "revalidate" /\ program[i].do = "get" => program[i] = Get("plan") /\ i \in {1, 2}
         /\ c = "apply" => program = ApplyProgram /\ Len(program) = 3 /\ program[i].do = "get"
         /\ c = "status" => program = StatusProgram /\ Len(program) = 3 /\ program[i].do = "get"
<1> USE DEF Get, Put, Dump, File, Atomic, Concerns
<1>1. CASE c = "extract"
  <2>1. CASE program = <<Put("acls")>>
    <3>1. Len(program) = 1 /\ program[1] = Put("acls")
      BY <2>1
    <3> QED BY <1>1, <3>1
  <2>2. CASE program = <<Put("acls"), Dump("bindings")>>
    <3>1. Len(program) = 2 /\ program[1] = Put("acls") /\ program[2] = Dump("bindings")
      BY <2>2
    <3> QED BY <1>1, <3>1
  <2> QED BY <1>1, <2>1, <2>2 DEF Programs, ExtractPrograms
<1>2. CASE c = "plan"
  <2>1. program = PlanProgram
    BY <1>2 DEF Programs
  <2>2. /\ Len(program) = 6
        /\ program[1] = Get("acls") /\ program[2] = Get("bindings") /\ program[3] = Get("acls")
        /\ program[4] = Put("plan") /\ program[5] = Get("plan") /\ program[6] = Put("sum")
    BY <2>1 DEF PlanProgram
  <2>3. i \in 1..6
    BY <2>2
  <2>4. CASE i \in {1, 2, 3, 5}
    BY <1>2, <2>2, <2>4
  <2>5. CASE i = 4
    <3>1. \A j \in 1..(i - 1) : j \in {1, 2, 3}
      BY <2>5
    <3> QED BY <1>2, <2>2, <2>5, <3>1
  <2>6. CASE i = 6
    <3>1. \A j \in 1..(i - 1) : j \in {1, 2, 3, 4, 5}
      BY <2>6
    <3> QED BY <1>2, <2>2, <2>6, <3>1
  <2> QED BY <2>3, <2>4, <2>5, <2>6
<1>3. CASE c = "revalidate"
  <2>1. program = RevalidateProgram
    BY <1>3 DEF Programs
  <2>2. /\ Len(program) = 3
        /\ program[1] = Get("plan") /\ program[2] = Get("plan") /\ program[3] = Put("sum")
    BY <2>1 DEF RevalidateProgram
  <2>3. i \in 1..3 /\ (i = 3 => \A j \in 1..(i - 1) : j \in {1, 2})
    BY <2>2
  <2> QED BY <1>3, <2>2, <2>3
<1>4. CASE c = "apply"
  <2>1. program = ApplyProgram
    BY <1>4 DEF Programs
  <2>2. /\ Len(program) = 3
        /\ program[1] = Get("sum") /\ program[2] = Get("plan") /\ program[3] = Get("plan")
    BY <2>1 DEF ApplyProgram
  <2> QED BY <1>4, <2>1, <2>2
<1>5. CASE c = "status"
  <2>1. program = StatusProgram
    BY <1>5 DEF Programs
  <2>2. /\ Len(program) = 3
        /\ program[1] = Get("plan") /\ program[2] = Get("sum") /\ program[3] = Get("plan")
    BY <2>1 DEF StatusProgram
  <2> QED BY <1>5, <2>1, <2>2
<1> QED BY <1>1, <1>2, <1>3, <1>4, <1>5 DEF Command

\* What a command rests on stays as it is.
Quiet(q) == \A f \in Concerns(run[q].cmd) : dir'[f] = dir[f]

\* A command that waits while another one acts.
LEMMA StaysInStep ==
  ASSUME FilesInv, NEW q \in Proc, InStep(q), run'[q] = run[q],
         disturbed \subseteq disturbed', checked \subseteq checked',
         Running(q) /\ run[q].n \notin disturbed' => Quiet(q)
  PROVE  InStep(q)'
<1>1. Agreed(q)'
  BY DEF InStep, Agreed
<1>2. ASSUME Running(q), run[q].n \notin disturbed'
      PROVE  UpToDate(q)' /\ Judged(q)'
  <2>1. UpToDate(q) /\ Judged(q) /\ Quiet(q)
    BY <1>2 DEF InStep
  <2>2. /\ run[q].cmd \in Command /\ run[q].program \in Programs(run[q].cmd)
        /\ run[q].at \in 1..Len(run[q].program) /\ run[q].phase \in Phases[Access(q).do]
        /\ Len(run[q].program) \in 1..6
    BY <1>2, ProgramLength DEF FilesInv, InProgram
  <2>3. \A i \in 1..(run[q].at - 1) : i \in 1..Len(run[q].program)
    BY <2>2
  <2>4. \A i \in 1..(run[q].at - 1) : run[q].program[i].do = "get" =>
          dir'[run[q].program[i].file] = dir[run[q].program[i].file]
    BY <2>1, <2>2, <2>3, ReadsThenWrites DEF Quiet
  <2>5. run[q].phase = "open" => dir'[Now(q)] = dir[Now(q)]
    <3>1. Access(q).do \in {"get", "put", "dump"}
      BY <2>2, ProgramShape DEF Access
    <3>2. run[q].phase = "open" => Access(q).do = "get"
      BY <2>2, <3>1 DEF Phases
    <3> QED BY <2>1, <2>2, <3>2, ReadsThenWrites DEF Quiet, Access, Now
  <2>6. UpToDate(q)'
    BY <2>1, <2>4, <2>5 DEF UpToDate, Now, Access
  <2>7. Judged(q)'
    BY <2>1 DEF Judged, Quiet, Concerns, File, Atomic
  <2> QED BY <2>6, <2>7
<1>3. run'[q].n = run[q].n /\ (Running(q)' <=> Running(q))
  BY DEF Running
<1> QED BY <1>1, <1>2, <1>3 DEF InStep

\* A command that is over, or has only begun.
LEMMA FreshInStep ==
  ASSUME NEW q \in Proc, run'[q].cmd = "none" \/ (run'[q].at = 1 /\ run'[q].phase = "begin")
  PROVE  InStep(q)'
<1>1. CASE run'[q].cmd = "none"
  BY <1>1 DEF InStep, Agreed, Running
<1>2. CASE run'[q].at = 1 /\ run'[q].phase = "begin"
  <2>1. \A i \in 1..(run'[q].at - 1) : FALSE
    BY <1>2
  <2> QED BY <1>2, <2>1 DEF InStep, Agreed, UpToDate, Judged
<1> QED BY <1>1, <1>2

\* Whoever rests on a file that somebody changes is disturbed.
LEMMA OthersNotice ==
  ASSUME FilesInv, NEW f \in File, NEW content, NEW others \in SUBSET Proc,
         Becomes(f, content, {}), disturbed' = Noticed(f, others)
  PROVE  /\ disturbed \subseteq disturbed'
         /\ \A q \in others : Running(q) /\ run[q].n \notin disturbed' => Quiet(q)
<1>1. DOMAIN dir = File
  BY DEF FilesInv, TypeOK
<1>2. disturbed \subseteq disturbed'
  BY DEF Noticed
<1>3. ASSUME NEW q \in others, Running(q), run[q].n \notin disturbed'
      PROVE  Quiet(q)
  <2>1. f \notin Concerns(run[q].cmd)
    BY <1>3 DEF Noticed
  <2>2. Concerns(run[q].cmd) \subseteq File
    BY DEF Concerns, File, Atomic
  <2> QED BY <1>1, <2>1, <2>2 DEF Quiet, Becomes
<1> QED BY <1>2, <1>3

\* A position passed is the last one or one passed before.
LEMMA EarlierPosition ==
  ASSUME NEW at \in 1..6, NEW i \in 1..at
  PROVE  i \in 1..6 /\ (i # at => i \in 1..(at - 1))
OBVIOUS

\* A command that goes on, if it has read what is there, or written a plan.json that is
\* then checked.
LEMMA AdvanceInStep ==
  ASSUME FilesInv, NEW p \in Proc, InStep(p), Running(p), NEW value, Advances(p, value),
         run[p].cmd = "apply" /\ run[p].at = 2 => value = run[p].seen[1],
         run[p].n \notin disturbed' =>
           /\ run[p].n \notin disturbed
           /\ \A i \in 1..(run[p].at - 1) : run[p].program[i].do = "get" =>
                dir'[run[p].program[i].file] = dir[run[p].program[i].file]
           /\ Access(p).do = "get" => value = dir'[Now(p)]
           /\ (run[p].cmd = "plan" /\ run[p].at \geq 4) \/ run[p].cmd = "revalidate"
                => dir'["plan"] \in checked'
  PROVE  InStep(p)'
<1>1. DOMAIN run = Proc /\ InProgram(p)
  BY DEF FilesInv
<1>2. CASE IsLast(p)
  <2>1. run'[p] = Ended("done")
    BY <1>1, <1>2 DEF Advances
  <2> QED BY <2>1, FreshInStep DEF Ended
<1>3. CASE ~IsLast(p)
  <2> DEFINE r == run[p]
  <2>1. run'[p] = Onward(r, value)
    BY <1>1, <1>3 DEF Advances
  <2>2. r.program \in Programs(r.cmd) /\ r.cmd \in Command /\ r.at \in 1..Len(r.program)
    BY <1>1 DEF InProgram
  <2>3. /\ r.at + 1 \in 1..Len(r.program) /\ r.at + 1 \in 1..6 /\ r.at \in 1..6
        /\ Len(r.program) \in 1..6 /\ r.at # Len(r.program)
    <3>1. Len(r.program) \in 1..6
      BY <2>2, ProgramShape
    <3>2. r.at # Len(r.program)
      BY <1>3 DEF IsLast
    <3> QED BY <2>2, <3>1, <3>2, NextPosition
  <2>4. /\ run'[p].cmd = r.cmd /\ run'[p].n = r.n /\ run'[p].program = r.program
        /\ run'[p].at = r.at + 1 /\ run'[p].phase = "begin"
        /\ run'[p].seen = [r.seen EXCEPT ![r.at] = value]
    BY <1>1, <2>1 DEF InProgram, Onward
  <2>5. \A i \in 1..6 : run'[p].seen[i] = IF i = r.at THEN value ELSE r.seen[i]
    BY <1>1, <2>4 DEF InProgram
  <2>6. Agreed(p)'
    <3>1. ASSUME r.cmd = "apply", r.at + 1 > 2
          PROVE  r.at = 2
      <4>1. Len(r.program) = 3
        BY <2>2, <3>1, ReadsThenWrites
      <4> QED BY <2>2, <2>3, <3>1, <4>1
    <3>2. ASSUME r.cmd = "apply", r.at = 2
          PROVE  run'[p].seen[1] = run'[p].seen[2]
      BY <2>5, <3>2
    <3> QED BY <2>4, <3>1, <3>2 DEF Agreed
  <2>7. ASSUME r.n \notin disturbed'
        PROVE  UpToDate(p)' /\ Judged(p)'
    <3>1. UpToDate(p) /\ Judged(p)
      BY <2>7 DEF InStep
    <3>a. 1..(run'[p].at - 1) = 1..r.at
      <4>1. run'[p].at = r.at + 1 /\ r.at \in Nat
        BY <2>3, <2>4
      <4> QED BY <4>1
    <3>2. ASSUME NEW i \in 1..r.at, r.program[i].do = "get"
          PROVE  run'[p].seen[i] = dir'[r.program[i].file]
      <4>1. i \in 1..6 /\ (i # r.at => i \in 1..(r.at - 1))
        BY <2>3, EarlierPosition
      <4>2. CASE i = r.at
        BY <2>5, <2>7, <3>2, <4>1, <4>2 DEF Access, Now
      <4>3. CASE i # r.at
        BY <2>5, <2>7, <3>1, <3>2, <4>1, <4>3 DEF UpToDate
      <4> QED BY <4>2, <4>3
    <3>3. UpToDate(p)'
      BY <2>4, <3>a, <3>2 DEF UpToDate
    <3>4. r.cmd = "plan" /\ r.at + 1 > 4 => r.at \geq 4
      BY <2>3
    <3>5. Judged(p)'
      BY <2>4, <2>7, <3>4 DEF Judged
    <3> QED BY <3>3, <3>5
  <2> QED BY <2>4, <2>6, <2>7 DEF InStep
<1> QED BY <1>2, <1>3

\* A command that gets to another phase of its access.
LEMMA PhaseInStep ==
  ASSUME FilesInv, NEW p \in Proc, InStep(p), Running(p), NEW phase, NEW held,
         ToPhase(p, phase, held),
         run[p].n \notin disturbed' =>
           /\ run[p].n \notin disturbed
           /\ \A i \in 1..(run[p].at - 1) : run[p].program[i].do = "get" =>
                dir'[run[p].program[i].file] = dir[run[p].program[i].file]
           /\ phase = "open" => held = dir'[Now(p)]
           /\ (run[p].cmd = "plan" /\ run[p].at > 4) \/ (run[p].cmd = "revalidate" /\ run[p].at > 1)
                => dir'["plan"] = dir["plan"],
         checked \subseteq checked'
  PROVE  InStep(p)'
<1> USE DEF ToPhase
<1>1. Agreed(p)'
  BY DEF InStep, Agreed
<1>2. ASSUME run[p].n \notin disturbed'
      PROVE  UpToDate(p)' /\ Judged(p)'
  <2>1. UpToDate(p) /\ Judged(p)
    BY <1>2 DEF InStep
  <2>2. UpToDate(p)'
    BY <1>2, <2>1 DEF UpToDate, Now, Access
  <2>3. Judged(p)'
    BY <1>2, <2>1 DEF Judged
  <2> QED BY <2>2, <2>3
<1> QED BY <1>1, <1>2 DEF InStep

\* A checksum that is replaced by a known one is known.
LEMMA SumsStayKnown ==
  ASSUME FilesInv, SumsKnown, NEW f \in File, NEW content, Becomes(f, content, {}),
         f = "sum" => content \in checked' \cup loose' \cup {None},
         checked \subseteq checked', loose \subseteq loose'
  PROVE  SumsKnown'
<1>1. DOMAIN dir = File /\ DOMAIN past = File /\ "sum" \in File
  BY DEF FilesInv, TypeOK, FilesTyped, File, Atomic
<1>2. CASE f = "sum"
  <2>1. dir'["sum"] = content /\ past'["sum"] = past["sum"] \cup {content}
    BY <1>1, <1>2 DEF Becomes
  <2> QED BY <1>2, <2>1 DEF SumsKnown
<1>3. CASE f # "sum"
  <2>1. dir'["sum"] = dir["sum"] /\ past'["sum"] = past["sum"]
    BY <1>1, <1>3 DEF Becomes
  <2> QED BY <2>1 DEF SumsKnown
<1> QED BY <1>2, <1>3

\* One access keeps every command in step with the files.
LEMMA AccessInStep ==
  ASSUME FilesAssumption, StampInv, NEW p \in Proc, Step(p)
  PROVE  SumsKnown' /\ \A q \in Proc : InStep(q)'
<1> USE DEF Untouched, counts, history
<1>a. /\ FilesInv /\ SumsKnown /\ InStep(p) /\ InProgram(p) /\ DOMAIN run = Proc
      /\ DOMAIN dir = File /\ \A q \in Proc : InStep(q)
  BY DEF StampInv, FilesInv, TypeOK
<1>b. ASSUME Only(p), checked \subseteq checked', disturbed \subseteq disturbed', InStep(p)',
             \A q \in Proc \ {p} : Running(q) /\ run[q].n \notin disturbed' => Quiet(q)
      PROVE  \A q \in Proc : InStep(q)'
  <2>1. ASSUME NEW q \in Proc, q # p
        PROVE  InStep(q)'
    <3>1. run'[q] = run[q]
      BY <1>b, <2>1 DEF Only
    <3>2. disturbed \subseteq disturbed' /\ checked \subseteq checked'
      BY <1>b
    <3>3. Running(q) /\ run[q].n \notin disturbed' => Quiet(q)
      BY <1>b, <2>1
    <3> QED BY <1>a, <3>1, <3>2, <3>3, StaysInStep
  <2> QED BY <1>b, <2>1
<1>c. ASSUME Only(p), checked \subseteq checked', disturbed \subseteq disturbed', InStep(p)',
             loose \subseteq loose', dir' = dir, past' = past
      PROVE  SumsKnown' /\ \A q \in Proc : InStep(q)'
  <2>1. \A q \in Proc : Quiet(q)
    BY <1>c DEF Quiet
  <2>2. SumsKnown'
    BY <1>a, <1>c DEF SumsKnown
  <2> QED BY <1>b, <1>c, <2>1, <2>2
<1>d. ASSUME Running(p)
      PROVE  /\ run[p].cmd \in Command /\ run[p].program \in Programs(run[p].cmd)
             /\ run[p].at \in 1..Len(run[p].program) /\ run[p].at \in 1..6
             /\ run[p].phase \in Phases[Access(p).do]
             /\ \A i \in 1..(run[p].at - 1) : i \in 1..Len(run[p].program)
  <2>1. /\ run[p].cmd \in Command /\ run[p].program \in Programs(run[p].cmd)
        /\ run[p].at \in 1..Len(run[p].program) /\ run[p].phase \in Phases[Access(p).do]
    BY <1>a, <1>d DEF InProgram
  <2>2. Len(run[p].program) \in 1..6
    BY <2>1, ProgramLength
  <2>3. run[p].at \in 1..6
    BY <1>a DEF FilesInv, TypeOK
  <2>4. \A i \in 1..(run[p].at - 1) : i \in 1..Len(run[p].program)
    BY <2>1, <2>2
  <2> QED BY <2>1, <2>3, <2>4
<1>1. CASE Start(p)
  <2>1. PICK c \in Command : \E program \in Programs(c) :
          run' = [run EXCEPT ![p] = [cmd |-> c, n |-> started + 1, program |-> program, at |-> 1,
                                     phase |-> "begin", held |-> None, seen |-> Nothing]]
    BY <1>1 DEF Start
  <2>2. Only(p) /\ run'[p].at = 1 /\ run'[p].phase = "begin"
    BY <1>a, <2>1 DEF Only
  <2>3. disturbed \subseteq disturbed'
    BY <1>1 DEF Start
  <2> QED BY <1>1, <1>c, <2>2, <2>3, FreshInStep DEF Start
<1>2. CASE Open(p)
  <2>1. Running(p) /\ run' = [run EXCEPT ![p].phase = "open", ![p].held = dir[Now(p)]]
    BY <1>2 DEF Open, Doing
  <2>2. ToPhase(p, "open", dir[Now(p)])
    BY <1>a, <2>1 DEF ToPhase, Only, InProgram
  <2>3. UNCHANGED <<dir, past, checked, disturbed, loose>>
    BY <1>2 DEF Open
  <2>4. InStep(p)'
    BY <1>a, <2>1, <2>2, <2>3, PhaseInStep
  <2> QED BY <1>c, <2>2, <2>3, <2>4 DEF ToPhase
<1>3. CASE Read(p)
  <2>1. /\ Running(p) /\ Access(p).do = "get" /\ Advances(p, Content(p)) /\ ~Mismatch(p, Content(p))
        /\ UNCHANGED <<dir, past, disturbed, loose>> /\ checked \subseteq checked'
        /\ run[p].cmd = "revalidate" /\ run[p].at = 1 => Content(p) \in checked'
    BY <1>3 DEF Read, Reads, Doing
  <2>2. run[p].cmd = "apply" /\ run[p].at = 2 => Content(p) = run[p].seen[1]
    BY <2>1 DEF Mismatch
  <2>3. ASSUME run[p].n \notin disturbed
        PROVE  /\ Content(p) = dir[Now(p)]
               /\ (run[p].cmd = "plan" /\ run[p].at \geq 4) \/ run[p].cmd = "revalidate"
                    => dir["plan"] \in checked'
    <3>1. UpToDate(p) /\ Judged(p)
      BY <1>a, <2>1, <2>3 DEF InStep
    <3>2. Content(p) = dir[Now(p)]
      BY <1>3, <3>1 DEF Read, Reads, Doing, Content, UpToDate
    <3>3. ASSUME run[p].cmd = "plan", run[p].at \geq 4
          PROVE  dir["plan"] \in checked'
      <4>1. run[p].at > 4
        BY <1>d, <2>1, <3>3, ReadsThenWrites DEF Access
      <4> QED BY <2>1, <3>1, <3>3, <4>1 DEF Judged
    <3>4. ASSUME run[p].cmd = "revalidate"
          PROVE  dir["plan"] \in checked'
      <4>1. Access(p) = Get("plan") /\ run[p].at \in {1, 2}
        BY <1>d, <2>1, <3>4, ReadsThenWrites DEF Access
      <4>2. CASE run[p].at = 1
        BY <2>1, <3>2, <3>4, <4>1, <4>2 DEF Now, Get
      <4>3. CASE run[p].at = 2
        BY <2>1, <3>1, <3>4, <4>3 DEF Judged
      <4> QED BY <4>1, <4>2, <4>3
    <3> QED BY <3>2, <3>3, <3>4
  <2>4. InStep(p)'
    BY <1>a, <2>1, <2>2, <2>3, AdvanceInStep
  <2>5. Only(p)
    BY <1>a, <2>1 DEF Only, Advances
  <2> QED BY <1>c, <2>1, <2>4, <2>5
<1>4. CASE ReadFails(p) \/ Fails(p)
  <2>1. EndsEarly(p) /\ UNCHANGED <<dir, past, checked, disturbed, loose>>
    BY <1>4 DEF ReadFails, Fails
  <2>2. Only(p) /\ run'[p].cmd = "none"
    BY <1>a, <2>1 DEF Only, EndsEarly, Ended
  <2> QED BY <1>c, <2>1, <2>2, FreshInStep
<1>5. CASE WriteTemp(p)
  <2>1. /\ Running(p) /\ run' = [run EXCEPT ![p].phase = "synced"]
        /\ UNCHANGED <<dir, past, checked, disturbed, loose>>
    BY <1>5 DEF WriteTemp, Doing, Reaches
  <2>2. ToPhase(p, "synced", run[p].held)
    BY <1>a, <2>1, PhaseStep
  <2>3. InStep(p)'
    BY <1>a, <2>1, <2>2, PhaseInStep
  <2> QED BY <1>c, <2>1, <2>2, <2>3 DEF ToPhase
<1>6. CASE Rename(p) \/ RemoveFirst(p)
  <2>1. Running(p) /\ Access(p).do = "put" /\ run[p].phase = "synced"
    BY <1>6, <1>a DEF Rename, RemoveFirst, Doing, InProgram, Phases
  <2>2. Now(p) \in Atomic /\ Now(p) \in File
    BY <1>a, <2>1, NewWhole DEF File
  <2>3. PICK content : /\ Becomes(Now(p), content, {}) /\ disturbed' = Noticed(Now(p), Proc \ {p})
                       /\ content = New(p) \/ content = None
    BY <1>6, <2>1 DEF Rename, Land, RemoveFirst
  <2>4. disturbed \subseteq disturbed' /\ checked \subseteq checked' /\ loose \subseteq loose'
    BY <1>6, <2>3 DEF Rename, Land, RemoveFirst, Noticed
  <2>5. \A q \in Proc \ {p} : Running(q) /\ run[q].n \notin disturbed' => Quiet(q)
    BY <1>a, <2>2, <2>3, OthersNotice
  <2>6. \A i \in 1..(run[p].at - 1) : run[p].program[i].do = "get" =>
          dir'[run[p].program[i].file] = dir[run[p].program[i].file]
    <3>1. ASSUME NEW i \in 1..(run[p].at - 1), run[p].program[i].do = "get"
          PROVE  run[p].program[i].file # Now(p) /\ run[p].program[i].file \in File
      <4>1. i \in 1..Len(run[p].program)
        BY <1>d, <2>1
      <4>2. run[p].program[i].file \in File
        BY <1>d, <2>1, <3>1, <4>1, ProgramShape
      <4>3. run[p].program[i].file # Now(p)
        BY <1>d, <2>1, <3>1, ReadsThenWrites DEF Access, Now
      <4> QED BY <4>2, <4>3
    <3> QED BY <1>a, <2>3, <3>1 DEF Becomes
  <2>7. Now(p) # "plan" => dir'["plan"] = dir["plan"]
    BY <1>a, <2>3 DEF Becomes, File, Atomic
  <2>8. Now(p) = "plan" => run[p].cmd = "plan" /\ run[p].at = 4
    BY <1>a, <2>1, NewWhole
  <2>9. run[p].cmd \in {"plan", "revalidate"} /\ Now(p) # "plan" =>
          run[p].at > 1 /\ (run[p].cmd = "plan" => run[p].at > 4)
    <3>1. CASE Now(p) = "sum"
      BY <1>d, <2>1, <3>1, ReadsThenWrites DEF Access, Now
    <3>2. CASE Now(p) = "acls"
      BY <1>d, <2>1, <3>2, ProgramShape DEF Access, Now
    <3> QED BY <2>2, <3>1, <3>2 DEF Atomic
  <2>10. ASSUME run[p].n \notin disturbed', run[p].cmd \in {"plan", "revalidate"}, Now(p) # "plan"
         PROVE  dir'["plan"] \in checked' /\ dir["plan"] \in checked
    <3>1. Judged(p)
      BY <1>a, <2>1, <2>4, <2>10 DEF InStep
    <3> QED BY <2>4, <2>7, <2>9, <2>10, <3>1 DEF Judged
  <2>11. run[p].cmd # "apply"
    BY <1>d, <2>1, ReadsThenWrites DEF Access
  <2>12. CASE Rename(p)
    <3>1. /\ Becomes(Now(p), New(p), {}) /\ Advances(p, None)
          /\ Now(p) = "plan" => New(p) \in checked'
          /\ Now(p) = "sum" /\ run[p].n \in disturbed => New(p) \in loose'
      BY <2>1, <2>12 DEF Rename, Land
    <3>2. Only(p)
      BY <1>a, <3>1 DEF Only, Advances
    <3>3. Now(p) = "plan" => dir'["plan"] \in checked'
      BY <1>a, <2>2, <3>1 DEF Becomes
    <3>4. ASSUME run[p].n \notin disturbed',
                 (run[p].cmd = "plan" /\ run[p].at \geq 4) \/ run[p].cmd = "revalidate"
          PROVE  dir'["plan"] \in checked'
      BY <2>10, <3>3, <3>4
    <3>5. InStep(p)'
      BY <1>a, <2>1, <2>4, <2>6, <2>11, <3>1, <3>4, AdvanceInStep
    <3>6. Now(p) = "sum" => New(p) \in checked' \cup loose' \cup {None}
      <4>1. CASE Now(p) = "sum" /\ run[p].n \notin disturbed
        <5>1. /\ run[p].cmd \in {"plan", "revalidate"} /\ run[p].at - 1 \in 1..(run[p].at - 1)
              /\ run[p].program[run[p].at - 1] = Get("plan")
          BY <1>d, <2>1, <4>1, ProgramShape DEF Access, Now
        <5>2. UpToDate(p) /\ Judged(p)
          BY <1>a, <2>1, <4>1 DEF InStep
        <5>3. New(p) = run[p].seen[run[p].at - 1]
          BY <4>1 DEF New
        <5>4. New(p) = dir["plan"]
          BY <5>1, <5>2, <5>3 DEF UpToDate, Get
        <5>5. dir["plan"] \in checked
          BY <2>9, <4>1, <5>1, <5>2 DEF Judged
        <5> QED BY <2>4, <5>4, <5>5
      <4> QED BY <3>1, <4>1
    <3>7. SumsKnown'
      BY <1>a, <2>2, <2>4, <3>1, <3>6, SumsStayKnown
    <3> QED BY <1>b, <2>4, <2>5, <3>2, <3>5, <3>7
  <2>13. CASE RemoveFirst(p)
    <3>1. Becomes(Now(p), None, {}) /\ run' = run
      BY <2>13 DEF RemoveFirst
    <3>2. ToPhase(p, "synced", run[p].held)
      BY <1>a, <2>1, <3>1 DEF ToPhase, Only
    <3>3. (run[p].cmd = "plan" /\ run[p].at > 4) \/ (run[p].cmd = "revalidate" /\ run[p].at > 1)
            => dir'["plan"] = dir["plan"]
      BY <2>7, <2>8
    <3>4. InStep(p)'
      BY <1>a, <2>1, <2>4, <2>6, <3>2, <3>3, PhaseInStep
    <3>5. SumsKnown'
      BY <1>a, <2>2, <2>4, <3>1, SumsStayKnown
    <3> QED BY <1>b, <2>4, <2>5, <3>2, <3>4, <3>5 DEF ToPhase
  <2> QED BY <1>6, <2>12, <2>13
<1>7. CASE Truncate(p) \/ Fill(p)
  <2>1. Running(p) /\ Access(p).do = "dump" /\ UNCHANGED <<checked, loose>>
    BY <1>7 DEF Truncate, Fill, Doing
  <2>2. Now(p) = "bindings" /\ run[p].cmd = "extract" /\ Now(p) \in File
    BY <1>d, <2>1, ProgramShape DEF Access, Now, File
  <2>3. PICK content : Becomes(Now(p), content, {}) /\ disturbed' = Noticed(Now(p), Proc \ {p})
    BY <1>7 DEF Truncate, Fill
  <2>4. /\ disturbed \subseteq disturbed'
        /\ \A q \in Proc \ {p} : Running(q) /\ run[q].n \notin disturbed' => Quiet(q)
    BY <1>a, <2>2, <2>3, OthersNotice
  <2>5. \A i \in 1..(run[p].at - 1) : run[p].program[i].do # "get"
    BY <1>d, <2>1, <2>2, ReadsThenWrites
  <2>6. SumsKnown'
    BY <1>a, <2>1, <2>2, <2>3, SumsStayKnown
  <2>7. CASE Truncate(p)
    <3>1. run' = [run EXCEPT ![p].phase = "written"]
      BY <2>7 DEF Truncate
    <3>2. ToPhase(p, "written", run[p].held)
      BY <1>a, <3>1, PhaseStep
    <3>3. InStep(p)'
      BY <1>a, <2>1, <2>2, <2>4, <2>5, <3>2, PhaseInStep
    <3> QED BY <1>b, <2>1, <2>4, <2>6, <3>2, <3>3 DEF ToPhase
  <2>8. CASE Fill(p)
    <3>1. Advances(p, None)
      BY <2>8 DEF Fill
    <3>2. Only(p)
      BY <1>a, <3>1 DEF Only, Advances
    <3>3. InStep(p)'
      BY <1>a, <2>1, <2>2, <2>4, <2>5, <3>1, AdvanceInStep
    <3> QED BY <1>b, <2>1, <2>4, <2>6, <3>2, <3>3
  <2> QED BY <1>7, <2>7, <2>8
<1> QED BY <1>1, <1>2, <1>3, <1>4, <1>5, <1>6, <1>7 DEF Step

\* Whatever happens keeps every command in step with the files.
LEMMA StampStep ==
  ASSUME FilesAssumption, StampInv, [Next]_vars
  PROVE  StampInv'
<1>a. FilesInv /\ SumsKnown /\ (\A q \in Proc : InStep(q)) /\ DOMAIN run = Proc
  BY DEF StampInv, FilesInv
<1>1. FilesInv'
  BY <1>a, FilesStep
<1>2. SumsKnown' /\ \A q \in Proc : InStep(q)'
  <2>1. ASSUME NEW p \in Proc, Step(p)
        PROVE  SumsKnown' /\ \A q \in Proc : InStep(q)'
    BY <2>1, AccessInStep
  <2>2. ASSUME NEW p \in Proc, Kill(p)
        PROVE  SumsKnown' /\ \A q \in Proc : InStep(q)'
    <3>1. EndsEarly(p) /\ UNCHANGED <<dir, past, checked, loose, disturbed>>
      BY <2>2 DEF Kill, history
    <3>2. SumsKnown'
      BY <1>a, <3>1 DEF SumsKnown
    <3>3. InStep(p)'
      BY <1>a, <3>1, FreshInStep DEF EndsEarly, Ended
    <3>4. ASSUME NEW q \in Proc, q # p
          PROVE  InStep(q)'
      <4>1. run'[q] = run[q] /\ Quiet(q)
        BY <1>a, <3>1, <3>4 DEF EndsEarly, Quiet
      <4> QED BY <1>a, <3>1, <4>1, StaysInStep
    <3> QED BY <3>2, <3>3, <3>4
  <2>3. CASE PowerLoss
    <3>1. \A q \in Proc : run'[q] = Ended("failed")
      BY <2>3 DEF PowerLoss
    <3>2. \A q \in Proc : InStep(q)'
      BY <3>1, FreshInStep DEF Ended
    <3>3. dir'["sum"] \in past["sum"] /\ past'["sum"] = {dir'["sum"]} /\ UNCHANGED <<checked, loose>>
      BY <2>3 DEF PowerLoss, File, Atomic
    <3>4. SumsKnown'
      BY <1>a, <3>3 DEF SumsKnown
    <3> QED BY <3>2, <3>4
  <2>4. CASE Edit
    <3>1. PICK content : Becomes("plan", content, {}) /\ disturbed' = Noticed("plan", Proc)
      BY <2>4 DEF Edit
    <3>2. UNCHANGED <<run, checked, loose>> /\ "plan" \in File
      BY <2>4 DEF Edit, File, Atomic
    <3>3. /\ disturbed \subseteq disturbed'
          /\ \A q \in Proc : Running(q) /\ run[q].n \notin disturbed' => Quiet(q)
      BY <1>a, <3>1, <3>2, OthersNotice
    <3>4. \A q \in Proc : InStep(q)'
      BY <1>a, <3>2, <3>3, StaysInStep
    <3>5. SumsKnown'
      BY <1>a, <3>1, <3>2, SumsStayKnown
    <3> QED BY <3>4, <3>5
  <2>5. CASE UNCHANGED vars
    <3>1. UNCHANGED <<dir, past, run, checked, loose, disturbed>>
      BY <2>5 DEF vars, history
    <3> QED BY <1>a, <3>1 DEF SumsKnown, InStep, Agreed, Running, UpToDate, Judged, Now, Access
  <2> QED BY <2>1, <2>2, <2>3, <2>4, <2>5 DEF Next
<1> QED BY <1>1, <1>2 DEF StampInv

\* At the start the checksum is of the plan that is there.
LEMMA StampStart ==
  ASSUME FilesAssumption, Init PROVE StampInv
<1>1. FilesInv
  BY FilesStart
<1>2. dir["sum"] \in {dir["plan"], None}
  <2>1. CASE dir = [f \in File |-> None]
    BY <2>1 DEF File, Atomic
  <2>2. CASE LET plan == [by |-> 0, acls |-> 0, sha |-> 0, inventory |-> 0, edits |-> 0]
             IN  dir = [f \in File |-> IF f \in {"acls", "bindings"} THEN 0 ELSE plan]
    BY <2>2 DEF File, Atomic
  <2> QED BY <2>1, <2>2 DEF Init
<1>3. SumsKnown
  <2>1. past["sum"] = {dir["sum"]} /\ checked = {dir["plan"]} \ {None}
    BY DEF Init, File, Atomic
  <2> QED BY <1>2, <2>1 DEF SumsKnown
<1>4. \A p \in Proc : InStep(p)
  BY DEF Init, Ended, InStep, Agreed, Running
<1> QED BY <1>1, <1>3, <1>4 DEF StampInv

\* The inductive invariant: a checksum is of a plan that was checked, and a command that
\* nobody has interfered with has read what is there.
THEOREM StampInvariant ==
  ASSUME FilesAssumption PROVE Spec => []StampInv
<1>1. Init => StampInv
  BY StampStart
<1>2. StampInv /\ [Next]_vars => StampInv'
  BY StampStep
<1> QED BY <1>1, <1>2, PTL DEF Spec

\* Which step a command succeeds with: the last of its program.
LEMMA LastStep ==
  ASSUME FilesAssumption, FilesInv, [Next]_vars, NEW p \in Proc, Running(p),
         run'[p].phase = "done"
  PROVE  /\ Access(p).do = "get" => Read(p)
         /\ Access(p).do = "put" => Rename(p)
         /\ IsLast(p)
<1>a. /\ DOMAIN run = Proc /\ InProgram(p) /\ run[p].phase \in Phases[Access(p).do]
      /\ Access(p).do \in {"get", "put", "dump"}
  BY ProgramShape DEF FilesInv, InProgram, Access
<1>b. run[p].phase # "done"
  BY <1>a DEF Phases
<1>c. run'[p] # run[p] /\ ~EndsEarly(p)
  BY <1>a, <1>b DEF EndsEarly, Ended
<1>1. ~(UNCHANGED vars \/ PowerLoss \/ Edit)
  BY <1>a, <1>c DEF vars, PowerLoss, Edit, Ended
<1>2. ASSUME NEW q \in Proc, q # p
      PROVE  ~(Step(q) \/ Kill(q))
  BY <1>a, <1>c, <1>2 DEF Step, Kill, Start, Open, Read, ReadFails, WriteTemp, Rename, RemoveFirst,
     Truncate, Fill, Fails, Advances, EndsEarly, Reaches, Land
<1>3. Step(p)
  BY <1>1, <1>2, <1>c DEF Next, Kill
<1>4. ~(Start(p) \/ ReadFails(p) \/ Fails(p) \/ RemoveFirst(p))
  BY <1>c DEF Start, ReadFails, Fails, RemoveFirst
<1>5. ~(Open(p) \/ WriteTemp(p) \/ Truncate(p))
  BY <1>a DEF Open, WriteTemp, Truncate, Reaches, InProgram
<1>6. Read(p) \/ Rename(p) \/ Fill(p)
  BY <1>3, <1>4, <1>5 DEF Step
<1>7. /\ Access(p).do = "get" => Read(p)
      /\ Access(p).do = "put" => Rename(p)
  BY <1>6 DEF Read, Reads, Rename, Fill, Doing
<1>8. IsLast(p)
  <2>1. PICK value : Advances(p, value)
    BY <1>6 DEF Read, Rename, Land, Fill
  <2>2. SUFFICES ASSUME ~IsLast(p) PROVE FALSE
    OBVIOUS
  <2>3. run'[p] = Onward(run[p], value)
    BY <1>a, <2>1, <2>2 DEF Advances
  <2>4. run'[p].phase = "begin"
    BY <1>a, <2>3 DEF Onward, InProgram
  <2> QED BY <2>4
<1> QED BY <1>7, <1>8

\* The last access of a command, and what it rests on.
LEMMA LastAccess ==
  ASSUME FilesAssumption, StampInv, [Next]_vars, NEW p \in Proc, Running(p),
         run'[p].phase = "done", run[p].n \notin disturbed
  PROVE  /\ UpToDate(p) /\ Judged(p) /\ Agreed(p)
         /\ run[p].cmd \in {"apply", "status"} =>
              /\ Read(p) /\ Access(p) = Get("plan") /\ run[p].at = 3
              /\ Content(p) = dir["plan"]
         /\ run[p].cmd = "apply" =>
              run[p].seen[1] = dir["sum"] /\ run[p].seen[2] = dir["plan"]
         /\ run[p].cmd = "status" =>
              run[p].seen[1] = dir["plan"] /\ run[p].seen[2] = dir["sum"]
         /\ run[p].cmd \in {"plan", "revalidate"} => Rename(p) /\ Now(p) = "sum"
<1>a. FilesInv /\ UpToDate(p) /\ Judged(p) /\ Agreed(p)
  BY DEF StampInv, InStep
<1>b. /\ run[p].cmd \in Command /\ run[p].program \in Programs(run[p].cmd)
      /\ run[p].at \in 1..Len(run[p].program) /\ run[p].at = Len(run[p].program)
  BY <1>a, LastStep DEF FilesInv, InProgram, IsLast
<1>1. ASSUME run[p].cmd \in {"apply", "status"}
      PROVE  /\ Read(p) /\ Access(p) = Get("plan") /\ run[p].at = 3
             /\ Content(p) = dir["plan"] /\ 1 \in 1..(run[p].at - 1) /\ 2 \in 1..(run[p].at - 1)
  <2>1. run[p].at = 3 /\ Access(p) = Get("plan")
    <3>1. run[p].program \in {ApplyProgram, StatusProgram} /\ Len(run[p].program) = 3
      BY <1>b, <1>1, ReadsThenWrites
    <3>2. ApplyProgram[3] = Get("plan") /\ StatusProgram[3] = Get("plan")
      BY DEF ApplyProgram, StatusProgram
    <3> QED BY <1>b, <3>1, <3>2 DEF Access
  <2>2. Read(p)
    BY <1>a, <2>1, LastStep DEF Get
  <2>3. Content(p) = dir["plan"]
    BY <1>a, <2>1, <2>2 DEF Read, Reads, Doing, Content, UpToDate, Now, Get
  <2> QED BY <2>1, <2>2, <2>3
<1>2. ASSUME run[p].cmd = "apply"
      PROVE  run[p].seen[1] = dir["sum"] /\ run[p].seen[2] = dir["plan"]
  <2>1. run[p].program[1] = Get("sum") /\ run[p].program[2] = Get("plan")
    BY <1>b, <1>2, ReadsThenWrites DEF ApplyProgram
  <2> QED BY <1>a, <1>1, <1>2, <2>1 DEF UpToDate, Get
<1>3. ASSUME run[p].cmd = "status"
      PROVE  run[p].seen[1] = dir["plan"] /\ run[p].seen[2] = dir["sum"]
  <2>1. run[p].program[1] = Get("plan") /\ run[p].program[2] = Get("sum")
    BY <1>b, <1>3, ReadsThenWrites DEF StatusProgram
  <2> QED BY <1>a, <1>1, <1>3, <2>1 DEF UpToDate, Get
<1>4. ASSUME run[p].cmd \in {"plan", "revalidate"}
      PROVE  Rename(p) /\ Now(p) = "sum"
  <2>1. Access(p) = Put("sum")
    <3>1. CASE run[p].cmd = "plan"
      <4>1. run[p].program = PlanProgram
        BY <1>b, <3>1 DEF Programs
      <4>2. Len(PlanProgram) = 6 /\ PlanProgram[6] = Put("sum")
        BY DEF PlanProgram
      <4> QED BY <1>b, <4>1, <4>2 DEF Access
    <3>2. CASE run[p].cmd = "revalidate"
      <4>1. run[p].program = RevalidateProgram
        BY <1>b, <3>2 DEF Programs
      <4>2. Len(RevalidateProgram) = 3 /\ RevalidateProgram[3] = Put("sum")
        BY DEF RevalidateProgram
      <4> QED BY <1>b, <4>1, <4>2 DEF Access
    <3> QED BY <1>4, <3>1, <3>2
  <2>2. Rename(p)
    BY <1>a, <2>1, LastStep DEF Put
  <2> QED BY <2>1, <2>2 DEF Now, Put
<1> QED BY <1>a, <1>1, <1>2, <1>3, <1>4

\* A plan that apply executes or status calls checked is one that plan wrote or
\* --revalidate read, whatever was edited, half-replaced or put back by a crash.
THEOREM VouchedIsCheckedHolds ==
  ASSUME FilesAssumption PROVE Spec => VouchedIsChecked
<1> DEFINE Vouched(p) ==
      LET seen == run[p].seen IN
      run[p].n \notin disturbed =>
        /\ Succeeds(p, {"apply"}) => Content(p) \in checked \cup loose
        /\ Succeeds(p, {"status"}) /\ seen[1] \in Plan /\ Content(p) = seen[2]
             => seen[1] \in checked \cup loose
<1>1. ASSUME StampInv, [Next]_vars, NEW p \in Proc
      PROVE  Vouched(p)
  <2>1. dir["sum"] \in checked \cup loose \cup {None}
    BY <1>1 DEF StampInv, SumsKnown
  <2>2. ASSUME run[p].n \notin disturbed, Succeeds(p, {"apply"})
        PROVE  Content(p) \in checked \cup loose
    <3>1. /\ run[p].cmd = "apply" /\ Agreed(p) /\ Read(p) /\ run[p].at = 3
          /\ Access(p) = Get("plan") /\ Content(p) = dir["plan"]
          /\ run[p].seen[1] = dir["sum"] /\ run[p].seen[2] = dir["plan"]
      BY <1>1, <2>2, LastAccess DEF Succeeds
    <3>2. Content(p) # None
      BY <3>1 DEF Read, Unusable, Now, Get
    <3>3. Content(p) = dir["sum"]
      BY <3>1 DEF Agreed
    <3> QED BY <2>1, <3>2, <3>3
  <2>3. ASSUME run[p].n \notin disturbed, Succeeds(p, {"status"}), run[p].seen[1] \in Plan,
               Content(p) = run[p].seen[2]
        PROVE  run[p].seen[1] \in checked \cup loose
    <3>1. /\ Content(p) = dir["plan"]
          /\ run[p].seen[1] = dir["plan"] /\ run[p].seen[2] = dir["sum"]
      BY <1>1, <2>3, LastAccess DEF Succeeds
    <3>2. run[p].seen[1] # None
      BY <2>3 DEF FilesAssumption
    <3> QED BY <2>1, <2>3, <3>1, <3>2
  <2> QED BY <2>2, <2>3
<1>2. StampInv /\ [Next]_vars => [\A p \in Proc : Vouched(p)]_vars
  BY <1>1
<1> QED BY <1>2, StampInvariant, PTL DEF Spec, VouchedIsChecked

\* When plan or --revalidate has returned undisturbed, apply finds plan.json and its
\* checksum in agreement.
THEOREM UsableOnceStampedHolds ==
  ASSUME FilesAssumption PROVE Spec => UsableOnceStamped
<1> DEFINE Stamped(p) ==
      Succeeds(p, {"plan", "revalidate"}) /\ run[p].n \notin disturbed
        => dir'["sum"] = dir'["plan"]
<1>1. ASSUME StampInv, [Next]_vars, NEW p \in Proc, Succeeds(p, {"plan", "revalidate"}),
             run[p].n \notin disturbed
      PROVE  dir'["sum"] = dir'["plan"]
  <2>1. /\ Running(p) /\ run[p].cmd \in {"plan", "revalidate"} /\ UpToDate(p)
        /\ Rename(p) /\ Now(p) = "sum"
    BY <1>1, LastAccess DEF Succeeds
  <2>2. /\ FilesInv /\ DOMAIN dir = File /\ run[p].cmd \in Command /\ Access(p).do = "put"
        /\ run[p].program \in Programs(run[p].cmd) /\ run[p].at \in 1..Len(run[p].program)
    BY <1>1, <2>1 DEF StampInv, FilesInv, TypeOK, InProgram, Rename, Doing
  <2>3. run[p].at - 1 \in 1..(run[p].at - 1) /\ run[p].program[run[p].at - 1] = Get("plan")
    <3>1. run[p].program[run[p].at].do = "put" /\ run[p].program[run[p].at].file = "sum"
      BY <2>1, <2>2 DEF Access, Now
    <3> QED BY <2>2, <3>1, ProgramShape
  <2>4. New(p) = run[p].seen[run[p].at - 1]
    BY <2>1 DEF New
  <2>5. New(p) = dir["plan"]
    BY <2>1, <2>3, <2>4 DEF UpToDate, Get
  <2>6. dir'["sum"] = New(p) /\ dir'["plan"] = dir["plan"]
    BY <2>1, <2>2 DEF Rename, Land, Becomes, File, Atomic
  <2> QED BY <2>5, <2>6
<1>2. StampInv /\ [Next]_vars => [\A p \in Proc : Stamped(p)]_vars
  BY <1>1
<1> QED BY <1>2, StampInvariant, PTL DEF Spec, UsableOnceStamped

-----------------------------------------------------------------------------
(* A plan has the inventory of the extract it was made from. *)

\* A command ends, or stays the command it is; an extract stays where it is.
Keeps(q) ==
  run'[q].cmd # "none" =>
    /\ run'[q].cmd = run[q].cmd /\ run'[q].n = run[q].n
    /\ Extracting(q) => run'[q].at = run[q].at

\* Whatever happens without a file being changed.
LEMMA FitQuiet ==
  ASSUME FitInv, StampInv', UNCHANGED <<dir, past, whole, started>>, disturbed \subseteq disturbed',
         \A q \in Proc : Keeps(q)
  PROVE  FitInv'
<1>1. Numbered'
  BY DEF FitInv, Numbered, Keeps, Running
<1>2. ASSUME NEW e \in Proc
      PROVE  Apart(e)'
  <2>1. Apart(e) /\ Keeps(e)
    BY DEF FitInv
  <2>2. \A q \in Proc : Planning(q)' => Planning(q)
    BY DEF Keeps, Planning
  <2>3. Extracting(e)' => Extracting(e) /\ run'[e].n = run[e].n /\ run'[e].at = run[e].at
    BY <2>1 DEF Keeps, Extracting
  <2> QED BY <2>1, <2>2, <2>3 DEF Apart
<1>3. WholeFits' /\ PlanFitsExtract'
  BY DEF FitInv, WholeFits, PlanFitsExtract
<1> QED BY <1>1, <1>2, <1>3 DEF FitInv

\* A file is replaced, but acls.json, if at all, only removed.
LEMMA FitWrites ==
  ASSUME FilesAssumption, FitInv, StampInv', NEW f \in File, NEW content, Becomes(f, content, {}),
         started' = started, disturbed \subseteq disturbed', \A q \in Proc : Keeps(q),
         whole' \subseteq whole,
         f = "acls" => /\ content = None
                       /\ \A e \in Proc : Extracting(e) => run[e].at = 1 \/ run[e].n \in disturbed',
         f = "bindings" => \A w \in whole' : dir["acls"] # w,
         f = "plan" /\ content # None /\ content.by \notin disturbed' =>
           /\ content.acls \in 0..started
           /\ \A e \in Proc : Extracting(e) => content.acls # run[e].n
           /\ content.acls \in whole => content.sha = content.acls /\ content.inventory = content.acls
  PROVE  FitInv'
<1>a. /\ DOMAIN dir = File /\ DOMAIN past = File /\ Numbered /\ whole \subseteq Number
      /\ WholeFits /\ PlanFitsExtract /\ {"acls", "bindings", "plan"} \subseteq File
  BY DEF FitInv, StampInv, FilesInv, TypeOK, FilesTyped, File, Atomic
<1>b. \A g \in File : /\ dir'[g] = IF g = f THEN content ELSE dir[g]
                      /\ past'[g] = IF g = f THEN past[g] \cup {content} ELSE past[g]
  BY <1>a DEF Becomes
<1>1. Numbered'
  <2>1. \A p, q \in Proc : Running(p)' /\ Running(q)' /\ run'[p].n = run'[q].n => p = q
    BY <1>a DEF Numbered, Keeps, Running
  <2>2. dir'["acls"] \in past'["acls"] /\ dir'["plan"] \in past'["plan"]
    BY <1>a, <1>b DEF Numbered
  <2>3. past'["acls"] \cup whole' \subseteq 0..started' \cup {None}
    BY <1>a, <1>b DEF Numbered
  <2>4. \A plan \in past'["plan"] \ {None} : plan.by \notin disturbed' => plan.acls \in 0..started'
    <3>1. ASSUME NEW plan \in past'["plan"] \ {None}, plan.by \notin disturbed'
          PROVE  plan.acls \in 0..started'
      <4>1. CASE plan \in past["plan"]
        BY <1>a, <3>1, <4>1 DEF Numbered
      <4>2. CASE f = "plan" /\ plan = content
        BY <3>1, <4>2
      <4> QED BY <1>a, <1>b, <3>1, <4>1, <4>2
    <3> QED BY <3>1
  <2> QED BY <2>1, <2>2, <2>3, <2>4 DEF Numbered
<1>2. ASSUME NEW e \in Proc, Extracting(e)'
      PROVE  Apart(e)'
  <2>1. /\ Apart(e) /\ Extracting(e) /\ run'[e].n = run[e].n /\ run'[e].at = run[e].at
        /\ run[e].n \in Number
    BY <1>2 DEF FitInv, Keeps, Extracting, StampInv, FilesInv, TypeOK, Number
  <2>2. \A q \in Proc : Planning(q)' => Planning(q)
    BY DEF Keeps, Planning
  <2>3. run[e].n \notin whole'
    BY <2>1 DEF Apart
  <2>4. run[e].at = 1 => run[e].n \notin past'["acls"]
    BY <1>a, <1>b, <2>1 DEF Apart, FilesAssumption
  <2>5. run[e].at > 1 /\ run[e].n \notin disturbed' => dir'["acls"] = run[e].n
    <3>1. CASE f = "acls"
      <4>1. run[e].at = 1 => ~(run[e].at > 1)
        OBVIOUS
      <4> QED BY <2>1, <3>1, <4>1
    <3>2. CASE f # "acls"
      BY <1>a, <1>b, <2>1, <3>2 DEF Apart
    <3> QED BY <3>1, <3>2
  <2>6. dir'["plan"] # None /\ dir'["plan"].by \notin disturbed' => dir'["plan"].acls # run[e].n
    <3>1. CASE f = "plan"
      BY <1>a, <1>b, <2>1, <3>1
    <3>2. CASE f # "plan"
      BY <1>a, <1>b, <2>1, <3>2 DEF Apart
    <3> QED BY <3>1, <3>2
  <2>7. \A q \in Proc : Planning(q)' => run[e].at = 1
    BY <2>1, <2>2 DEF Apart
  <2> QED BY <2>1, <2>3, <2>4, <2>5, <2>6, <2>7 DEF Apart
<1>3. WholeFits'
  <2>1. CASE f = "acls"
    BY <1>a, <1>b, <2>1 DEF WholeFits, FilesAssumption
  <2>2. CASE f = "bindings"
    BY <1>a, <1>b, <2>2 DEF WholeFits
  <2>3. CASE f \notin {"acls", "bindings"}
    BY <1>a, <1>b, <2>3 DEF WholeFits
  <2> QED BY <2>1, <2>2, <2>3
<1>4. PlanFitsExtract'
  <2>1. CASE f = "plan"
    BY <1>a, <1>b, <2>1 DEF PlanFitsExtract
  <2>2. CASE f # "plan"
    BY <1>a, <1>b, <2>2 DEF PlanFitsExtract
  <2> QED BY <2>1, <2>2
<1> QED BY <1>1, <1>2, <1>3, <1>4 DEF FitInv, Apart

\* A command begins: its number is new.
LEMMA StartFits ==
  ASSUME FilesAssumption, FitInv, StampInv', NEW p \in Proc, Start(p)
  PROVE  FitInv'
<1>1. PICK c \in Command : \E program \in Programs(c) :
        /\ run' = [run EXCEPT ![p] = [cmd |-> c, n |-> started + 1, program |-> program, at |-> 1,
                                      phase |-> "begin", held |-> None, seen |-> Nothing]]
        /\ disturbed' = disturbed \cup
             {n \in {started + 1} : c = "plan" /\ \E q \in Proc : run[q].cmd = "extract"}
  BY DEF Start
<1>2. /\ DOMAIN run = Proc /\ started \in Nat /\ started' = started + 1 /\ UNCHANGED <<dir, past, whole>>
      /\ Numbered /\ whole \subseteq Number /\ \A q \in Proc : run[q].n \in 0..started
  BY DEF Start, Untouched, FitInv, StampInv, FilesInv, TypeOK, Number
<1>3. /\ run'[p].cmd = c /\ run'[p].n = started + 1 /\ run'[p].at = 1
      /\ \A q \in Proc \ {p} : run'[q] = run[q]
  BY <1>1, <1>2
<1>4. disturbed \subseteq disturbed'
  BY <1>1
<1>5. started + 1 \notin 0..started \cup {None} /\ 0..started \subseteq 0..(started + 1)
  BY <1>2 DEF FilesAssumption, Number
<1>6. Numbered'
  <2>1. \A q, r \in Proc : Running(q)' /\ Running(r)' /\ run'[q].n = run'[r].n => q = r
    <3>1. ASSUME NEW q \in Proc, q # p PROVE run'[q].n # run'[p].n
      BY <1>2, <1>3, <1>5, <3>1
    <3>2. ASSUME NEW q \in Proc, NEW r \in Proc, q # p, r # p, Running(q)', Running(r)',
                 run'[q].n = run'[r].n
          PROVE  q = r
      BY <1>2, <1>3, <3>2 DEF Numbered, Running
    <3> QED BY <3>1, <3>2
  <2>2. past["acls"] \cup whole \subseteq 0..(started + 1) \cup {None}
    BY <1>2, <1>5 DEF Numbered
  <2>3. \A plan \in past["plan"] \ {None} : plan.by \notin disturbed' => plan.acls \in 0..(started + 1)
    BY <1>2, <1>4, <1>5 DEF Numbered
  <2> QED BY <1>2, <2>1, <2>2, <2>3 DEF Numbered
<1>7. ASSUME NEW e \in Proc, Extracting(e)'
      PROVE  Apart(e)'
  <2>1. CASE e = p
    <3>1. run'[e].n \notin whole
      BY <1>2, <1>3, <1>5, <2>1 DEF Numbered
    <3>2. run'[e].n \notin past["acls"]
      BY <1>2, <1>3, <1>5, <2>1 DEF Numbered
    <3>3. dir["plan"] # None /\ dir["plan"].by \notin disturbed' => dir["plan"].acls # run'[e].n
      BY <1>2, <1>3, <1>4, <1>5, <2>1 DEF Numbered
    <3> QED BY <1>2, <1>3, <2>1, <3>1, <3>2, <3>3 DEF Apart
  <2>2. CASE e # p
    <3>1. Apart(e) /\ Extracting(e) /\ run'[e] = run[e]
      BY <1>3, <1>7, <2>2 DEF FitInv, Extracting
    <3>2. ~Planning(p)'
      BY <1>1, <1>3, <3>1 DEF Planning, Extracting
    <3>3. \A q \in Proc : Planning(q)' => Planning(q)
      BY <1>3, <1>4, <3>2 DEF Planning
    <3> QED BY <1>2, <1>4, <3>1, <3>3 DEF Apart
  <2> QED BY <2>1, <2>2
<1>8. WholeFits' /\ PlanFitsExtract'
  BY <1>2, <1>4 DEF FitInv, WholeFits, PlanFitsExtract
<1> QED BY <1>6, <1>7, <1>8 DEF FitInv, Apart

\* acls.json is replaced: the plans under way are disturbed.
LEMMA RowsFit ==
  ASSUME FilesAssumption, FitInv, StampInv', NEW p \in Proc, Rename(p), Now(p) = "acls",
         Extracting(p), run[p].at = 1, Becomes("acls", run[p].n, {}), Only(p),
         run'[p].cmd # "none" => /\ run'[p].cmd = "extract" /\ run'[p].n = run[p].n
                                 /\ run'[p].at = 2
  PROVE  FitInv'
<1>a. /\ DOMAIN dir = File /\ DOMAIN past = File /\ Numbered /\ whole \subseteq Number
      /\ Apart(p) /\ run[p].n \in 0..started
  BY DEF FitInv, StampInv, FilesInv, TypeOK, FilesTyped
<1>b. /\ dir'["acls"] = run[p].n /\ past'["acls"] = past["acls"] \cup {run[p].n}
      /\ dir'["plan"] = dir["plan"] /\ past'["plan"] = past["plan"]
      /\ dir'["bindings"] = dir["bindings"]
  BY <1>a DEF Becomes, File, Atomic
<1>c. /\ disturbed' = Noticed("acls", Proc \ {p}) /\ UNCHANGED <<started, whole>>
      /\ disturbed \subseteq disturbed'
  BY DEF Rename, Land, counts, Noticed
<1>d. ASSUME NEW q \in Proc, q # p, run[q].cmd \in {"extract", "plan"}
      PROVE  run[q].n \in disturbed'
  <2>1. Running(q) /\ "acls" \in Concerns(run[q].cmd)
    BY <1>d DEF Running, Concerns, File, Atomic
  <2> QED BY <1>c, <1>d, <2>1 DEF Noticed
<1>e. \A q \in Proc \ {p} : run'[q] = run[q]
  BY DEF Only
<1>1. Numbered'
  <2>1. \A q, r \in Proc : Running(q)' /\ Running(r)' /\ run'[q].n = run'[r].n => q = r
    BY <1>a, <1>e DEF Numbered, Running, Extracting
  <2>2. past'["acls"] \cup whole' \subseteq 0..started' \cup {None}
    BY <1>a, <1>b, <1>c DEF Numbered
  <2> QED BY <1>a, <1>b, <1>c, <2>1, <2>2 DEF Numbered
<1>2. \A q \in Proc : ~Planning(q)'
  BY <1>d, <1>e DEF Planning
<1>3. ASSUME NEW e \in Proc, Extracting(e)'
      PROVE  Apart(e)'
  <2>1. CASE e = p
    <3>1. run'[e].n = run[p].n /\ run'[e].at = 2 /\ run[p].n \notin whole'
      BY <1>a, <1>c, <1>3, <2>1 DEF Apart, Extracting
    <3>2. run'[e].at # 1
      BY <3>1
    <3>3. dir'["plan"] # None /\ dir'["plan"].by \notin disturbed' => dir'["plan"].acls # run[p].n
      BY <1>a, <1>b, <1>c DEF Apart
    <3> QED BY <1>b, <1>2, <3>1, <3>2, <3>3 DEF Apart
  <2>2. CASE e # p
    <3>1. Apart(e) /\ run'[e] = run[e] /\ Extracting(e) /\ run[e].n \in disturbed'
      BY <1>3, <1>d, <1>e, <2>2 DEF FitInv, Extracting
    <3>2. run[e].n # run[p].n
      BY <1>a, <2>2, <3>1 DEF Numbered, Running, Extracting
    <3> QED BY <1>b, <1>c, <1>2, <3>1, <3>2 DEF Apart
  <2> QED BY <2>1, <2>2
<1>4. WholeFits'
  BY <1>a, <1>b, <1>c DEF WholeFits, Apart
<1>5. PlanFitsExtract'
  BY <1>b, <1>c DEF FitInv, PlanFitsExtract
<1> QED BY <1>1, <1>3, <1>4, <1>5 DEF FitInv, Apart

\* An undisturbed extract ends with its inventory: no plan has found its rows yet.
LEMMA InventoryFits ==
  ASSUME FilesAssumption, FitInv, StampInv', NEW p \in Proc, Extracting(p),
         run[p].n \notin disturbed, run[p].at > 1, Becomes("bindings", run[p].n, {}), Only(p),
         run'[p].cmd = "none", whole' = {run[p].n}, started' = started, disturbed \subseteq disturbed'
  PROVE  FitInv'
<1>a. /\ DOMAIN dir = File /\ DOMAIN past = File /\ Numbered
      /\ Apart(p) /\ run[p].n \in 0..started
  BY DEF FitInv, StampInv, FilesInv, TypeOK, FilesTyped
<1>b. /\ dir'["acls"] = dir["acls"] /\ past'["acls"] = past["acls"]
      /\ dir'["plan"] = dir["plan"] /\ past'["plan"] = past["plan"]
      /\ dir'["bindings"] = run[p].n
  BY <1>a DEF Becomes, File, Atomic
<1>e. \A q \in Proc \ {p} : run'[q] = run[q]
  BY DEF Only
<1>1. Numbered'
  <2>1. \A q, r \in Proc : Running(q)' /\ Running(r)' /\ run'[q].n = run'[r].n => q = r
    BY <1>a, <1>e DEF Numbered, Running
  <2>2. past'["acls"] \cup whole' \subseteq 0..started' \cup {None}
    BY <1>a, <1>b DEF Numbered
  <2> QED BY <1>a, <1>b, <2>1, <2>2 DEF Numbered
<1>2. ASSUME NEW e \in Proc, Extracting(e)'
      PROVE  Apart(e)'
  <2>1. e # p
    BY <1>2 DEF Extracting
  <2>2. Apart(e) /\ run'[e] = run[e] /\ Extracting(e)
    BY <1>2, <1>e, <2>1 DEF FitInv, Extracting
  <2>3. run[e].n # run[p].n
    BY <1>a, <2>1, <2>2 DEF Numbered, Running, Extracting
  <2>4. \A q \in Proc : Planning(q)' => Planning(q)
    BY <1>e DEF Planning
  <2> QED BY <1>b, <2>2, <2>3, <2>4 DEF Apart
<1>3. WholeFits'
  BY <1>b DEF WholeFits
<1>4. PlanFitsExtract'
  BY <1>a, <1>b DEF PlanFitsExtract, Apart
<1> QED BY <1>1, <1>2, <1>3, <1>4 DEF FitInv, Apart

\* What plan writes has the rows and the inventory that are there.
LEMMA PlanRests ==
  ASSUME FilesAssumption, FitInv, NEW p \in Proc, Running(p), Access(p).do = "put",
         Now(p) = "plan", run[p].n \notin disturbed
  PROVE  /\ Planning(p) /\ New(p).acls = dir["acls"] /\ New(p).sha = dir["acls"]
         /\ New(p).inventory = dir["bindings"] /\ New(p).acls \in 0..started
<1>1. FilesInv /\ UpToDate(p) /\ InProgram(p) /\ Numbered
  BY DEF FitInv, StampInv, InStep, FilesInv
<1>2. New(p) \in Plan /\ run[p].cmd = "plan" /\ run[p].at = 4
  BY <1>1, NewWhole DEF Whole
<1>3. run[p].program = PlanProgram
  BY <1>1, <1>2 DEF InProgram, Programs
<1>4. /\ run[p].program[1] = Get("acls") /\ run[p].program[2] = Get("bindings")
      /\ run[p].program[3] = Get("acls")
  BY <1>3 DEF PlanProgram
<1>5. 1 \in 1..(run[p].at - 1) /\ 2 \in 1..(run[p].at - 1) /\ 3 \in 1..(run[p].at - 1)
  BY <1>2
<1>6. /\ run[p].seen[1] = dir["acls"] /\ run[p].seen[2] = dir["bindings"]
      /\ run[p].seen[3] = dir["acls"]
  BY <1>1, <1>4, <1>5 DEF UpToDate, Get
<1>7. New(p) = [by |-> run[p].n, acls |-> run[p].seen[1], inventory |-> run[p].seen[2],
                sha |-> run[p].seen[3], edits |-> 0]
  BY DEF New
<1>8. /\ New(p).acls = dir["acls"] /\ New(p).sha = dir["acls"]
      /\ New(p).inventory = dir["bindings"]
  BY <1>6, <1>7
<1>9. New(p).acls \in Number
  BY <1>2 DEF Plan
<1>10. dir["acls"] # None
  BY <1>8, <1>9 DEF FilesAssumption
<1> QED BY <1>1, <1>2, <1>8, <1>10 DEF Planning, Numbered

\* One access keeps plans and extracts fitting.
LEMMA AccessFits ==
  ASSUME FilesAssumption, FitInv, StampInv', NEW p \in Proc, Step(p)
  PROVE  FitInv'
<1> USE DEF Untouched, counts, history
<1>a. /\ FilesInv /\ InProgram(p) /\ DOMAIN run = Proc /\ Apart(p) /\ DOMAIN dir = File
  BY DEF FitInv, StampInv, FilesInv, TypeOK
<1>b. ASSUME Only(p), Keeps(p)
      PROVE  \A q \in Proc : Keeps(q)
  BY <1>b DEF Only, Keeps
<1>c. ASSUME EndsEarly(p)
      PROVE  Only(p) /\ Keeps(p)
  BY <1>a, <1>c DEF EndsEarly, Only, Keeps, Ended
<1>d. ASSUME NEW value, Advances(p, value)
      PROVE  /\ Only(p)
             /\ IsLast(p) => run'[p].cmd = "none"
             /\ ~IsLast(p) => run'[p].cmd = run[p].cmd /\ run'[p].n = run[p].n
                              /\ run'[p].at = run[p].at + 1
  BY <1>a, <1>d DEF Advances, Only, Ended, Onward, InProgram
<1>e. ASSUME Running(p)
      PROVE  /\ run[p].cmd \in Command /\ run[p].program \in Programs(run[p].cmd)
             /\ run[p].at \in 1..Len(run[p].program)
  BY <1>a, <1>e DEF InProgram
<1>1. CASE Start(p)
  BY <1>1, StartFits
<1>2. CASE Open(p) \/ WriteTemp(p)
  <2>1. Keeps(p) /\ Only(p)
    BY <1>a, <1>2 DEF Open, WriteTemp, Reaches, Keeps, Only, InProgram
  <2>2. UNCHANGED <<dir, past, whole, started, disturbed>>
    BY <1>2 DEF Open, WriteTemp, Reaches
  <2> QED BY <1>b, <2>1, <2>2, FitQuiet
<1>3. CASE Read(p)
  <2>1. /\ Running(p) /\ Access(p).do = "get" /\ Advances(p, Content(p))
        /\ UNCHANGED <<dir, past, whole, started, disturbed>>
    BY <1>3 DEF Read, Reads, Doing
  <2>2. run[p].cmd # "extract"
    BY <1>e, <2>1, ReadsThenWrites DEF Access
  <2>3. Keeps(p) /\ Only(p)
    BY <1>d, <2>1, <2>2 DEF Keeps, Extracting
  <2> QED BY <1>b, <2>1, <2>3, FitQuiet
<1>4. CASE ReadFails(p) \/ Fails(p)
  <2>1. EndsEarly(p) /\ UNCHANGED <<dir, past, whole, started, disturbed>>
    BY <1>4 DEF ReadFails, Fails
  <2> QED BY <1>b, <1>c, <2>1, FitQuiet
<1>5. CASE Rename(p)
  <2>1. Running(p) /\ Access(p).do = "put" /\ run[p].phase = "synced"
    BY <1>5, <1>a DEF Rename, Doing, InProgram, Phases
  <2>2. /\ Now(p) \in Atomic /\ Now(p) \in File
    BY <1>a, <2>1, NewWhole DEF File
  <2>3. /\ Becomes(Now(p), New(p), {}) /\ Advances(p, None)
        /\ UNCHANGED <<started, whole>> /\ disturbed \subseteq disturbed'
    BY <1>5, <2>1 DEF Rename, Land, Noticed
  <2>4. CASE Now(p) = "acls"
    <3>1. Extracting(p) /\ run[p].at = 1
      BY <1>e, <2>1, <2>4, ProgramShape, ReadsThenWrites DEF Access, Now, Extracting
    <3>2. New(p) = run[p].n
      BY <2>4 DEF New
    <3>3. run'[p].cmd # "none" => /\ run'[p].cmd = "extract" /\ run'[p].n = run[p].n
                                  /\ run'[p].at = 2
      BY <1>d, <2>3, <3>1 DEF Extracting
    <3> QED BY <1>5, <1>d, <2>3, <2>4, <3>1, <3>2, <3>3, RowsFit
  <2>5. CASE Now(p) # "acls"
    <3>1. ~Extracting(p)
      BY <1>e, <2>1, <2>2, <2>5, ProgramShape DEF Access, Now, Extracting, Atomic
    <3>2. \A q \in Proc : Keeps(q)
      <4>1. Keeps(p)
        BY <1>d, <2>3, <3>1 DEF Keeps
      <4> QED BY <1>b, <1>d, <2>3, <4>1
    <3>3. ASSUME Now(p) = "plan", New(p).by \notin disturbed'
          PROVE  /\ New(p).acls \in 0..started
                 /\ \A e \in Proc : Extracting(e) => New(p).acls # run[e].n
                 /\ New(p).acls \in whole =>
                      New(p).sha = New(p).acls /\ New(p).inventory = New(p).acls
      <4>1. New(p).by = run[p].n
        BY <3>3 DEF New
      <4>2. /\ Planning(p) /\ New(p).acls = dir["acls"] /\ New(p).sha = dir["acls"]
            /\ New(p).inventory = dir["bindings"] /\ New(p).acls \in 0..started
        BY <2>1, <2>3, <3>3, <4>1, PlanRests
      <4>3. ASSUME NEW e \in Proc, Extracting(e)
            PROVE  dir["acls"] # run[e].n
        BY <4>2, <4>3 DEF FitInv, Apart, Numbered
      <4>4. dir["acls"] \in whole => dir["bindings"] = dir["acls"]
        BY DEF FitInv, WholeFits
      <4> QED BY <4>2, <4>3, <4>4
    <3>4. Now(p) # "bindings"
      BY <2>2 DEF Atomic
    <3> QED BY <2>2, <2>3, <2>5, <3>2, <3>3, <3>4, FitWrites
  <2> QED BY <2>4, <2>5
<1>6. CASE RemoveFirst(p)
  <2>1. /\ Running(p) /\ Access(p).do = "put" /\ Becomes(Now(p), None, {}) /\ run' = run
        /\ UNCHANGED <<started, whole>> /\ disturbed' = Noticed(Now(p), Proc \ {p})
    BY <1>6 DEF RemoveFirst, Doing
  <2>2. Now(p) \in Atomic /\ Now(p) \in File /\ disturbed \subseteq disturbed'
    BY <1>a, <2>1, NewWhole DEF File, Noticed
  <2>3. ASSUME Now(p) = "acls", NEW e \in Proc, Extracting(e)
        PROVE  run[e].at = 1 \/ run[e].n \in disturbed'
    <3>1. CASE e = p
      BY <1>e, <2>1, <2>3, <3>1, ReadsThenWrites DEF Access, Now
    <3>2. CASE e # p
      <4>1. Running(e) /\ "acls" \in Concerns(run[e].cmd)
        BY <2>3 DEF Extracting, Running, Concerns
      <4> QED BY <2>1, <2>3, <3>2, <4>1 DEF Noticed
    <3> QED BY <3>1, <3>2
  <2>4. \A q \in Proc : Keeps(q)
    BY <2>1 DEF Keeps
  <2>5. Now(p) # "bindings"
    BY <2>2 DEF Atomic
  <2> QED BY <2>1, <2>2, <2>3, <2>4, <2>5, FitWrites
<1>7. CASE Truncate(p) \/ Fill(p)
  <2>1. Running(p) /\ Access(p).do = "dump" /\ started' = started
    BY <1>7 DEF Truncate, Fill, Doing
  <2>2. /\ Now(p) = "bindings" /\ Extracting(p) /\ run[p].at > 1 /\ IsLast(p)
        /\ Now(p) \in File
    BY <1>e, <2>1, ProgramShape, ReadsThenWrites DEF Access, Now, Extracting, IsLast, File
  <2>3. disturbed \subseteq disturbed'
    BY <1>7 DEF Truncate, Fill, Noticed
  <2>4. CASE Truncate(p)
    <3>1. /\ Becomes("bindings", Torn, {}) /\ run' = [run EXCEPT ![p].phase = "written"]
          /\ whole' = IF run[p].n \in disturbed THEN {} ELSE whole
      BY <2>2, <2>4 DEF Truncate
    <3>2. Keeps(p) /\ Only(p)
      BY <1>a, <3>1 DEF Keeps, Only, InProgram
    <3>3. \A w \in whole' : dir["acls"] # w
      BY <1>a, <2>2, <3>1 DEF Apart
    <3>4. whole' \subseteq whole
      BY <3>1
    <3>5. \A q \in Proc : Keeps(q)
      BY <1>b, <3>2
    <3> QED BY <2>1, <2>2, <2>3, <3>1, <3>3, <3>4, <3>5, FitWrites
  <2>5. CASE Fill(p)
    <3>1. /\ Becomes("bindings", run[p].n, {}) /\ Advances(p, None)
          /\ whole' = IF run[p].n \in disturbed THEN {} ELSE {run[p].n}
      BY <2>2, <2>5 DEF Fill
    <3>2. Only(p) /\ run'[p].cmd = "none"
      BY <1>d, <2>2, <3>1
    <3>3. CASE run[p].n \in disturbed
      <4>1. whole' = {}
        BY <3>1, <3>3
      <4>2. \A q \in Proc : Keeps(q)
        BY <1>b, <3>2 DEF Keeps
      <4> QED BY <2>1, <2>2, <2>3, <3>1, <4>1, <4>2, FitWrites
    <3>4. CASE run[p].n \notin disturbed
      BY <2>1, <2>2, <2>3, <3>1, <3>2, <3>4, InventoryFits
    <3> QED BY <3>3, <3>4
  <2> QED BY <1>7, <2>4, <2>5
<1> QED BY <1>1, <1>2, <1>3, <1>4, <1>5, <1>6, <1>7 DEF Step

\* Whatever happens keeps plans and extracts fitting.
LEMMA FitStep ==
  ASSUME FilesAssumption, FitInv, [Next]_vars
  PROVE  FitInv'
<1>a. StampInv' /\ FilesInv /\ DOMAIN run = Proc
  BY StampStep DEF FitInv, StampInv, FilesInv
<1>1. ASSUME NEW p \in Proc, Step(p)
      PROVE  FitInv'
  BY <1>1, <1>a, AccessFits
<1>2. ASSUME NEW p \in Proc, Kill(p)
      PROVE  FitInv'
  <2>1. EndsEarly(p) /\ UNCHANGED <<dir, past, whole, started, disturbed>>
    BY <1>2 DEF Kill, history
  <2>2. \A q \in Proc : Keeps(q)
    BY <1>a, <2>1 DEF EndsEarly, Keeps, Ended
  <2> QED BY <1>a, <2>1, <2>2, FitQuiet
<1>3. CASE PowerLoss
  <2>1. \A q \in Proc : run'[q].cmd = "none"
    BY <1>3 DEF PowerLoss, Ended
  <2>2. /\ dir'["acls"] \in past["acls"] /\ dir'["plan"] \in past["plan"]
        /\ past'["acls"] = {dir'["acls"]} /\ past'["plan"] = {dir'["plan"]}
        /\ whole' = {} /\ UNCHANGED <<started, disturbed>>
    BY <1>3 DEF PowerLoss, File, Atomic
  <2>3. Numbered'
    BY <2>1, <2>2 DEF FitInv, Numbered, Running
  <2>4. \A e \in Proc : Apart(e)'
    BY <2>1 DEF Apart, Extracting
  <2>5. WholeFits' /\ PlanFitsExtract'
    BY <2>2 DEF WholeFits, PlanFitsExtract
  <2> QED BY <1>a, <2>3, <2>4, <2>5 DEF FitInv
<1>4. CASE Edit
  <2> DEFINE edited == [dir["plan"] EXCEPT !.edits = edits + 1]
  <2>1. /\ Becomes("plan", edited, {}) /\ dir["plan"] \in Plan /\ "plan" \in File
        /\ UNCHANGED <<run, started, whole>> /\ disturbed \subseteq disturbed'
    BY <1>4 DEF Edit, File, Atomic, Noticed
  <2>2. /\ edited.by = dir["plan"].by /\ edited.acls = dir["plan"].acls
        /\ edited.sha = dir["plan"].sha /\ edited.inventory = dir["plan"].inventory
    BY <2>1 DEF Plan
  <2>3. dir["plan"] # None /\ dir["plan"] \in past["plan"]
    BY <2>1 DEF FilesAssumption, FitInv, Numbered
  <2>4. edited.by \notin disturbed' =>
          /\ edited.acls \in 0..started
          /\ \A e \in Proc : Extracting(e) => edited.acls # run[e].n
          /\ edited.acls \in whole => edited.sha = edited.acls /\ edited.inventory = edited.acls
    BY <2>1, <2>2, <2>3 DEF FitInv, Numbered, Apart, PlanFitsExtract
  <2>5. \A q \in Proc : Keeps(q)
    BY <2>1 DEF Keeps
  <2> HIDE DEF edited
  <2> QED BY <1>a, <2>1, <2>4, <2>5, FitWrites
<1>5. CASE UNCHANGED vars
  <2>1. \A q \in Proc : Keeps(q)
    BY <1>5 DEF vars, Keeps
  <2>2. UNCHANGED <<dir, past, whole, started, disturbed>>
    BY <1>5 DEF vars, counts, history
  <2> QED BY <1>a, <2>1, <2>2, FitQuiet
<1> QED BY <1>1, <1>2, <1>3, <1>4, <1>5 DEF Next

\* At the start there is nothing, or a plan with the inventory of its extract.
LEMMA FitStart ==
  ASSUME FilesAssumption, Init PROVE FitInv
<1>1. StampInv
  BY StampStart
<1>2. \A p \in Proc : run[p].cmd = "none"
  BY DEF Init, Ended
<1>3. /\ past["acls"] = {dir["acls"]} /\ past["plan"] = {dir["plan"]}
      /\ whole = {dir["bindings"]} \ {None} /\ started = 0
  BY DEF Init, File, Atomic
<1>4. CASE dir = [f \in File |-> None]
  <2>1. dir["acls"] = None /\ dir["plan"] = None /\ dir["bindings"] = None
    BY <1>4 DEF File, Atomic
  <2> QED BY <1>1, <1>2, <1>3, <2>1
          DEF FitInv, Numbered, Running, Apart, Extracting, WholeFits, PlanFitsExtract
<1>5. CASE LET plan == [by |-> 0, acls |-> 0, sha |-> 0, inventory |-> 0, edits |-> 0]
           IN  dir = [f \in File |-> IF f \in {"acls", "bindings"} THEN 0 ELSE plan]
  <2>1. /\ dir["acls"] = 0 /\ dir["bindings"] = 0
        /\ dir["plan"] = [by |-> 0, acls |-> 0, sha |-> 0, inventory |-> 0, edits |-> 0]
    BY <1>5 DEF File, Atomic
  <2>2. dir["plan"].acls = 0 /\ dir["plan"].sha = 0 /\ dir["plan"].inventory = 0
    BY <2>1
  <2> HIDE <1>5
  <2>3. Numbered
    BY <1>2, <1>3, <2>1, <2>2 DEF Numbered, Running
  <2>4. WholeFits /\ PlanFitsExtract
    BY <1>3, <2>1, <2>2 DEF WholeFits, PlanFitsExtract
  <2> QED BY <1>1, <1>2, <2>3, <2>4 DEF FitInv, Apart, Extracting
<1> QED BY <1>4, <1>5 DEF Init

\* A plan made while no extract runs, from an extract that left an inventory, has the
\* hash of the rows it was made from and the inventory found with them, whatever is
\* killed, fails, overlaps or loses power.
THEOREM PlanFitsExtractHolds ==
  ASSUME FilesAssumption PROVE Spec => []PlanFitsExtract
<1>1. Init => FitInv
  BY FitStart
<1>2. FitInv /\ [Next]_vars => FitInv'
  BY FitStep
<1>3. FitInv => PlanFitsExtract
  BY DEF FitInv
<1> QED BY <1>1, <1>2, <1>3, PTL DEF Spec
=============================================================================
