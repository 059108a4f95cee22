----------------------------- MODULE RunDirFiles -----------------------------
(***************************************************************************)
(* The files through which the commands hand each other their results      *)
(* (pkg/aclrbac/rundir, extract/extract.go, cli/cmd_pipeline.go): how      *)
(* extract, plan, plan --revalidate, apply and status read and write       *)
(* acls.json, existing-bindings.json, plan.json and plan.json.sha256, one  *)
(* access to the file system at a time, with commands that overlap, are    *)
(* killed or lose power, and a user who edits plan.json.                   *)
(*                                                                         *)
(* A hash is the content it is a hash of.  Only apply takes the lock.      *)
(***************************************************************************)
EXTENDS Naturals, Sequences, FiniteSets

CONSTANTS
  Proc,
  Platforms,        \* some of "posix", "windows"
  None,             \* no file
  Torn,             \* a file that is there in part
  MaxCommands,      \* bound: commands started, for each platform
  MaxEdits,         \* bound: edits of plan.json
  MaxDeaths         \* bound: kills and power losses

Atomic == {"acls", "plan", "sum"}      \* written by WriteAtomic
File == Atomic \cup {"bindings"}       \* existing-bindings.json: by os.WriteFile

\* Commands are numbered; acls.json and existing-bindings.json have the number of
\* the extract they come from.
Number == Nat

\* A plan.json: made by which plan, from which acls.json, with the hash of which, with
\* which existing bindings; edits since.
Plan ==
  [by : Number, acls : Number, sha : Number, inventory : Number \cup {None},
   edits : Nat]

Whole(f) == IF f \in {"plan", "sum"} THEN Plan ELSE Number

ASSUME FilesAssumption ==
  /\ IsFiniteSet(Proc)
  /\ Platforms \subseteq {"posix", "windows"}
  /\ MaxCommands \in [Platforms -> Nat] /\ MaxEdits \in Nat /\ MaxDeaths \in Nat
  /\ None \notin Plan \cup Number

VARIABLES
  platform,
  dir,          \* the run directory: content of each file
  past,         \* contents it has had since power was last lost
  litter,       \* commands that have left a temporary file behind
  run,          \* what each process is doing
  started, edits, deaths,
  checked,      \* history: plans some plan wrote or some --revalidate read
  loose,        \*   plans stamped while somebody else replaced plan.json
  disturbed,    \*   commands whose files somebody else changed while they ran, and plans
                \*   begun while an extract was under way
  whole         \*   the last extract that ran to its end with an inventory, undisturbed

counts  == <<started, edits, deaths>>
history == <<checked, loose, disturbed, whole>>
vars    == <<platform, dir, past, litter, run, counts, history>>

-----------------------------------------------------------------------------
(* The commands, as the files they open *)

Get(f)  == [do |-> "get", file |-> f]       \* os.ReadFile, hashFile
Put(f)  == [do |-> "put", file |-> f]       \* WriteAtomic
Dump(f) == [do |-> "dump", file |-> f]      \* os.WriteFile

Command == {"extract", "plan", "revalidate", "apply", "status"}

\* Mutant: the inventory goes first.
InventoryFirst == {<<Put("acls")>>, <<Dump("bindings"), Put("acls")>>}

\* An inventory is written if the source has found one.
ExtractPrograms == {<<Put("acls")>>, <<Put("acls"), Dump("bindings")>>}

\* Mutant: the checksum goes first.
StampFirst ==
  <<Get("acls"), Get("bindings"), Get("acls"), Get("plan"), Put("sum"), Put("plan")>>

PlanProgram ==
  <<Get("acls"), Get("bindings"), Get("acls"), Put("plan"), Get("plan"), Put("sum")>>

\* Run reads the plan, then it is hashed.
RevalidateProgram == <<Get("plan"), Get("plan"), Put("sum")>>

\* VerifyChecksum, then ReadPlan; of apply and status, what concerns plan.json.
ApplyProgram == <<Get("sum"), Get("plan"), Get("plan")>>

StatusProgram == <<Get("plan"), Get("sum"), Get("plan")>>

Programs(c) ==
  CASE c = "extract"    -> ExtractPrograms
    [] c = "plan"       -> {PlanProgram}
    [] c = "revalidate" -> {RevalidateProgram}
    [] c = "apply"      -> {ApplyProgram}
    [] c = "status"     -> {StatusProgram}

\* Files that a command's result rests on.
Concerns(c) ==
  CASE c = "extract" -> {"acls", "bindings"}
    [] c = "plan"    -> File
    [] OTHER         -> {"plan", "sum"}

Nothing == [i \in 1..6 |-> None]

Ended(how) ==
  [cmd |-> "none", n |-> 0, program |-> <<>>, at |-> 1, phase |-> how, held |-> None,
   seen |-> Nothing]

Running(p) == run[p].cmd # "none"
Access(p)  == run[p].program[run[p].at]
Now(p)     == Access(p).file
Doing(p, do, phase) == Running(p) /\ Access(p).do = do /\ run[p].phase = phase

IsLast(p) == run[p].at = Len(run[p].program)

\* The access at hand is through; what it has read is kept.
Onward(r, value) ==
  [r EXCEPT !.at = r.at + 1, !.phase = "begin", !.held = None, !.seen[r.at] = value]

Advances(p, value) ==
  run' = [run EXCEPT ![p] = IF IsLast(p) THEN Ended("done") ELSE Onward(run[p], value)]

\* A command that fails does nothing more, and removes its temporary file.
EndsEarly(p) == run' = [run EXCEPT ![p] = Ended("failed")]

\* Somebody changes a file: who is running, and cares?
Noticed(f, others) ==
  disturbed \cup {run[q].n : q \in {r \in others : Running(r) /\ f \in Concerns(run[r].cmd)}}

Becomes(f, content, traces) ==
  /\ dir' = [dir EXCEPT ![f] = content]
  /\ past' = [past EXCEPT ![f] = @ \cup {content} \cup traces]

Untouched == UNCHANGED <<platform, dir, past, litter>>

-----------------------------------------------------------------------------
(* Starting and reading *)

\* An empty directory, or one that holds the results of an extract and a plan.
Init ==
  /\ platform \in Platforms
  /\ \/ dir = [f \in File |-> None]
     \/ LET plan == [by |-> 0, acls |-> 0, sha |-> 0, inventory |-> 0, edits |-> 0]
        IN  dir = [f \in File |-> IF f \in {"acls", "bindings"} THEN 0 ELSE plan]
  /\ past = [f \in File |-> {dir[f]}]
  /\ litter = {}
  /\ run = [p \in Proc |-> Ended("failed")]
  /\ started = 0 /\ edits = 0 /\ deaths = 0
  /\ checked = {dir["plan"]} \ {None}
  /\ loose = {} /\ disturbed = {}
  /\ whole = {dir["bindings"]} \ {None}

\* apply waits for nobody: it fails if another holds the lock.
Start(p) ==
  /\ ~Running(p) /\ started < MaxCommands[platform]
  /\ \E c \in Command : \E program \in Programs(c) :
       /\ c = "apply" => \A q \in Proc : run[q].cmd # "apply"
       /\ run' = [run EXCEPT ![p] = [cmd |-> c, n |-> started + 1, program |-> program, at |-> 1,
                                     phase |-> "begin", held |-> None, seen |-> Nothing]]
       /\ disturbed' = disturbed \cup
            {n \in {started + 1} : c = "plan" /\ \E q \in Proc : run[q].cmd = "extract"}
  /\ started' = started + 1
  /\ Untouched /\ UNCHANGED <<edits, deaths, checked, loose, whole>>

\* On Windows it matters how long a file is open.
Open(p) ==
  /\ platform = "windows" /\ Doing(p, "get", "begin")
  /\ run' = [run EXCEPT ![p].phase = "open", ![p].held = dir[Now(p)]]
  /\ Untouched /\ UNCHANGED <<counts, history>>

Reads(p) == Doing(p, "get", IF platform = "windows" THEN "open" ELSE "begin")

\* An opened file stays what it was although it is replaced; but os.WriteFile writes
\* into the same file.
Content(p) ==
  IF platform = "windows" /\ Now(p) \in Atomic THEN run[p].held ELSE dir[Now(p)]

\* Mutant: apply compares nothing.
Trusted(p, content) == FALSE

\* VerifyChecksum, of apply.
Mismatch(p, content) ==
  run[p].cmd = "apply" /\ run[p].at = 2 /\ content # run[p].seen[1]

\* Mutant: a file that cannot be parsed is one that is empty.
TornIsEmpty(p, content) ==
  run[p].cmd # "status" /\ content = None /\ Now(p) # "bindings"

\* Without a file, or with one that is not whole, nothing goes on, except that there
\* need be no inventory and that status goes on without.
Unusable(p, content) ==
  /\ run[p].cmd # "status"
  /\ content = Torn \/ (content = None /\ Now(p) # "bindings")

Read(p) ==
  /\ Reads(p)
  /\ ~Unusable(p, Content(p)) /\ ~Mismatch(p, Content(p))
  /\ Advances(p, Content(p))
  /\ checked' = checked \cup (IF run[p].cmd = "revalidate" /\ run[p].at = 1 THEN {Content(p)} ELSE {})
  /\ Untouched /\ UNCHANGED <<counts, loose, disturbed, whole>>

ReadFails(p) ==
  /\ Reads(p)
  /\ Unusable(p, Content(p)) \/ Mismatch(p, Content(p))
  /\ EndsEarly(p)
  /\ Untouched /\ UNCHANGED <<counts, history>>

-----------------------------------------------------------------------------
(* Writing *)

\* What a command writes: what it found, or the hash of the file it has just read.
New(p) ==
  LET seen == run[p].seen
  IN  CASE Now(p) = "plan" -> [by |-> run[p].n, acls |-> seen[1], inventory |-> seen[2],
                               sha |-> seen[3], edits |-> 0]
        [] Now(p) = "sum"  -> seen[run[p].at - 1]
        [] OTHER           -> run[p].n

Reaches(p, phase) ==
  /\ run' = [run EXCEPT ![p].phase = phase]
  /\ Untouched /\ UNCHANGED <<counts, history>>

\* Mutant: the sync is left out.
WriteUnsynced(p) == Doing(p, "put", "begin") /\ Reaches(p, "written")

\* WriteAtomic up to the rename: create, write, sync, close, chmod.
WriteTemp(p) == Doing(p, "put", "begin") /\ Reaches(p, "synced")

HeldOpen(p, f) == \E q \in Proc \ {p} : Doing(q, "get", "open") /\ Now(q) = f

\* On Windows a file that somebody has open is not replaced.
MayRename(p) == platform = "windows" => ~HeldOpen(p, Now(p))

\* The file has its new content: what is not synced is lost in a power loss that the
\* name survives.
Land(p) ==
  /\ Becomes(Now(p), New(p), IF run[p].phase = "synced" THEN {} ELSE {Torn})
  /\ Advances(p, None)
  /\ disturbed' = Noticed(Now(p), Proc \ {p})
  /\ checked' = checked \cup (IF Now(p) = "plan" THEN {New(p)} ELSE {})
  /\ loose' = loose \cup (IF Now(p) = "sum" /\ run[p].n \in disturbed THEN {New(p)} ELSE {})
  /\ UNCHANGED <<platform, litter, counts, whole>>

Rename(p) ==
  /\ Doing(p, "put", "synced") \/ Doing(p, "put", "written")
  /\ MayRename(p) /\ Land(p)

\* renameWithRetry on Windows: where rename does not replace, remove and try again.
RemoveFirst(p) ==
  /\ platform = "windows" /\ Doing(p, "put", "synced")
  /\ dir[Now(p)] # None /\ ~HeldOpen(p, Now(p))
  /\ Becomes(Now(p), None, {})
  /\ disturbed' = Noticed(Now(p), Proc \ {p})
  /\ UNCHANGED <<platform, litter, run, counts, checked, loose, whole>>

\* os.WriteFile truncates, then writes.
Truncate(p) ==
  /\ Doing(p, "dump", "begin")
  /\ Becomes(Now(p), Torn, {})
  /\ run' = [run EXCEPT ![p].phase = "written"]
  /\ disturbed' = Noticed(Now(p), Proc \ {p})
  /\ whole' = IF run[p].n \in disturbed THEN {} ELSE whole
  /\ UNCHANGED <<platform, litter, counts, checked, loose>>

Fill(p) ==
  /\ Doing(p, "dump", "written")
  /\ Becomes(Now(p), run[p].n, {})
  /\ Advances(p, None)
  /\ disturbed' = Noticed(Now(p), Proc \ {p})
  /\ whole' = IF run[p].n \in disturbed THEN {}
              ELSE IF IsLast(p) THEN {run[p].n} ELSE whole
  /\ UNCHANGED <<platform, litter, counts, checked, loose>>

\* An error of the file system or of what was read; on Windows also a rename that has
\* waited for the reader long enough.
Fails(p) ==
  /\ Running(p)
  /\ EndsEarly(p)
  /\ Untouched /\ UNCHANGED <<counts, history>>

-----------------------------------------------------------------------------
(* The world around *)

HasTemp(p) == Doing(p, "put", "written") \/ Doing(p, "put", "synced")

Kill(p) ==
  /\ Running(p) /\ deaths < MaxDeaths
  /\ EndsEarly(p)
  /\ litter' = litter \cup (IF HasTemp(p) THEN {run[p].n} ELSE {})
  /\ deaths' = deaths + 1
  /\ UNCHANGED <<platform, dir, past, started, edits, history>>

\* All that runs is gone, and so may be what was renamed: the directory is never synced.
PowerLoss ==
  /\ deaths < MaxDeaths
  /\ \E a \in past["acls"], b \in past["bindings"], c \in past["plan"], s \in past["sum"] :
       dir' = [acls |-> a, bindings |-> b, plan |-> c, sum |-> s]
  /\ past' = [f \in File |-> {dir'[f]}]
  /\ run' = [p \in Proc |-> Ended("failed")]
  /\ litter' = litter \cup {run[p].n : p \in {q \in Proc : HasTemp(q)}}
  /\ deaths' = deaths + 1
  /\ whole' = {}
  /\ UNCHANGED <<platform, started, edits, checked, loose, disturbed>>

\* A user saves plan.json.
Edit ==
  /\ edits < MaxEdits /\ dir["plan"] \in Plan
  /\ Becomes("plan", [dir["plan"] EXCEPT !.edits = edits + 1], {})
  /\ edits' = edits + 1
  /\ disturbed' = Noticed("plan", Proc)
  /\ UNCHANGED <<platform, litter, run, started, deaths, checked, loose, whole>>

Step(p) ==
  \/ Start(p)
  \/ Open(p) \/ Read(p) \/ ReadFails(p)
  \/ WriteTemp(p) \/ Rename(p) \/ RemoveFirst(p)
  \/ Truncate(p) \/ Fill(p)
  \/ Fails(p)

Next == PowerLoss \/ Edit \/ \E p \in Proc : Step(p) \/ Kill(p)

Spec == Init /\ [][Next]_vars

-----------------------------------------------------------------------------
(* Properties *)

TypeOK ==
  /\ platform \in Platforms
  /\ DOMAIN dir = File /\ \A f \in File : dir[f] \in Whole(f) \cup {None, Torn}
  /\ started \in Number /\ edits \in 0..MaxEdits /\ deaths \in 0..MaxDeaths
  /\ litter \subseteq Number
  /\ \A p \in Proc :
       /\ run[p].n \in 0..started /\ run[p].at \in 1..6
       /\ run[p].phase \in {"begin", "open", "written", "synced", "failed", "done"}
  /\ checked \subseteq Plan /\ loose \subseteq Plan /\ whole \subseteq Number
  /\ disturbed \subseteq Number

\* atomic.go:14-22: acls.json, plan.json and its checksum are whole at any time, also
\* after a crash, and only a killed command leaves a temporary file.
Promise ==
  INSTANCE AtomicFiles WITH
    File <- Atomic,
    file <- [f \in Atomic |-> dir[f]], past <- [f \in Atomic |-> past[f]]

AtomicSpec == Promise!AtomicSpec

\* The step with which a command succeeds.
Succeeds(p, cs) == run[p].cmd \in cs /\ Running(p) /\ run'[p].phase = "done"

\* checksum.go:34-56: a plan that apply executes, or that status calls checked, is one as
\* plan wrote it or --revalidate read it, not one edited since, half-replaced or put
\* back by a crash, unless somebody replaced plan.json under a command that was stamping
\* it or under the reader itself.  It need not be the plan VerifyChecksum hashed: apply.go:195-199
\* has the lock see to that, but plan takes no lock, and a plan it writes counts as checked.
VouchedIsChecked ==
  [][\A p \in Proc :
       LET seen == run[p].seen IN
       run[p].n \notin disturbed =>
         /\ Succeeds(p, {"apply"}) => Content(p) \in checked \cup loose
         /\ Succeeds(p, {"status"}) /\ seen[1] \in Plan /\ Content(p) = seen[2]
              => seen[1] \in checked \cup loose]_vars

\* cmd_pipeline.go:145-171: a plan made while no extract runs, from an extract that left
\* an inventory, has the hash of the rows it was made from and the inventory found with
\* them, whatever was killed before.
PlanFitsExtract ==
  dir["plan"] # None =>
    LET plan == dir["plan"]
    IN  plan.by \notin disturbed /\ plan.acls \in whole =>
          plan.sha = plan.acls /\ plan.inventory = plan.acls

\* checksum.go:15-17: when plan or --revalidate has returned, and nobody else has
\* interfered, apply finds plan.json and its checksum in agreement, whatever was there
\* before.
UsableOnceStamped ==
  [][\A p \in Proc :
       Succeeds(p, {"plan", "revalidate"}) /\ run[p].n \notin disturbed
         => dir'["sum"] = dir'["plan"]]_vars

(* The inductive strengthening *)

Contents(f) == Whole(f) \cup {None} \cup (IF f = "bindings" THEN {Torn} ELSE {})

Usable(f) == Whole(f) \cup (IF f = "bindings" THEN {None} ELSE {})

FilesTyped ==
  /\ DOMAIN past = File
  /\ \A f \in File : dir[f] \in Contents(f) /\ past[f] \subseteq Contents(f)

Phases == [get |-> {"begin", "open"}, put |-> {"begin", "synced"}, dump |-> {"begin", "written"}]

\* A command is somewhere in its program, and what it has read is of use to it.
InProgram(p) ==
  /\ DOMAIN run[p] = {"cmd", "n", "program", "at", "phase", "held", "seen"}
  /\ DOMAIN run[p].seen = 1..6
  /\ Running(p) =>
       LET r == run[p] IN
        /\ r.cmd \in Command /\ r.program \in Programs(r.cmd) /\ r.at \in 1..Len(r.program)
        /\ r.phase \in Phases[Access(p).do]
        /\ r.phase = "open" => r.held \in Contents(Now(p))
        /\ \A i \in 1..(r.at - 1) :
             r.program[i].do = "get" /\ r.cmd # "status" => r.seen[i] \in Usable(r.program[i].file)

FilesInv == TypeOK /\ FilesTyped /\ DOMAIN run = Proc /\ \A p \in Proc : InProgram(p)

\* A checksum, also one that a power loss may bring back, is of a plan that was checked,
\* or stamped under somebody's edit.
SumsKnown == past["sum"] \cup {dir["sum"]} \subseteq checked \cup loose \cup {None}

\* A command nobody has interfered with has read what is there now,
UpToDate(p) ==
  /\ \A i \in 1..(run[p].at - 1) :
       run[p].program[i].do = "get" => run[p].seen[i] = dir[run[p].program[i].file]
  /\ run[p].phase = "open" => run[p].held = dir[Now(p)]

\* and once it has written or read plan.json that plan is checked.
Judged(p) ==
  (run[p].cmd = "plan" /\ run[p].at > 4) \/ (run[p].cmd = "revalidate" /\ run[p].at > 1)
    => dir["plan"] \in checked

\* apply has found plan.json and its checksum in agreement before it reads the plan.
Agreed(p) == run[p].cmd = "apply" /\ run[p].at > 2 => run[p].seen[1] = run[p].seen[2]

InStep(p) ==
  /\ Agreed(p)
  /\ Running(p) /\ run[p].n \notin disturbed => UpToDate(p) /\ Judged(p)

StampInv == FilesInv /\ SumsKnown /\ \A p \in Proc : InStep(p)

Extracting(e) == run[e].cmd = "extract"

Planning(q) == run[q].cmd = "plan" /\ run[q].n \notin disturbed

\* A number stands for one command, and what it has written is not there before.
Numbered ==
  /\ \A p, q \in Proc : Running(p) /\ Running(q) /\ run[p].n = run[q].n => p = q
  /\ dir["acls"] \in past["acls"] /\ dir["plan"] \in past["plan"]
  /\ past["acls"] \cup whole \subseteq 0..started \cup {None}
  /\ \A plan \in past["plan"] \ {None} : plan.by \notin disturbed => plan.acls \in 0..started

\* An extract under way has left nothing that a plan could have found, unless that plan
\* is disturbed.
Apart(e) ==
  Extracting(e) =>
    /\ run[e].n \notin whole
    /\ run[e].at = 1 => run[e].n \notin past["acls"]
    /\ run[e].at > 1 /\ run[e].n \notin disturbed => dir["acls"] = run[e].n
    /\ dir["plan"] # None /\ dir["plan"].by \notin disturbed => dir["plan"].acls # run[e].n
    /\ \A q \in Proc : Planning(q) => run[e].at = 1

\* The rows of a whole extract have their inventory beside them.
WholeFits == \A w \in whole : dir["acls"] = w => dir["bindings"] = w

FitInv == StampInv /\ Numbered /\ (\A e \in Proc : Apart(e)) /\ WholeFits /\ PlanFitsExtract

=============================================================================
