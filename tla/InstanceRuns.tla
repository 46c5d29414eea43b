---------------------------- MODULE InstanceRuns ----------------------------
(***************************************************************************)
(* The commands of src/cli.js that take one directory of MariaDB           *)
(* migrations to every instance of a config: up-all, validate-all,         *)
(* test-instances and test-all; and sync, validate and test for a single   *)
(* one, with the email that sync leaves; with runUpDownUpTest() of         *)
(* src/core/base-adapter.js, the expectations of fixtures                  *)
(* (src/core/fixture-expectations.js) and the validation of Validation.tla *)
(* against schemas that really change (Schema.tla).                        *)
(*                                                                         *)
(* A project is chosen at the start: the files, the config, what is        *)
(* already applied where, and the command.  Files and changelog belong to  *)
(* this run alone (MariaMigrate.tla has the interleavings and the crashes);*)
(* here a whole file is one step, in which the server refuses a statement  *)
(* for what it does to the schema, or anything fails, MaxFaults times.     *)
(***************************************************************************)
EXTENDS Validation, FiniteSets

CONSTANTS
  Families,    \* sets of projects, with the commands to run
  MaxFaults    \* bound: failures that are not the schema's doing

Commands == {"up-all", "sync", "validate", "validate-all", "test",
             "test-instances", "test-all"}

ReleaseFlags == [dangerous : BOOLEAN, forbidden : BOOLEAN,
                 codes : SUBSET STRING, approver : BOOLEAN]

(* A file: its sections, its annotations, and what a fixture says of its   *)
(* validation (expect) and of its checks (check, rollback).                *)
Migrations ==
  [up : Seq(Statements), down : Seq(Statements), marker : BOOLEAN,
   ann : ReleaseFlags, expect : SUBSET STRING,
   check : {"none", "pre", "post", "pass"}, rollback : BOOLEAN]

ASSUME ProjectAssumption ==
  \A family \in Families : \A p \in family :
    /\ p.files \in Seq(Migrations) /\ p.base \subseteq Tables
    /\ p.instances \in Nat /\ p.command \in Commands
    /\ \A i \in 1..p.instances : p.applied[i] \in 0..Len(p.files)
    /\ p.flags \in ReleaseFlags

VARIABLES
  project,     \* what was chosen
  flags,       \* --allow-dangerous, --allow-forbidden, --allow, --approved-by
  attempt,     \* 1, or 2: up-all run again with the --allow it suggested
  pc,          \* instance -> where the command is with it
  schema,      \* instance -> its tables
  log,         \* instance -> the files in its changelog
  mem,         \* instance -> what the run remembers of it
  failed,      \* instances with an error, or a failed test result
  mail,        \* instance -> the notification email of sync
  faults       \* how many have happened

(* History variables: no action of the program reads them.                 *)
VARIABLES
  ran,         \* instance -> files whose Up was begun by up-all
  lost,        \* instance -> <<file, table>>: dropped or emptied by that Up
  stuck,       \* instance -> <<file, statement>> that the server refused
  reached,     \* instance -> its tables when every file was applied first
  kept,        \* instance -> files still applied when sanity checks began
  hints        \* instance -> the Hint of the refusal of attempt 1

vars == <<project, flags, attempt, pc, schema, log, mem, failed, mail, faults,
          ran, lost, stuck, reached, kept, hints>>

history == <<ran, lost, stuck, reached, kept, hints>>

N == Len(project.files)
Files == 1..N
Instances == 1..project.instances

UpStages == {"up", "up1", "up2"}
DownStages == {"down1", "cleanup", "clear"}
Stages == {"connect", "judge", "gate", "before", "after", "validate",
           "snapshot", "sanity", "done"} \cup UpStages \cup DownStages

Pending(i) == Files \ log[i]
First(S) == CHOOSE n \in S : \A m \in S : n <= m
Newest(S) == CHOOSE n \in S : \A m \in S : m <= n
File(n) == project.files[n]

Ended == \A i \in Instances : pc[i] = "done"
ExitZero == Ended /\ failed = {}

Empty == [tables |-> {}, keys |-> {}, wide |-> {}]
NoHint == [codes |-> {}, needsFix |-> FALSE]
NoMemory == [count |-> 0, before |-> Empty, applied |-> {}]
NoMail == [status |-> "none", applied |-> {}]

(* The schema that the first n files leave behind.                         *)
Applied(p, n) ==
  LET after[k \in 0..n] ==
        IF k = 0 THEN [Empty EXCEPT !.tables = p.base]
        ELSE LET up == p.files[k].up IN After(after[k - 1], up, Len(up))
  IN  after[n]

(* Each instance has some of the files applied already, in order: they     *)
(* completed there, and the files have not changed since.                  *)
Init ==
  /\ \E family \in Families : project \in family
  /\ flags = project.flags
  /\ attempt = 1
  /\ pc = [i \in Instances |-> "connect"]
  /\ log = [i \in Instances |-> 1..project.applied[i]]
  /\ \A i \in Instances : \A n \in log[i] :
       /\ File(n).marker
       /\ Completes(Applied(project, n - 1), File(n).up)
  /\ schema = [i \in Instances |-> Applied(project, project.applied[i])]
  /\ mem = [i \in Instances |-> NoMemory]
  /\ failed = {}
  /\ mail = [i \in Instances |-> NoMail]
  /\ faults = 0
  /\ ran = [i \in Instances |-> {}]
  /\ lost = [i \in Instances |-> {}]
  /\ stuck = [i \in Instances |-> {}]
  /\ reached = [i \in Instances |-> {}]
  /\ kept = [i \in Instances |-> {}]
  /\ hints = [i \in Instances |-> NoHint]

(***************************************************************************)
(* Where the command goes next.                                            *)
(***************************************************************************)
(* One instance after the other, except for test-instances --parallel.     *)
Turn(i) == project.parallel \/ \A j \in 1..(i - 1) : pc[j] = "done"

Goto(i, stage) == pc' = [pc EXCEPT ![i] = stage]

(* An error, or a failed result: the exit code will be 1.                  *)
Fails(i) == failed' = failed \cup {i}

(* test-all --sanity-check goes on whatever the Up-Down-Up test showed.    *)
AfterTest == IF project.sanity THEN "clear" ELSE "done"

(* What a failed sync mails as applied: only errors of up() itself come    *)
(* with the files before them, and only if the first attempt to write the  *)
(* email succeeds.                                                         *)
MailedAsApplied(i) ==
  {{}} \cup IF pc[i] = "up" THEN {mem[i].applied} ELSE {}

(* The email of a failed sync, unless that cannot be written at all.       *)
MailsFailure(i) ==
  IF project.command # "sync" THEN UNCHANGED mail
  ELSE \/ UNCHANGED mail
       \/ \E applied \in MailedAsApplied(i) :
            mail' = [mail EXCEPT ![i] = [status |-> "failed",
                                         applied |-> applied]]

(* Where an error leads, by the stage it comes up in: up() stops, and with *)
(* it the command for this instance; the test rolls back and fails; a      *)
(* failing roll-back in front of the sanity checks goes unnoticed.         *)
Stops(i) ==
  /\ CASE pc[i] \in {"up1", "up2", "down1"} ->
            Goto(i, "cleanup") /\ UNCHANGED failed
       [] pc[i] = "cleanup" -> Goto(i, AfterTest) /\ Fails(i)
       [] pc[i] = "clear" -> Goto(i, "snapshot") /\ UNCHANGED failed
       [] OTHER -> Goto(i, "done") /\ Fails(i)
  /\ MailsFailure(i)

Fault == faults < MaxFaults /\ faults' = faults + 1

(* What the command does first with an instance.                           *)
Begins ==
  CASE project.command \in {"up-all", "sync"} -> "gate"
    [] project.command \in {"validate", "validate-all"} -> "judge"
    [] project.command = "test" -> "up1"
    [] project.command \in {"test-instances", "test-all"} -> "validate"

(* The config is loaded and connect() called; where that fails, it fails   *)
(* for this instance, and the others are not affected.                     *)
Connect(i) ==
  /\ pc[i] = "connect" /\ Turn(i)
  /\ \/ Goto(i, Begins) /\ UNCHANGED <<failed, mail, faults>>
     \/ Fault /\ Goto(i, "done") /\ Fails(i) /\ MailsFailure(i)
  /\ UNCHANGED <<project, flags, attempt, schema, log, mem, history>>

(* A status() or a snapshot throws.  In front of the sanity checks nothing *)
(* catches it but the loop over the instances.                             *)
QueryFails(i) ==
  /\ pc[i] \in UpStages \cup DownStages
                \cup {"gate", "before", "after", "snapshot", "sanity"}
  /\ Fault
  /\ IF pc[i] = "clear"
     THEN Goto(i, "done") /\ Fails(i) /\ UNCHANGED mail
     ELSE Stops(i)
  /\ UNCHANGED <<project, flags, attempt, schema, log, mem, history>>

(***************************************************************************)
(* validate and validate-all, with the flags that up and sync take.        *)
(***************************************************************************)
(* --pending-only: what up and sync would check.                           *)
Judged(i) == IF project.pendingOnly THEN Pending(i) ELSE Files

(* Files that cannot be read are a failure.                                *)
Judge(i) ==
  /\ pc[i] = "judge"
  /\ Goto(i, "done")
  /\ \/ /\ IF \A n \in Judged(i) : Passes(project, flags, n)
           THEN UNCHANGED failed ELSE Fails(i)
        /\ UNCHANGED faults
     \/ Fault /\ Fails(i)
  /\ UNCHANGED <<project, flags, attempt, schema, log, mem, mail, history>>

(***************************************************************************)
(* up-all and sync.                                                        *)
(***************************************************************************)
NothingToSync(i) == project.command = "sync" /\ Pending(i) = {}

(* enforceValidationGate() on what is pending here; the gates on changelog *)
(* and checksums, which MariaMigrate.tla has, find nothing.  --dry-run     *)
(* reports the verdict in its exit code and executes nothing.              *)
Gate(i) ==
  /\ pc[i] = "gate"
  /\ ~NothingToSync(i)
  /\ LET failing == {n \in Pending(i) : ~Passes(project, flags, n)}
     IN  /\ Goto(i, IF failing # {} \/ project.dryRun THEN "done"
                    ELSE IF project.command = "sync" THEN "before" ELSE "up")
         /\ IF failing # {} THEN Fails(i) /\ MailsFailure(i)
            ELSE UNCHANGED <<failed, mail>>
         /\ hints' = IF attempt = 1 /\ failing # {}
                     THEN [hints EXCEPT ![i] = Hint(project, flags, failing)]
                     ELSE hints
  /\ UNCHANGED <<project, flags, attempt, schema, log, mem, faults,
                 ran, lost, stuck, reached, kept>>

(* Nothing pending is an error for sync, and the email says so.            *)
NothingIsAnError(i) ==
  /\ pc[i] = "gate"
  /\ NothingToSync(i)
  /\ Goto(i, "done")
  /\ Fails(i)
  /\ mail' \in {mail, [mail EXCEPT ![i].status = "skipped"],
                [mail EXCEPT ![i].status = "failed"]}
  /\ UNCHANGED <<project, flags, attempt, schema, log, mem, faults, history>>

(* The schema is looked at before up() and after it.                       *)
LookBefore(i) ==
  /\ pc[i] = "before"
  /\ mem' = [mem EXCEPT ![i].before = schema[i]]
  /\ Goto(i, "up")
  /\ UNCHANGED <<project, flags, attempt, schema, log, failed, mail, faults,
                 history>>

(* If the email cannot be written, everything is applied all the same.     *)
Report(i) ==
  /\ pc[i] = "after"
  /\ Goto(i, "done")
  /\ \/ /\ mail' = [mail EXCEPT ![i] = [status |-> "applied",
                                         applied |-> mem[i].applied]]
        /\ UNCHANGED <<failed, faults>>
     \/ Fault /\ Fails(i) /\ UNCHANGED mail
  /\ UNCHANGED <<project, flags, attempt, schema, log, mem, history>>

(* The operator follows the advice: nothing was applied, the findings were *)
(* reviewed, and up-all runs again with --allow and the codes it printed.  *)
RunAgain ==
  /\ project.command = "up-all" /\ ~project.dryRun
  /\ Ended /\ attempt = 1 /\ faults = 0
  /\ \E i \in Instances : hints[i].codes # {}
  /\ \A i \in Instances : ran[i] \subseteq log[i]
  /\ attempt' = 2
  /\ flags' = [flags EXCEPT !.codes =
                 @ \cup UNION {hints[i].codes : i \in Instances}]
  /\ pc' = [i \in Instances |-> "connect"]
  /\ failed' = {}
  /\ UNCHANGED <<project, schema, log, mem, mail, faults, history>>

(***************************************************************************)
(* up() and down(), file by file.                                          *)
(***************************************************************************)
(* History: what up-all did to the tables that were there.                 *)
Remember(i, n, reach) ==
  LET up == File(n).up
      gone == schema[i].tables \ schema'[i].tables
      emptied == {up[k].table : k \in {x \in 1..reach : up[x].op = "empty"}}
  IN  IF pc[i] # "up" THEN UNCHANGED <<ran, lost>>
      ELSE /\ ran' = [ran EXCEPT ![i] = @ \cup {n}]
           /\ lost' = [lost EXCEPT ![i] =
                         @ \cup {<<n, t>> : t \in gone \cup emptied}]

(* A section's statements take effect up to the one the server refuses, or *)
(* fewer if something else fails; the row is written after the last.       *)
UpFile(i) ==
  /\ pc[i] \in UpStages /\ Pending(i) # {}
  /\ LET n == First(Pending(i))
         up == File(n).up
         reach == Reach(schema[i], up)
     IN  /\ File(n).marker
         /\ \/ /\ reach = Len(up)
               /\ log' = [log EXCEPT ![i] = @ \cup {n}]
               /\ schema' = [schema EXCEPT ![i] = After(@, up, reach)]
               /\ mem' = IF pc[i] = "up" THEN [mem EXCEPT ![i].applied =
                                                 @ \cup {n}]
                         ELSE mem
               /\ Remember(i, n, reach)
               /\ UNCHANGED <<pc, failed, mail, faults, stuck>>
            \/ /\ reach < Len(up)
               /\ schema' = [schema EXCEPT ![i] = After(@, up, reach)]
               /\ Remember(i, n, reach)
               /\ stuck' = IF pc[i] # "up" THEN stuck
                           ELSE [stuck EXCEPT ![i] = {<<n, up[reach + 1]>>}]
               /\ Stops(i)
               /\ UNCHANGED <<log, mem, faults>>
            \/ /\ Fault
               /\ \E k \in 0..reach :
                    /\ schema' = [schema EXCEPT ![i] = After(@, up, k)]
                    /\ Remember(i, n, k)
               /\ Stops(i)
               /\ UNCHANGED <<log, mem, stuck>>
  /\ UNCHANGED <<project, flags, attempt, reached, kept, hints>>

(* A file without the Up marker: up() throws before anything executes.     *)
UpRejects(i) ==
  /\ pc[i] \in UpStages /\ Pending(i) # {}
  /\ ~File(First(Pending(i))).marker
  /\ Stops(i)
  /\ UNCHANGED <<project, flags, attempt, schema, log, mem, faults, history>>

(* Mutant: hasErrors is set from the last instance's result.               *)
UpEndForgets(i) ==
  /\ pc[i] \in UpStages /\ Pending(i) = {}
  /\ CASE pc[i] = "up" /\ project.command = "sync" -> Goto(i, "after")
       [] pc[i] = "up" /\ project.command # "sync" -> Goto(i, "done")
       [] pc[i] = "up1" -> Goto(i, "down1")
       [] pc[i] = "up2" /\ Cardinality(log[i]) = mem[i].count ->
            Goto(i, AfterTest)
       [] OTHER -> Goto(i, "cleanup")
  /\ failed' = {}
  /\ UNCHANGED mail
  /\ mem' = [mem EXCEPT ![i].count = 0]
  /\ reached' = IF pc[i] = "up1"
                THEN [reached EXCEPT ![i] = schema[i].tables] ELSE reached
  /\ UNCHANGED <<project, flags, attempt, schema, log, faults,
                 ran, lost, stuck, kept, hints>>

(* Nothing is pending any more.  After the second up the test compares how *)
(* many files it applied with how many it had rolled back.                 *)
UpEnd(i) ==
  /\ pc[i] \in UpStages /\ Pending(i) = {}
  /\ CASE pc[i] = "up" /\ project.command = "sync" -> Goto(i, "after")
       [] pc[i] = "up" /\ project.command # "sync" -> Goto(i, "done")
       [] pc[i] = "up1" -> Goto(i, "down1")
       [] pc[i] = "up2" /\ Cardinality(log[i]) = mem[i].count ->
            Goto(i, AfterTest)
       [] OTHER -> Goto(i, "cleanup")
  /\ mem' = [mem EXCEPT ![i].count = 0]
  /\ reached' = IF pc[i] = "up1"
                THEN [reached EXCEPT ![i] = schema[i].tables] ELSE reached
  /\ UNCHANGED <<project, flags, attempt, schema, log, failed, mail,
                 faults, ran, lost, stuck, kept, hints>>

(* down(): the row goes first, and comes back if Down fails.  Nothing to   *)
(* roll back with is an error.                                             *)
DownFile(i) ==
  /\ pc[i] \in DownStages /\ log[i] # {}
  /\ LET n == Newest(log[i])
         down == File(n).down
         reach == Reach(schema[i], down)
     IN  \/ /\ down # <<>> /\ reach = Len(down)
            /\ log' = [log EXCEPT ![i] = @ \ {n}]
            /\ schema' = [schema EXCEPT ![i] = After(@, down, reach)]
            /\ mem' = [mem EXCEPT ![i].count = @ + 1]
            /\ UNCHANGED <<pc, failed, mail, faults>>
         \/ /\ down = <<>> \/ reach < Len(down)
            /\ schema' = [schema EXCEPT ![i] = After(@, down, reach)]
            /\ Stops(i)
            /\ UNCHANGED <<log, mem, faults>>
         \/ /\ down # <<>> /\ Fault
            /\ \E k \in 0..reach :
                 schema' = [schema EXCEPT ![i] = After(@, down, k)]
            /\ log' \in {log, [log EXCEPT ![i] = @ \ {n}]}
            /\ Stops(i)
            /\ UNCHANGED mem
  /\ UNCHANGED <<project, flags, attempt, history>>

(* Everything is rolled back.  The sanity checks start from a snapshot.    *)
DownEnd(i) ==
  /\ pc[i] \in DownStages /\ log[i] = {}
  /\ CASE pc[i] = "down1" -> Goto(i, "up2") /\ UNCHANGED failed
       [] pc[i] = "cleanup" -> Goto(i, AfterTest) /\ Fails(i)
       [] pc[i] = "clear" -> Goto(i, "snapshot") /\ UNCHANGED failed
  /\ UNCHANGED <<project, flags, attempt, schema, log, mem, mail, faults,
                 history>>

(***************************************************************************)
(* test-instances and test-all: validation of every file, without flags.   *)
(***************************************************************************)
(* @expect-error: the file must fail with exactly the codes it declares.   *)
AsExpected(n) ==
  CodesOf(Findings(project, NoRelease, n)) = File(n).expect

ExpectsRejections == \E n \in Files : File(n).expect # {}

(* test-instances goes on to the test although validation failed; test-all *)
(* skips it for directories with files that are meant to be rejected.  If  *)
(* the files cannot be read, no file is judged, which counts as a failure. *)
Validate(i) ==
  /\ pc[i] = "validate"
  /\ LET good == IF project.command = "test-all"
                 THEN \A n \in Files : AsExpected(n)
                 ELSE \A n \in Files : Passes(project, NoRelease, n)
         skips == \/ project.validateOnly
                  \/ project.command = "test-all" /\ ExpectsRejections
     IN  \/ /\ Goto(i, IF skips THEN "done" ELSE "up1")
            /\ IF good THEN UNCHANGED failed ELSE Fails(i)
            /\ UNCHANGED faults
         \/ /\ Fault
            /\ Goto(i, IF project.validateOnly THEN "done" ELSE "up1")
            /\ Fails(i)
  /\ UNCHANGED <<project, flags, attempt, schema, log, mem, mail, history>>

(***************************************************************************)
(* test-all --sanity-check.                                                *)
(***************************************************************************)
(* diffSchemaSnapshots(): tables and their columns, and whether a column   *)
(* is in a key; not which table that key references.                       *)
SameSchema(before, after) ==
  /\ before.tables = after.tables
  /\ before.wide = after.wide
  /\ {k[1] : k \in before.keys} = {k[1] : k \in after.keys}

Snapshot(i) ==
  /\ pc[i] = "snapshot"
  /\ mem' = [mem EXCEPT ![i].count = 0, ![i].before = schema[i]]
  /\ Goto(i, "sanity")
  /\ kept' = [kept EXCEPT ![i] = log[i]]
  /\ UNCHANGED <<project, flags, attempt, schema, log, failed, mail, faults,
                 ran, lost, stuck, reached, hints>>

(* upWithSanityCheck(), one file: its row is written before the post-check; *)
(* if that fails, Down is executed and the row deleted (nothing at all     *)
(* without a Down), and the run stops.  The result is judged by            *)
(* @expect-sanity, and a rollback of the only file by the schema as well.  *)
SanityFile(i) ==
  /\ pc[i] = "sanity" /\ Pending(i) # {}
  /\ LET n == First(Pending(i))
         f == File(n)
         reach == Reach(schema[i], f.up)
         up == After(schema[i], f.up, reach)
         undo == Reach(up, f.down)
         down == After(up, f.down, undo)
         runs == f.marker /\ f.check # "pre"
         recorded == [log EXCEPT ![i] = @ \cup {n}]
     IN  \/ /\ ~runs \/ reach < Len(f.up)
            /\ schema' = IF runs THEN [schema EXCEPT ![i] = up] ELSE schema
            /\ Stops(i)
            /\ UNCHANGED <<log, mem, faults>>
         \/ /\ runs /\ Fault
            /\ \/ /\ \E k \in 0..reach :
                       schema' = [schema EXCEPT ![i] = After(@, f.up, k)]
                  /\ UNCHANGED log
               \/ /\ reach = Len(f.up) /\ f.check = "post"
                  /\ \E k \in 0..undo :
                       schema' = [schema EXCEPT ![i] = After(up, f.down, k)]
                  /\ log' = recorded
            /\ Stops(i)
            /\ UNCHANGED mem
         \/ /\ runs /\ reach = Len(f.up) /\ f.check # "post"
            /\ schema' = [schema EXCEPT ![i] = up]
            /\ log' = recorded
            /\ mem' = [mem EXCEPT ![i].count = @ + 1]
            /\ IF f.check = "pass" /\ f.rollback THEN Fails(i)
               ELSE UNCHANGED failed
            /\ UNCHANGED <<pc, mail, faults>>
         \/ /\ runs /\ reach = Len(f.up) /\ f.check = "post"
            /\ schema' = [schema EXCEPT ![i] = down]
            /\ log' = IF f.down # <<>> /\ undo = Len(f.down) THEN log
                      ELSE recorded
            /\ IF /\ f.rollback /\ log' = log
                  /\ mem[i].count > 0 \/ SameSchema(mem[i].before, down)
               THEN UNCHANGED failed ELSE Fails(i)
            /\ Goto(i, "done")
            /\ UNCHANGED <<mem, mail, faults>>
  /\ UNCHANGED <<project, flags, attempt, history>>

SanityEnd(i) ==
  /\ pc[i] = "sanity" /\ Pending(i) = {}
  /\ Goto(i, "done")
  /\ UNCHANGED <<project, flags, attempt, schema, log, mem, failed, mail,
                 faults, history>>

Next ==
  \/ \E i \in Instances :
       \/ Connect(i) \/ QueryFails(i) \/ Judge(i) \/ Validate(i)
       \/ Gate(i) \/ NothingIsAnError(i) \/ LookBefore(i) \/ Report(i)
       \/ UpFile(i) \/ UpRejects(i) \/ UpEnd(i)
       \/ DownFile(i) \/ DownEnd(i)
       \/ Snapshot(i) \/ SanityFile(i) \/ SanityEnd(i)
  \/ RunAgain

Spec == Init /\ [][Next]_vars

(***************************************************************************)
(* What the commands must give.                                            *)
(***************************************************************************)
(* No statement of the file mentions a table that another one mentions, so *)
(* the order that the checks do not see does not matter.                   *)
Mentions(s) == IF s.op \in {"child", "rename"} THEN {s.table, s.other}
               ELSE IF s.op = "global" THEN {} ELSE {s.table}

Simple(n) ==
  LET up == File(n).up
  IN  \A j, k \in DOMAIN up :
        j # k => Mentions(up[j]) \cap Mentions(up[k]) = {}

(* Somebody decided to let this finding pass, or set its rule aside.       *)
Decided(n, code) ==
  LET rel == Releases(project, flags, n)
  IN  \/ code \in rel.codes
      \/ code = "SET_GLOBAL" /\ rel.forbidden
      \/ code # "SET_GLOBAL" /\ rel.dangerous
      \/ Setting(project.config, code) \in {"off", "warn"}

(* Nothing was released that is about tables an earlier file must create.  *)
Strict ==
  /\ project.config.existing \subseteq project.base
  /\ \A n \in Files :
       /\ Simple(n) /\ File(n).up # <<>>
       /\ ~Decided(n, "ORPHAN_DROP_UP")
       /\ ~Decided(n, "FK_UNRESOLVED_REFERENCE")

(* The reason to track tables across files: what passes the gate is not    *)
(* refused by the server for dropping, or for referencing, a table that    *)
(* is not there, wherever the instance was when up-all came to it.  Holds  *)
(* for files in which order does not matter, unless Down recreates what Up *)
(* drops, which the check takes for a proof that the table exists.         *)
SoundVerdict ==
  \A i \in Instances : \A e \in stuck[i] : Strict =>
    LET n == e[1]
        s == e[2]
    IN  /\ s.op = "drop" => \/ s.table \in schema[i].tables
                            \/ s.table \in Created(File(n).down)
        /\ s.op = "child" => \/ s.other \in schema[i].tables
                             \/ s.other = s.table

LossCodes(n, t) ==
  UNION {CASE s.op = "drop" -> {"DROP_TABLE", "ORPHAN_DROP_UP"}
           [] s.op = "empty" -> {"TRUNCATE_TABLE"}
           [] s.op = "rename" -> {"RENAME_TABLE"}
           [] OTHER -> {} :
           s \in {x \in In(File(n).up) : x.table = t}}

(* up-all takes no table away and empties none unless somebody decided so, *)
(* or the file's Down brings the table back; and no forbidden statement    *)
(* is executed without a decision, and a name where the project wants one. *)
NothingUnreviewedRuns ==
  \A i \in Instances :
    /\ \A e \in lost[i] :
         Simple(e[1]) => \/ \E code \in LossCodes(e[1], e[2]) :
                             Decided(e[1], code)
                        \/ /\ e[2] \in Created(File(e[1]).down)
                           /\ "TRUNCATE_TABLE" \notin LossCodes(e[1], e[2])
    /\ \A n \in ran[i] :
         (\E s \in In(File(n).up) : s.op = "global") =>
           /\ Decided(n, "SET_GLOBAL")
           /\ \/ ~project.config.requireApprover
              \/ Releases(project, flags, n).approver
              \/ Setting(project.config, "SET_GLOBAL") \in {"off", "warn"}

(* A custom rule with the code of a structural error: the error looks as   *)
(* if --allow released it.                                                 *)
Ambiguous == \E rule \in project.config.custom : rule.code \in Structural

(* The advice of a refusal is good: if it says that nothing needs fixing   *)
(* in a file, the run with the --allow it suggests passes validation.      *)
(* Known exceptions: an approver who is asked for only once the operation  *)
(* is released, rules set to 'error', which no --allow releases although   *)
(* docs/VALIDATION-RULES-REFERENCE.md:120 says so, and ambiguous codes.    *)
HintReleases ==
  attempt = 2 /\ ~project.config.requireApprover /\ ~Ambiguous
    /\ (\A code \in DOMAIN project.config.rules :
          project.config.rules[code] # "error")
    => \A i \in Instances :
         pc[i] = "gate" /\ hints[i].codes # {} /\ ~hints[i].needsFix =>
           \A n \in Pending(i) : Passes(project, flags, n)

Executes == project.command \notin {"validate", "validate-all"}

Tested ==
  project.command \in {"test", "test-instances", "test-all"}
    /\ ~ExpectsRejections

(* The roll-back in front of the sanity checks stopped half way: nothing   *)
(* looks at its result, and the checks run on what is pending, if anything. *)
RollBackUnnoticed(i) == kept[i] # {}

(* A Down that takes away what another file, or nobody, has created: with  *)
(* a DROP that somebody let pass, or a RENAME, at which no rule looks.     *)
TakesOthers ==
  \E n \in Files : \/ Decided(n, "ORPHAN_DROP_DOWN")
                    \/ ~ (RenamedAway(File(n).down) \subseteq
                            Created(File(n).up))

(* The only file was to be rolled back by its post-check, and was.  Of a   *)
(* file without checks the code expects nothing.                           *)
ShownRolledBack(i) ==
  /\ project.sanity /\ Tested /\ ~RollBackUnnoticed(i)
  /\ N = 1 /\ File(1).rollback /\ File(1).check # "none"

(* Exit code 0: every file is applied on every instance, whichever of them *)
(* came first, unless nothing was to be executed; and the email of sync    *)
(* lists exactly what this run executed.  A validation that passed passed  *)
(* everywhere.  A test that passed has not cost a table that the first up  *)
(* had given or left, as long as no Down takes tables of other files; and  *)
(* a rollback that a fixture expects has left no row, and the schema as it *)
(* was.  Known exception: the roll-back in front of the sanity checks may  *)
(* stop half way, refused or failing, which is not looked at.              *)
ExitZeroMeansApplied ==
  ExitZero /\ ~project.dryRun /\ ~project.validateOnly =>
    \A i \in Instances :
      /\ \/ log[i] = Files
         \/ ~Executes
         \/ project.command = "test-all" /\ ExpectsRejections
         \/ project.sanity /\ \E n \in Files : File(n).rollback
      /\ project.command = "sync" =>
           mail[i] = [status |-> "applied", applied |-> ran[i]]
      /\ ~Executes => \A n \in Judged(i) : Passes(project, flags, n)
      /\ \/ ~Tested \/ project.command = "test"
         \/ reached[i] \subseteq schema[i].tables
         \/ TakesOthers \/ RollBackUnnoticed(i)
         \/ project.sanity /\ \E n \in Files : File(n).rollback
      /\ ShownRolledBack(i) =>
           log[i] = {} /\ SameSchema(mem[i].before, schema[i])
=============================================================================
