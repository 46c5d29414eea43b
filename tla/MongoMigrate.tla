---------------------------- MODULE MongoMigrate ----------------------------
(***************************************************************************)
(* Versioned (DDL) migrations on MongoDB: up, down, baseline and reset of  *)
(* src/cli.js over src/adapters/mongodb-adapter.js.  (sync is up that      *)
(* refuses when nothing is pending; --target and --only select as in       *)
(* MariaMigrate.tla.)                                                      *)
(*                                                                         *)
(* The changelog is a collection without a unique index: a sequence of     *)
(* documents, in the order they were inserted, which is also that of their *)
(* appliedAt.  Unlike on MariaDB, up() and down() execute first and write  *)
(* the changelog afterwards.  Executing a file takes two readings of it:   *)
(* its text, for the checksum, and then its code, by import().             *)
(*                                                                         *)
(* Several runs may share the database; every await that reads the files   *)
(* or reaches the server is a step.  An up() or down() function completes, *)
(* or throws with some of its effects in place: nothing is transactional.  *)
(***************************************************************************)
EXTENDS Integers, Sequences, FiniteSets

CONSTANTS
  Runs,        \* CLI invocations; each runs one command, once
  N,           \* migration file names, 1..N in sorting order
  Contents,    \* what a migration file may contain
  HasUp,       \* contents that export up()
  HasDown,     \* contents that export down()
  Valid,       \* contents the validation gate lets through
  Sha,         \* SHA-256 of each content
  NoFile,      \* disk: there is no such file
  NullSum,     \* document: it has no checksum
  Commands,    \* the commands that operators issue
  Counts,      \* how many migrations a down asks for
  MayCreate,   \* createDatabaseIfMissing
  Policies,    \* "Forbid": one run at a time; "Allow": runs may overlap
  MaxEdits     \* bound, per policy: how many changes the developer makes

Files == 1..N
Sums == {Sha[c] : c \in Contents}
Doc == [file : Files, sum : Sums \cup {NullSum}]

ASSUME CountAssumption ==
  N \in Nat /\ MaxEdits \in [Policies -> Nat] /\ Counts \subseteq Nat \ {0}
ASSUME ContentAssumption ==
  /\ HasUp \subseteq Contents /\ HasDown \subseteq Contents
  /\ Valid \subseteq HasUp         \* validate(): MISSING_UP_EXPORT
  /\ NoFile \notin Contents
ASSUME ShaAssumption ==
  /\ Sha \in [Contents -> Sums]
  /\ \A c, d \in Contents : Sha[c] = Sha[d] => c = d
  /\ NullSum \notin Sums
ASSUME CommandAssumption ==
  /\ Commands \subseteq {"up", "down", "baseline", "reset"}
  /\ MayCreate \in BOOLEAN /\ Policies \subseteq {"Forbid", "Allow"}

VARIABLES
  policy,     \* concurrencyPolicy of the jobs that start the runs
  disk,       \* the migration directory: file -> content or NoFile
  edits,      \* how many times the developer has changed it
  exists,     \* the database exists on the server
  docs,       \* the changelog collection
  pc,         \* per run: where it is
  applied,    \* per run: result.applied of up()
  rolledBack, \* per run: result.rolledBack of down()
  marked,     \* per run: result.marked of baseline()
  mem         \* per run: the rest of its memory, a record of Memory

(* History variables: no action of the program reads them.                 *)
VARIABLES
  ran,        \* file -> contents whose up() completed, no down() since
  torn,       \* files with some effects of an up() or down() that threw
  cut,        \* files executed by a run that could not write the changelog
  excused,    \* files recorded or forgotten without executing them
  owes,       \* per run: the function that completed, until its entry is
              \* written ("up", "down" or "nothing")
  past,       \* file -> what it was before the developer's changes
  unsure      \* a run went on without knowing that the database exists

dirVars == <<policy, disk, edits, past>>
dbVars == <<exists, docs>>
reports == <<applied, rolledBack, marked>>
history == <<ran, torn, cut, excused, unsure, owes>>
vars == <<dirVars, dbVars, pc, reports, mem, history>>

Ended == {"done", "refused", "failed", "crashed"}
Working == {"files", "docs", "scan", "repair", "gates",
            "upFiles", "upDocs", "upScan",
            "next", "import", "exec", "insert",
            "undoNext", "undoImport", "undoExec", "delete",
            "find", "mark", "reset"}

(* "body" is the text that is hashed, "code" the module that is executed.  *)
Memory == [cmd : Commands \cup {"none"},
           count : Counts \cup {0},
           list : SUBSET Files,              \* the files a readdir() found
           snap : Seq(Doc),                  \* the documents status() read
           todo : Seq(Files),                \* files still to process
           drift : SUBSET Files,             \* files whose checksum differs
           body : Contents \cup {NoFile},
           code : Contents \cup {NoFile}]

Blank == [cmd |-> "none", count |-> 0, list |-> {}, snap |-> <<>>,
          todo |-> <<>>, drift |-> {}, body |-> NoFile, code |-> NoFile]

TypeOK ==
  /\ policy \in Policies
  /\ disk \in [Files -> Contents \cup {NoFile}]
  /\ edits \in 0..MaxEdits[policy]
  /\ exists \in BOOLEAN
  /\ docs \in Seq(Doc)
  /\ pc \in [Runs -> Working \cup Ended \cup {"ready"}]
  /\ applied \in [Runs -> SUBSET Files]
  /\ rolledBack \in [Runs -> SUBSET Files]
  /\ marked \in [Runs -> SUBSET Files]
  /\ mem \in [Runs -> Memory]
  /\ ran \in [Files -> SUBSET Contents]
  /\ torn \subseteq Files /\ cut \subseteq Files
  /\ excused \subseteq Files
  /\ past \in [Files -> SUBSET (Contents \cup {NoFile})]
  /\ unsure \in BOOLEAN
  /\ owes \in [Runs -> {"nothing", "up", "down"}]

Active(r) == pc[r] \in Working

(***************************************************************************)
(* The changelog collection.                                               *)
(***************************************************************************)
Positions(ds, f) == {i \in DOMAIN ds : ds[i].file = f}
FirstOf(ds, f) == CHOOSE i \in Positions(ds, f) :
                    \A j \in Positions(ds, f) : i <= j
LastOf(ds, f) == CHOOSE i \in Positions(ds, f) :
                   \A j \in Positions(ds, f) : j <= i
In(ds, f) == Positions(ds, f) # {}
Recorded(f) == In(docs, f)

(* docByFile: of several documents of one file, the last one counts.       *)
SumOf(ds, f) == ds[LastOf(ds, f)].sum

(* deleteOne({ fileName }): one of them goes, the first.                   *)
Without(ds, f) ==
  IF In(ds, f)
  THEN SubSeq(ds, 1, FirstOf(ds, f) - 1)
         \o SubSeq(ds, FirstOf(ds, f) + 1, Len(ds))
  ELSE ds

(* Mutant of WithSums: the content is stored, not its checksum.            *)
WithContents(ds, files) ==
  [i \in DOMAIN ds |->
     IF ds[i].file \in files /\ i = FirstOf(ds, ds[i].file)
     THEN [ds[i] EXCEPT !.sum = disk[ds[i].file]] ELSE ds[i]]

(* updateOne({ fileName }, { $set: { checksum } }) for each of the files.  *)
WithSums(ds, files) ==
  [i \in DOMAIN ds |->
     IF ds[i].file \in files /\ i = FirstOf(ds, ds[i].file)
     THEN [ds[i] EXCEPT !.sum = Sha[disk[ds[i].file]]] ELSE ds[i]]

(***************************************************************************)
(* status(): what the listing and the documents say.                       *)
(***************************************************************************)
Listed == {f \in Files : disk[f] # NoFile}
Pending(m) == {f \in m.list : ~In(m.snap, f)}
Applied(m) == {f \in m.list : In(m.snap, f)}
Orphaned(m) == {f \in Files \ m.list : In(m.snap, f)}
OutOfOrder(m) == {f \in Applied(m) : \E g \in Pending(m) : g < f}

(* A file that cannot be read any more is not compared.                    *)
Readable(m) == {f \in Applied(m) : disk[f] # NoFile}
Mismatches(m) ==
  {f \in Readable(m) : SumOf(m.snap, f) \notin {NullSum, Sha[disk[f]]}}
Unbaselined(m) == {f \in Readable(m) : SumOf(m.snap, f) = NullSum}

Adopt(m) == docs' = WithSums(docs, Unbaselined(m))

(* The rank of each element of S under "before" makes it a sequence.       *)
Ordered(S, before(_, _)) ==
  [i \in 1..Cardinality(S) |->
     CHOOSE f \in S : Cardinality({g \in S : before(g, f)}) = i - 1]

Sorted(S) == Ordered(S, LAMBDA g, f : g < f)

(* Mutant of NewestFirst: in the order of the files' names.                *)
OldestFirst(m) ==
  Ordered(Applied(m), LAMBDA g, f : LastOf(m.snap, g) < LastOf(m.snap, f))

(* rollbackPlan(): by appliedAt, the most recent first.                    *)
NewestFirst(m) ==
  Ordered(Applied(m), LAMBDA g, f : LastOf(m.snap, g) > LastOf(m.snap, f))

Init ==
  /\ policy \in Policies
  /\ disk \in [Files -> Contents \cup {NoFile}]
  /\ edits = 0
  /\ exists \in BOOLEAN
  /\ \E k \in 0..N, old \in BOOLEAN :
       /\ \A f \in 1..k : disk[f] \in HasUp
       /\ k > 0 => exists
       /\ \/ old          \* written by migrate-mongo: without checksums
             /\ docs = [i \in 1..k |-> [file |-> i, sum |-> NullSum]]
             /\ excused = 1..k
             /\ ran = [f \in Files |-> {}]
          \/ ~old         \* written by runs of up that have ended
             /\ docs = [i \in 1..k |-> [file |-> i, sum |-> Sha[disk[i]]]]
             /\ excused = {}
             /\ ran = [f \in Files |-> IF f <= k THEN {disk[f]} ELSE {}]
  /\ pc = [r \in Runs |-> "ready"]
  /\ applied = [r \in Runs |-> {}]
  /\ rolledBack = [r \in Runs |-> {}]
  /\ marked = [r \in Runs |-> {}]
  /\ mem = [r \in Runs |-> Blank]
  /\ torn = {} /\ cut = {} /\ unsure = FALSE
  /\ past = [f \in Files |-> {}]
  /\ owes = [r \in Runs |-> "nothing"]

(***************************************************************************)
(* Steps every command shares.                                             *)
(***************************************************************************)
Goto(r, label) == pc' = [pc EXCEPT ![r] = label]
Remember(r, m) == mem' = [mem EXCEPT ![r] = m]
Exit(r, label) == Goto(r, label) /\ Remember(r, Blank)

(* Mutant of Start: the check that the database exists is left out.        *)
StartAnyway(r, c, k) ==
  /\ pc[r] = "ready"
  /\ policy = "Forbid" => \A q \in Runs : ~Active(q)
  /\ Goto(r, IF c = "reset" THEN "reset" ELSE "files")
  /\ Remember(r, [Blank EXCEPT !.cmd = c, !.count = k])
  /\ UNCHANGED <<dirVars, dbVars, reports, history>>

(* connect(), gate R0: the server cannot be reached, it is the wrong       *)
(* database, or it does not exist; an account that may not list the        *)
(* databases is let through.                                               *)
Start(r, c, k) ==
  /\ pc[r] = "ready"
  /\ policy = "Forbid" => \A q \in Runs : ~Active(q)
  /\ \/ Exit(r, "refused") /\ UNCHANGED unsure
     \/ /\ Goto(r, IF c = "reset" THEN "reset" ELSE "files")
        /\ Remember(r, [Blank EXCEPT !.cmd = c, !.count = k])
        /\ unsure' = (unsure \/ ~(MayCreate \/ exists))
  /\ UNCHANGED <<dirVars, dbVars, reports, ran, torn, cut, excused, owes>>

(* getMigrationFiles() of status().                                        *)
ReadFiles(r) ==
  /\ pc[r] \in {"files", "upFiles"}
  /\ Remember(r, [mem[r] EXCEPT !.list = Listed])
  /\ Goto(r, IF pc[r] = "files" THEN "docs" ELSE "upDocs")
  /\ UNCHANGED <<dirVars, dbVars, reports, history>>

(* find({}).toArray() of status().                                         *)
ReadDocs(r) ==
  /\ pc[r] \in {"docs", "upDocs"}
  /\ Remember(r, [mem[r] EXCEPT !.snap = docs])
  /\ Goto(r, IF pc[r] = "docs" THEN "scan" ELSE "upScan")
  /\ UNCHANGED <<dirVars, dbVars, reports, history>>

(* A query fails, or a read of the directory: the command ends.            *)
StatusFails(r) ==
  /\ pc[r] \in {"files", "docs", "repair", "reset", "upFiles", "upDocs"}
  /\ Exit(r, IF pc[r] \in {"upFiles", "upDocs"} THEN "failed" ELSE "refused")
  /\ UNCHANGED <<dirVars, dbVars, reports, history>>

(* The loop of status() ends early, some documents adopted.                *)
ScanFails(r) ==
  /\ pc[r] \in {"scan", "upScan"}
  /\ \E f \in Files :
       docs' = WithSums(docs, Unbaselined(mem[r]) \cap 1..f)
  /\ Exit(r, IF pc[r] = "upScan" THEN "failed" ELSE "refused")
  /\ UNCHANGED <<dirVars, exists, reports, history>>

(***************************************************************************)
(* up.                                                                     *)
(***************************************************************************)
(* The rest of the preflight status(), and the gates on what it says.      *)
Preflight(r) ==
  /\ pc[r] = "scan" /\ mem[r].cmd = "up"
  /\ Adopt(mem[r])
  /\ LET m == mem[r]
         inconsistent == Orphaned(m) \cup OutOfOrder(m) # {}
     IN  \/ /\ inconsistent \/ Mismatches(m) # {}
            /\ Exit(r, "refused")
         \/ /\ ~inconsistent
            /\ Remember(r, [m EXCEPT !.drift = Mismatches(m), !.snap = <<>>,
                                     !.list = Pending(m)])
            /\ Goto(r, IF Mismatches(m) = {} THEN "gates" ELSE "repair")
  /\ UNCHANGED <<dirVars, exists, reports, history>>

(* repairChecksum() of --allow-checksum-drift, one file after the other.   *)
RepairChecksum(r) ==
  /\ pc[r] = "repair"
  /\ \E f \in mem[r].drift :
       /\ disk[f] # NoFile
       /\ docs' = WithSums(docs, {f})
       /\ excused' = excused \cup {f}
       /\ Remember(r, [mem[r] EXCEPT !.drift = @ \ {f}])
       /\ Goto(r, IF mem[r].drift = {f} THEN "gates" ELSE "repair")
  /\ UNCHANGED <<dirVars, exists, reports, ran, torn, cut, unsure, owes>>

(* The validation gate over the pending files, then the runtime gates, of  *)
(* which either outcome may come (for down, also the confirmation).        *)
Gates(r) ==
  /\ pc[r] = "gates"
  /\ \/ Exit(r, "refused")
     \/ /\ mem[r].cmd = "up"
        /\ \A f \in mem[r].list : disk[f] \in Valid
        /\ Goto(r, "upFiles")
        /\ UNCHANGED mem
     \/ /\ mem[r].cmd = "down"
        /\ Goto(r, "undoNext")
        /\ UNCHANGED mem
  /\ UNCHANGED <<dirVars, dbVars, reports, history>>

UpScanAll(r) ==        \* mutant: every file is run, pending or not
  /\ pc[r] = "upScan"
  /\ Adopt(mem[r])
  /\ Remember(r, [mem[r] EXCEPT !.snap = <<>>, !.list = {},
                                !.todo = Sorted(mem[r].list)])
  /\ Goto(r, "next")
  /\ UNCHANGED <<dirVars, exists, reports, history>>

(* adapter.up() computes status() again, and the files to run.             *)
UpScan(r) ==
  /\ pc[r] = "upScan"
  /\ Adopt(mem[r])
  /\ Remember(r, [mem[r] EXCEPT !.snap = <<>>, !.list = {},
                                !.todo = Sorted(Pending(mem[r]))])
  /\ Goto(r, "next")
  /\ UNCHANGED <<dirVars, exists, reports, history>>

Loops == {"next", "undoNext", "find"}
InHand(r) == Head(mem[r].todo)

Finish(r) ==
  /\ pc[r] \in Loops /\ mem[r].todo = <<>>
  /\ Exit(r, "done")
  /\ UNCHANGED <<dirVars, dbVars, reports, history>>

(* _loadMigration(): the text of the file, for the checksum.               *)
ReadText(r) ==
  /\ pc[r] \in {"next", "undoNext"} /\ mem[r].todo # <<>>
  /\ \/ Exit(r, "failed")
     \/ /\ disk[InHand(r)] # NoFile
        /\ Remember(r, [mem[r] EXCEPT !.body = disk[InHand(r)]])
        /\ Goto(r, IF pc[r] = "next" THEN "import" ELSE "undoImport")
  /\ UNCHANGED <<dirVars, dbVars, reports, history>>

(* import() of the file: what it holds by now.  Without the function that  *)
(* is wanted it is an error.                                               *)
Import(r) ==
  /\ pc[r] \in {"import", "undoImport"}
  /\ LET wanted == IF pc[r] = "import" THEN HasUp ELSE HasDown IN
       \/ Exit(r, "failed")
       \/ /\ disk[InHand(r)] \in wanted
          /\ Remember(r, [mem[r] EXCEPT !.code = disk[InHand(r)]])
          /\ Goto(r, IF pc[r] = "import" THEN "exec" ELSE "undoExec")
  /\ UNCHANGED <<dirVars, dbVars, reports, history>>

UpCompletes(r) ==
  /\ pc[r] = "exec"
  /\ ran' = [ran EXCEPT ![InHand(r)] = @ \cup {mem[r].code}]
  /\ torn' = torn \ {InHand(r)}
  /\ exists' = TRUE
  /\ Goto(r, "insert")
  /\ owes' = [owes EXCEPT ![r] = "up"]
  /\ UNCHANGED <<dirVars, docs, reports, mem, cut, excused, unsure>>

(* Mutants of FunctionThrows: the loop goes on; the error is swallowed.    *)
FunctionThrowsGoOn(r) ==
  /\ pc[r] \in {"exec", "undoExec"}
  /\ torn' = torn \cup {InHand(r)}
  /\ Remember(r, [mem[r] EXCEPT !.todo = Tail(@)])
  /\ Goto(r, IF pc[r] = "exec" THEN "next" ELSE "undoNext")
  /\ UNCHANGED <<dirVars, docs, exists, reports, ran, cut, excused,
                 unsure, owes>>

FunctionThrowsUnseen(r) ==
  /\ pc[r] \in {"exec", "undoExec"}
  /\ Goto(r, IF pc[r] = "exec" THEN "insert" ELSE "delete")
  /\ UNCHANGED <<dirVars, dbVars, reports, mem, history>>

(* up() or down() throws, or an operation in it runs out of time: what it  *)
(* did stays, nothing is written to the changelog, the loop breaks.        *)
FunctionThrows(r) ==
  /\ pc[r] \in {"exec", "undoExec"}
  /\ torn' \in {torn, torn \cup {InHand(r)}}
  /\ exists' \in {exists, TRUE}
  /\ Exit(r, "failed")
  /\ UNCHANGED <<dirVars, docs, reports, ran, cut, excused, unsure, owes>>

Entry(r) == [file |-> InHand(r), sum |-> Sha[mem[r].body]]

(* Mutant of Insert: it hashes the file as it is now.                      *)
InsertRehash(r) ==
  /\ pc[r] = "insert" /\ disk[InHand(r)] # NoFile
  /\ docs' = Append(docs, [file |-> InHand(r), sum |-> Sha[disk[InHand(r)]]])
  /\ applied' = [applied EXCEPT ![r] = @ \cup {InHand(r)}]
  /\ Remember(r, [mem[r] EXCEPT !.todo = Tail(@)])
  /\ Goto(r, "next")
  /\ owes' = [owes EXCEPT ![r] = "nothing"]
  /\ UNCHANGED <<dirVars, exists, rolledBack, marked, ran, torn, cut,
                 excused, unsure>>

(* insertOne() with the checksum of the text; there is no check whether    *)
(* the file has an entry already.                                          *)
Insert(r) ==
  /\ pc[r] = "insert"
  /\ docs' = Append(docs, Entry(r))
  /\ applied' = [applied EXCEPT ![r] = @ \cup {InHand(r)}]
  /\ Remember(r, [mem[r] EXCEPT !.todo = Tail(@), !.body = NoFile,
                                !.code = NoFile])
  /\ Goto(r, "next")
  /\ cut' = cut \ {InHand(r)}
  /\ excused' = excused \ {InHand(r)}
  /\ owes' = [owes EXCEPT ![r] = "nothing"]
  /\ UNCHANGED <<dirVars, exists, rolledBack, marked, ran, torn, unsure>>

(* The insertOne or deleteOne after an execution fails, or its answer is   *)
(* lost.                                                                   *)
WriteFails(r) ==
  /\ pc[r] \in {"insert", "delete"}
  /\ docs' \in {docs, IF pc[r] = "insert"
                      THEN Append(docs, Entry(r))
                      ELSE Without(docs, InHand(r))}
  /\ cut' = cut \cup {InHand(r)}
  /\ Exit(r, "failed")
  /\ owes' = [owes EXCEPT ![r] = "nothing"]
  /\ UNCHANGED <<dirVars, exists, reports, ran, torn, excused, unsure>>

(***************************************************************************)
(* down.                                                                   *)
(***************************************************************************)
(* rollbackPlan(), and the refusal of edited files without the flag.       *)
Plan(r) ==
  /\ pc[r] = "scan" /\ mem[r].cmd = "down"
  /\ Adopt(mem[r])
  /\ LET m == mem[r]
         newest == NewestFirst(m)
         k == IF m.count < Len(newest) THEN m.count ELSE Len(newest)
         plan == SubSeq(newest, 1, k)
     IN  \/ plan = <<>> /\ Exit(r, "done")
         \/ /\ \E i \in 1..k : plan[i] \in Mismatches(m)
            /\ Exit(r, "refused")
         \/ /\ plan # <<>>
            /\ Remember(r, [m EXCEPT !.snap = <<>>, !.list = {},
                                     !.todo = plan])
            /\ Goto(r, "gates")
  /\ UNCHANGED <<dirVars, exists, reports, history>>

DownCompletes(r) ==
  /\ pc[r] = "undoExec"
  /\ ran' = [ran EXCEPT ![InHand(r)] = {}]
  /\ torn' = torn \ {InHand(r)}
  /\ Goto(r, "delete")
  /\ owes' = [owes EXCEPT ![r] = "down"]
  /\ UNCHANGED <<dirVars, dbVars, reports, mem, cut, excused, unsure>>

Delete(r) ==
  /\ pc[r] = "delete"
  /\ docs' = Without(docs, InHand(r))
  /\ rolledBack' = [rolledBack EXCEPT ![r] = @ \cup {InHand(r)}]
  /\ Remember(r, [mem[r] EXCEPT !.todo = Tail(@), !.body = NoFile,
                                !.code = NoFile])
  /\ Goto(r, "undoNext")
  /\ cut' = cut \ {InHand(r)}
  /\ excused' = excused \ {InHand(r)}
  /\ owes' = [owes EXCEPT ![r] = "nothing"]
  /\ UNCHANGED <<dirVars, exists, applied, marked, ran, torn, unsure>>

(***************************************************************************)
(* baseline and reset.                                                     *)
(***************************************************************************)
(* baseline --all, or --up-to a file.                                      *)
BaselineScan(r) ==
  /\ pc[r] = "scan" /\ mem[r].cmd = "baseline"
  /\ Adopt(mem[r])
  /\ \E last \in Files :
       Remember(r, [mem[r] EXCEPT !.snap = <<>>, !.list = {},
           !.todo = Sorted({f \in Pending(mem[r]) : f <= last})])
  /\ Goto(r, "find")
  /\ UNCHANGED <<dirVars, exists, reports, history>>

Skip(r) == Goto(r, "find") /\ Remember(r, [mem[r] EXCEPT !.todo = Tail(@)])

(* adapter.baseline(): findOne(); an entry, or an error, and the loop goes *)
(* on with the next file.                                                  *)
FindEntry(r) ==
  /\ pc[r] = "find" /\ mem[r].todo # <<>>
  /\ \/ Skip(r)
     \/ ~Recorded(InHand(r)) /\ Goto(r, "mark") /\ UNCHANGED mem
  /\ UNCHANGED <<dirVars, dbVars, reports, history>>

(* insertOne(), a step after the findOne().  An error may hide that it     *)
(* took effect.                                                            *)
Mark(r) ==
  /\ pc[r] = "mark"
  /\ Skip(r)
  /\ \/ UNCHANGED <<docs, exists, marked, excused>>
     \/ /\ disk[InHand(r)] # NoFile
        /\ docs' = Append(docs, [file |-> InHand(r),
                                 sum |-> Sha[disk[InHand(r)]]])
        /\ exists' = TRUE
        /\ \/ marked' = [marked EXCEPT ![r] = @ \cup {InHand(r)}]
           \/ UNCHANGED marked
        /\ excused' = excused \cup {InHand(r)}
  /\ UNCHANGED <<dirVars, applied, rolledBack, ran, torn, cut, unsure, owes>>

(* countDocuments() and deleteMany().                                      *)
Reset(r) ==
  /\ pc[r] = "reset"
  /\ docs' = <<>>
  /\ excused' = Files
  /\ Exit(r, "done")
  /\ UNCHANGED <<dirVars, exists, reports, ran, torn, cut, unsure, owes>>

(***************************************************************************)
(* The process dies; the developer changes, adds or removes a file.        *)
(***************************************************************************)
Crash(r) ==
  /\ Active(r)
  /\ cut' = IF pc[r] \in {"insert", "delete"}
            THEN cut \cup {InHand(r)} ELSE cut
  /\ torn' \in {torn} \cup {torn \cup {InHand(r)} :
                              p \in {pc[r]} \cap {"exec", "undoExec"}}
  /\ Exit(r, "crashed")
  /\ owes' = [owes EXCEPT ![r] = "nothing"]
  /\ UNCHANGED <<dirVars, dbVars, reports, ran, excused, unsure>>

Edit ==
  /\ edits < MaxEdits[policy]
  /\ edits' = edits + 1
  /\ \E f \in Files : \E c \in (Contents \cup {NoFile}) \ {disk[f]} :
       /\ disk' = [disk EXCEPT ![f] = c]
       /\ past' = [past EXCEPT ![f] = @ \cup {disk[f]}]
  /\ UNCHANGED <<policy, dbVars, pc, reports, mem, history>>

Step(r) ==
  \/ ReadFiles(r) \/ ReadDocs(r) \/ StatusFails(r) \/ ScanFails(r)
  \/ Preflight(r) \/ RepairChecksum(r) \/ Gates(r) \/ UpScan(r)
  \/ Finish(r) \/ ReadText(r) \/ Import(r) \/ UpCompletes(r)
  \/ FunctionThrows(r) \/ Insert(r) \/ WriteFails(r)
  \/ Plan(r) \/ DownCompletes(r) \/ Delete(r)
  \/ BaselineScan(r) \/ FindEntry(r) \/ Mark(r) \/ Reset(r)

Asked(c) == IF c = "down" THEN Counts ELSE {0}

Next ==
  \/ \E r \in Runs :
       \/ \E c \in Commands : \E k \in Asked(c) : Start(r, c, k)
       \/ Step(r) \/ Crash(r)
  \/ Edit

Spec == Init /\ [][Next]_vars

(***************************************************************************)
(* What holds of runs that do not overlap.                                 *)
(***************************************************************************)
Apart == policy = "Forbid"

(* Files that the developer ever added or removed.                         *)
Moved == {f \in Files : NoFile \in past[f] \cup {disk[f]}}

(* No run has executed f without having come to write the changelog, and   *)
(* no operator has marked, repaired or forgotten its entry.                *)
Settled(f) ==
  /\ f \notin cut \cup excused
  /\ \A r \in Runs : pc[r] \in {"insert", "delete"} => InHand(r) # f

(* _applyOne(), _rollbackOne(): whatever throws, crashes or is edited, the *)
(* changelog has an entry for exactly the files whose up() completed, but  *)
(* for those cut off between execution and entry.                          *)
EntriesMatchEffects ==
  Apart => \A f \in Files : Settled(f) => (Recorded(f) <=> ran[f] # {})

(* An entry whose checksum agrees with the file is of a file that ran as   *)
(* it is now: an edit between reading, importing and recording is seen,    *)
(* unless a later edit takes the file back to what it was when read.       *)
NoSilentDrift ==
  Apart => \A f \in Files :
    Settled(f) /\ Recorded(f) /\ disk[f] \notin {NoFile} \cup past[f]
      /\ SumOf(docs, f) = Sha[disk[f]] => disk[f] \in ran[f]

(* baseline and up look before they insert: without overlapping runs no    *)
(* file has two entries, one of which a rollback would leave.              *)
OneEntryPerFile ==
  Apart => \A i, j \in DOMAIN docs :
             docs[i].file = docs[j].file => i = j

(* A file is executed only when all files before it are recorded, after    *)
(* failures, crashes and rollbacks of any earlier runs.                    *)
UpInOrder ==
  Apart => \A r \in Runs : pc[r] = "exec" =>
    \A f \in Files \ Moved : f < InHand(r) => Recorded(f)

(* A rollback undoes the entry made last (of files that are there).        *)
RollsBackNewest ==
  Apart => \A r \in Runs : pc[r] = "undoExec" =>
    \A i \in DOMAIN docs :
      i > LastOf(docs, InHand(r)) => docs[i].file \in Moved

(* Gate R0: a database that is not there is not created, unless the config *)
(* says so or the account may not list the databases.                      *)
CreatesNoDatabase == [][~exists /\ exists' => MayCreate \/ unsure]_vars

(***************************************************************************)
(* What holds of any runs.                                                 *)
(***************************************************************************)
Owing(what) == {<<r, InHand(r)>> : r \in {q \in Runs : owes[q] = what}}

Changelog == INSTANCE ExecuteThenRecord WITH
  entries <- {docs[i].file : i \in DOMAIN docs},
  executed <- Owing("up"),
  undone <- Owing("down")

(* Overlapping or not: every entry that comes or goes is accounted for by  *)
(* the run that executed the file before, a baseline or a reset.           *)
ImplementsOrder == Changelog!Spec
=============================================================================
