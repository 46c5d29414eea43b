---------------------------- MODULE MariaMigrate ----------------------------
(***************************************************************************)
(* Versioned (DDL) migrations on MariaDB: the commands up, sync, down,     *)
(* baseline, reset and status of src/cli.js, the gates they pass and the   *)
(* adapter methods they call (src/adapters/mariadb-adapter.js).            *)
(*                                                                         *)
(* Several CLI runs share one database and one directory of migration      *)
(* files; there is no lock between them.  Every await of the code that     *)
(* reaches the database or reads the files is a step of its own, so other  *)
(* runs, the developer editing files, and a crash can come in between.     *)
(*                                                                         *)
(* Abstractions.  A migration file is its position in the sorted listing.  *)
(* Its content is an element of Contents, of which the model knows how     *)
(* many statements Up and Down hold and whether validation lets it pass.   *)
(* SHA-256 is an injective function of the content.  A statement either    *)
(* takes effect or fails; the retries of Lock Guard are in LockGuard.tla.  *)
(***************************************************************************)
EXTENDS Integers

CONSTANTS
  Runs,        \* CLI invocations; each runs one command, once
  N,           \* number of migration file names; 1..N in sorting order
  Contents,    \* what a migration file may contain
  HasUp,       \* contents with a "-- +migrate Up" marker
  UpLen,       \* statements in the Up section of each content
  DownLen,     \* statements in the Down section (0: no section, or empty)
  Valid,       \* contents the validation gate lets through
  Sha,         \* SHA-256 of each content
  NoFile,      \* disk: there is no such file
  NoRow,       \* changelog: there is no such row
  NullSum,     \* changelog: the row's checksum column is NULL
  Commands,    \* the commands that operators issue
  Options,     \* the --target / --only arguments that operators give
  Serial,      \* TRUE: one run at a time, and files change only between runs
  MaxEdits     \* bound: how many times the developer changes a file

Files == 1..N
Sums == {Sha[c] : c \in Contents}

(* A --target / --only argument, by the files it matches: exactly, or as a *)
(* substring.  Both sets empty: the option was not given.                  *)
Needles == [exact : SUBSET Files, like : SUBSET Files]
NotGiven == [exact |-> {}, like |-> {}]

ASSUME CountAssumption == N \in Nat /\ MaxEdits \in Nat
ASSUME ContentAssumption ==
  /\ HasUp \subseteq Contents
  /\ Valid \subseteq HasUp       \* validate() rejects a file without Up
  /\ UpLen \in [Contents -> Nat]
  /\ DownLen \in [Contents -> Nat]
  /\ NoFile \notin Contents
ASSUME ShaAssumption ==
  /\ Sha \in [Contents -> Sums]
  /\ \A c, d \in Contents : Sha[c] = Sha[d] => c = d
  /\ NoRow \notin Sums /\ NullSum \notin Sums /\ NoRow # NullSum
ASSUME CommandAssumption ==
  /\ Commands \subseteq {"up", "sync", "down", "baseline", "reset", "status"}
  /\ Options \subseteq [target : Needles, only : Needles]
  /\ Serial \in BOOLEAN

VARIABLES
  disk,       \* the migration directory: file -> content or NoFile
  edits,      \* how many times the developer has changed it
  changelog,  \* schema_migrations: file -> checksum, NullSum or NoRow
  pc,         \* per run: where it is
  cur,        \* per run: the file it processes, or stopped at (0: none)
  applied,    \* per run: result.applied, the files reported as applied
  mem         \* per run: the rest of its memory, a record of Memory

(* History variables: no action of the program reads them.                 *)
VARIABLES
  ran,        \* file -> contents whose Up completed, no Down since
  via,        \* file -> how its row came by its checksum
  torn,       \* files with some, not all, statements of a section in effect
  waived,     \* files whose edit an operator let --allow-checksum-drift pass
  moved       \* files the developer ever added or removed

dirVars == <<disk, edits, moved>>
dbVars == <<changelog, ran, via, torn, waived>>
runVars == <<pc, cur, applied, mem>>
vars == <<dirVars, dbVars, runVars>>

(***************************************************************************)
(* Where a run is.                                                         *)
(***************************************************************************)
Ended == {"done", "refused", "failed", "crashed"}
Working == {"rows", "scan", "repair", "validate", "runtime",
            "upRows", "upScan", "upNext", "upExec", "record",
            "downNext", "delete", "downExec", "restore",
            "mark", "reset"}

Rows == [Files -> Sums \cup {NoRow, NullSum}]

(* A run's memory.  "checked" is history too: the <<file, content>> pairs  *)
(* that passed validation.                                                 *)
Memory == [cmd : Commands \cup {"none"},
           opt : [target : Needles, only : Needles],
           snap : Rows,                  \* rows that status() selected
           todo : SUBSET Files,          \* files still to process
           drift : SUBSET Files,         \* files whose checksum differs
           body : Contents \cup {NoFile}, \* content read for cur
           at : Nat,                     \* statements of it executed
           checked : SUBSET (Files \X Contents)]

NoRows == [f \in Files |-> NoRow]

Blank == [cmd |-> "none",
          opt |-> [target |-> NotGiven, only |-> NotGiven],
          snap |-> NoRows, todo |-> {}, drift |-> {}, body |-> NoFile,
          at |-> 0, checked |-> {}]

Active(r) == pc[r] \in Working
Recorded(f) == changelog[f] # NoRow

TypeOK ==
  /\ disk \in [Files -> Contents \cup {NoFile}]
  /\ edits \in 0..MaxEdits
  /\ changelog \in Rows
  /\ pc \in [Runs -> Working \cup Ended \cup {"ready"}]
  /\ cur \in [Runs -> Files \cup {0}]
  /\ applied \in [Runs -> SUBSET Files]
  /\ mem \in [Runs -> Memory]
  /\ ran \in [Files -> SUBSET Contents]
  /\ via \in [Files -> {"none", "legacy", "applied", "marked", "adopted",
                        "accepted", "restored"}]
  /\ torn \subseteq Files
  /\ waived \subseteq Files
  /\ moved \subseteq Files

(* A run that executes statements, or writes a row for them, has a file in *)
(* hand and has read it.                                                   *)
InHand == {"upExec", "record", "delete", "downExec", "restore"}

FileInHand ==
  \A r \in Runs :
    pc[r] \in InHand => cur[r] \in Files /\ mem[r].body \in Contents

(* A directory of files that validate or not, and a changelog that is empty *)
(* or was written by a version that recorded no checksums: a prefix of rows *)
(* with NULL, for files that are there.                                     *)
Init ==
  /\ disk \in [Files -> Contents \cup {NoFile}]
  /\ \E k \in 0..N :
       /\ \A f \in 1..k : disk[f] # NoFile
       /\ changelog = [f \in Files |-> IF f <= k THEN NullSum ELSE NoRow]
       /\ via = [f \in Files |-> IF f <= k THEN "legacy" ELSE "none"]
  /\ edits = 0
  /\ pc = [r \in Runs |-> "ready"]
  /\ cur = [r \in Runs |-> 0]
  /\ applied = [r \in Runs |-> {}]
  /\ mem = [r \in Runs |-> Blank]
  /\ ran = [f \in Files |-> {}]
  /\ torn = {}
  /\ waived = {}
  /\ moved = {f \in Files : disk[f] = NoFile}

(***************************************************************************)
(* status(): what a snapshot of the rows says about the files on disk.     *)
(***************************************************************************)
Listed == {f \in Files : disk[f] # NoFile}
Pending(rows) == {f \in Listed : rows[f] = NoRow}
Applied(rows) == {f \in Listed : rows[f] # NoRow}
Orphaned(rows) == {f \in Files \ Listed : rows[f] # NoRow}
OutOfOrder(rows) ==
  {f \in Applied(rows) : \E g \in Pending(rows) : g < f}
MismatchesUnread(rows) == {}   \* mutant: the checksum column is not read
Mismatches(rows) ==
  {f \in Applied(rows) : rows[f] # NullSum /\ rows[f] # Sha[disk[f]]}
Unbaselined(rows) == {f \in Applied(rows) : rows[f] = NullSum}

(* Mutant of Adopt: the content is stored without hashing it.              *)
AdoptUnhashed(rows, files) ==
  LET hit == {f \in Unbaselined(rows) \cap files : Recorded(f)}
  IN  /\ changelog' = [f \in Files |->
                         IF f \in hit THEN disk[f] ELSE changelog[f]]
      /\ via' = [f \in Files |-> IF f \in hit THEN "adopted" ELSE via[f]]

(* The UPDATE ... WHERE id of status() for rows without a checksum: it     *)
(* hits whatever the row holds by now, and nothing if the row is gone.     *)
(* "files" are those the loop of status() has got to.                      *)
Adopt(rows, files) ==
  LET hit == {f \in Unbaselined(rows) \cap files : Recorded(f)}
  IN  /\ changelog' = [f \in Files |->
                         IF f \in hit THEN Sha[disk[f]] ELSE changelog[f]]
      /\ via' = [f \in Files |-> IF f \in hit THEN "adopted" ELSE via[f]]

(***************************************************************************)
(* selectPendingMigrations(): exact file name first, then substring, the   *)
(* first hit in the order of the list.                                     *)
(***************************************************************************)
Hits(list, needle) ==
  IF list \cap needle.exact # {} THEN list \cap needle.exact
                                 ELSE list \cap needle.like

UpTo(list, needle) ==
  IF needle = NotGiven THEN list
  ELSE {f \in list : \A h \in Hits(list, needle) : f <= h}

JustOne(list, needle) ==
  IF needle = NotGiven THEN list
  ELSE {f \in Hits(list, needle) : \A h \in Hits(list, needle) : f <= h}

Select(list, o) == JustOne(UpTo(list, o.target), o.only)

SelectError(list, o) ==
  \/ o.target # NotGiven /\ Hits(list, o.target) = {}
  \/ o.only # NotGiven /\ Hits(UpTo(list, o.target), o.only) = {}

First(S) == CHOOSE f \in S : \A g \in S : f <= g
Newest(S) == CHOOSE f \in S : \A g \in S : g <= f

(***************************************************************************)
(* Steps every command shares.                                             *)
(***************************************************************************)
Goto(r, label) == pc' = [pc EXCEPT ![r] = label]

Remember(r, m) == mem' = [mem EXCEPT ![r] = m]

(* The process exits: its memory is gone, its report stays.                *)
Exit(r, label) ==
  /\ Goto(r, label)
  /\ Remember(r, Blank)

(* An operator starts a command.  reset has no status() before it.         *)
Start(r, c, o) ==
  /\ pc[r] = "ready"
  /\ Serial => \A q \in Runs : ~Active(q)
  /\ Remember(r, [mem[r] EXCEPT !.cmd = c, !.opt = o])
  /\ Goto(r, IF c = "reset" THEN "reset" ELSE "rows")
  /\ UNCHANGED <<dirVars, dbVars, cur, applied>>

(* connect() fails (R0), or a query that takes no effect: the command ends. *)
QueryFails(r) ==
  /\ pc[r] \in {"rows", "repair", "reset", "upRows", "delete"}
  /\ Exit(r, IF pc[r] \in {"upRows", "delete"} THEN "failed" ELSE "refused")
  /\ UNCHANGED <<dirVars, dbVars, cur, applied>>

(* The SELECT of status(): the rows as they are now, used a step later.    *)
ReadRows(r) ==
  /\ pc[r] \in {"rows", "upRows"}
  /\ Remember(r, [mem[r] EXCEPT !.snap = changelog])
  /\ Goto(r, IF pc[r] = "rows" THEN "scan" ELSE "upScan")
  /\ UNCHANGED <<dirVars, dbVars, cur, applied>>

(* status() throws, or the process dies, after some files of its loop.     *)
StatusFails(r) ==
  /\ pc[r] \in {"scan", "upScan"} /\ mem[r].cmd # "status"
  /\ \E f \in Files : Adopt(mem[r].snap, 1..f)
  /\ Exit(r, IF pc[r] = "upScan" THEN "failed" ELSE "refused")
  /\ UNCHANGED <<dirVars, ran, torn, waived, cur, applied>>

(***************************************************************************)
(* up and sync, before anything executes.                                  *)
(***************************************************************************)
(* The rest of the preflight status(), then enforceChangelogConsistencyGate *)
(* (no override) and enforceChecksumGate (--allow-checksum-drift).          *)
PreflightScan(r) ==
  /\ pc[r] = "scan" /\ mem[r].cmd \in {"up", "sync"}
  /\ Adopt(mem[r].snap, Files)
  /\ LET rows == mem[r].snap
         inconsistent == Orphaned(rows) \cup OutOfOrder(rows) # {}
         edited == Mismatches(rows)
     IN  \/ /\ inconsistent \/ edited # {}
            /\ Exit(r, "refused")
         \/ /\ ~inconsistent
            /\ Remember(r, [mem[r] EXCEPT !.snap = NoRows, !.drift = edited,
                                          !.todo = Pending(rows)])
            /\ Goto(r, IF edited = {} THEN "validate" ELSE "repair")
  /\ UNCHANGED <<dirVars, ran, torn, waived, cur, applied>>

(* repairChecksum() of one mismatched file: read again, UPDATE where id.   *)
(* A file that has gone since makes the gate throw.                        *)
RepairChecksum(r) ==
  /\ pc[r] = "repair" /\ mem[r].drift # {}
  /\ LET f == First(mem[r].drift) IN
       \/ /\ disk[f] = NoFile
          /\ Exit(r, "refused")
          /\ UNCHANGED dbVars
       \/ /\ disk[f] # NoFile
          /\ changelog' = [changelog EXCEPT ![f] =
                             IF Recorded(f) THEN Sha[disk[f]] ELSE @]
          /\ via' = [via EXCEPT ![f] = IF Recorded(f) THEN "accepted" ELSE @]
          /\ Remember(r, [mem[r] EXCEPT !.drift = @ \ {f}])
          /\ Goto(r, IF mem[r].drift = {f} THEN "validate" ELSE "repair")
          /\ waived' = waived \cup {f}
          /\ UNCHANGED <<ran, torn>>
  /\ UNCHANGED <<dirVars, cur, applied>>

(* Mutant of Validate: only the first selected file is validated.          *)
ValidateFirst(r) ==
  /\ pc[r] = "validate"
  /\ LET pending == mem[r].todo
         selected == Select(pending, mem[r].opt)
         stop == \/ mem[r].cmd = "sync" /\ pending = {}
                 \/ SelectError(pending, mem[r].opt)
                 \/ selected # {} /\ disk[First(selected)] \notin Valid
     IN  \/ stop /\ Exit(r, "refused")
         \/ /\ ~stop
            /\ Remember(r, [mem[r] EXCEPT
                   !.checked =
                   {<<f, disk[f]>> : f \in {g \in selected :
                   \A h \in selected : g <= h}}])
            /\ Goto(r, IF pending = {} THEN "upRows" ELSE "runtime")
  /\ UNCHANGED <<dirVars, dbVars, cur, applied>>

(* sync stops, as an error, when nothing is pending; up does not.          *)
(* enforceValidationGate: every selected file must pass, as it reads now.  *)
Validate(r) ==
  /\ pc[r] = "validate"
  /\ LET pending == mem[r].todo
         selected == Select(pending, mem[r].opt)
         stop == \/ mem[r].cmd = "sync" /\ pending = {}
                 \/ SelectError(pending, mem[r].opt)
                 \/ \E f \in selected : disk[f] \notin Valid
     IN  \/ stop /\ Exit(r, "refused")
         \/ /\ ~stop
            /\ Remember(r, [mem[r] EXCEPT !.checked =
                                          {<<f, disk[f]>> : f \in selected}])
            /\ Goto(r, IF pending = {} THEN "upRows" ELSE "runtime")
  /\ UNCHANGED <<dirVars, dbVars, cur, applied>>

(* enforceRuntimeGates (R2, R3): what the server's sessions and its        *)
(* read-only flag say at this moment decides, so either outcome may come.  *)
(* down also asks for confirmation here, and may be cancelled.             *)
RuntimeGates(r) ==
  /\ pc[r] = "runtime"
  /\ \/ Exit(r, "refused")
     \/ /\ Goto(r, IF mem[r].cmd = "down" THEN "downNext" ELSE "upRows")
        /\ UNCHANGED mem
  /\ UNCHANGED <<dirVars, dbVars, cur, applied>>

(***************************************************************************)
(* adapter.up(): it computes status() and the selection afresh.            *)
(***************************************************************************)
UpScan(r) ==
  /\ pc[r] = "upScan"
  /\ Adopt(mem[r].snap, Files)
  /\ LET pending == Pending(mem[r].snap) IN
       \/ SelectError(pending, mem[r].opt) /\ Exit(r, "failed")
       \/ /\ ~SelectError(pending, mem[r].opt)
          /\ Remember(r, [mem[r] EXCEPT !.snap = NoRows,
                                        !.todo = Select(pending, mem[r].opt)])
          /\ Goto(r, "upNext")
  /\ UNCHANGED <<dirVars, ran, torn, waived, cur, applied>>

(* The loop is over: the command reports what it did.                      *)
Finish(r) ==
  /\ pc[r] \in {"upNext", "downNext", "mark"}
  /\ mem[r].todo = {}
  /\ cur' = [cur EXCEPT ![r] = 0]
  /\ Exit(r, "done")
  /\ UNCHANGED <<dirVars, dbVars, applied>>

(* The loop head of up(): read the next file; without Up it is an error.   *)
UpNext(r) ==
  /\ pc[r] = "upNext" /\ mem[r].todo # {}
  /\ LET f == First(mem[r].todo) IN
       /\ cur' = [cur EXCEPT ![r] = f]
       /\ \/ disk[f] \notin HasUp /\ Exit(r, "failed")
          \/ /\ disk[f] \in HasUp
             /\ Remember(r, [mem[r] EXCEPT !.body = disk[f], !.at = 0])
             /\ Goto(r, IF UpLen[disk[f]] = 0 THEN "record" ELSE "upExec")
  /\ UNCHANGED <<dirVars, dbVars, applied>>

(* One statement of the Up section takes effect: DDL commits by itself.    *)
UpStatement(r) ==
  /\ pc[r] = "upExec"
  /\ Remember(r, [mem[r] EXCEPT !.at = @ + 1])
  /\ IF mem[r].at + 1 = UpLen[mem[r].body]
     THEN /\ ran' = [ran EXCEPT ![cur[r]] = @ \cup {mem[r].body}]
          /\ torn' = torn \ {cur[r]}
          /\ Goto(r, "record")
     ELSE /\ torn' = torn \cup {cur[r]}
          /\ UNCHANGED <<ran, pc>>
  /\ UNCHANGED <<dirVars, changelog, via, waived, cur, applied>>

(* Mutants of UpStatementFails: the error is swallowed; the loop goes on   *)
(* with the next file; the section is retried from its first statement.    *)
UpStatementFailsSwallowed(r) ==
  /\ pc[r] = "upExec"
  /\ Goto(r, "record")
  /\ UNCHANGED <<dirVars, dbVars, cur, applied, mem>>

UpStatementFailsContinue(r) ==
  /\ pc[r] = "upExec"
  /\ Remember(r, [mem[r] EXCEPT !.todo = @ \ {cur[r]}])
  /\ Goto(r, "upNext")
  /\ UNCHANGED <<dirVars, dbVars, cur, applied>>

UpStatementFailsRetry(r) ==
  /\ pc[r] = "upExec"
  /\ Remember(r, [mem[r] EXCEPT !.at = 0])
  /\ UNCHANGED <<dirVars, dbVars, cur, applied, pc>>

(* A statement fails for good: what ran before it stays, the loop breaks.  *)
UpStatementFails(r) ==
  /\ pc[r] = "upExec"
  /\ Exit(r, "failed")
  /\ UNCHANGED <<dirVars, dbVars, cur, applied>>

(* Mutants of RecordUp: the file is hashed when recording, not when read;  *)
(* INSERT IGNORE instead of INSERT.                                        *)
RecordUpRehash(r) ==
  /\ pc[r] = "record"
  /\ ~Recorded(cur[r]) /\ disk[cur[r]] # NoFile
  /\ changelog' = [changelog EXCEPT ![cur[r]] = Sha[disk[cur[r]]]]
  /\ via' = [via EXCEPT ![cur[r]] = "applied"]
  /\ ran' = [ran EXCEPT ![cur[r]] =
               IF UpLen[mem[r].body] = 0 THEN @ \cup {mem[r].body} ELSE @]
  /\ applied' = [applied EXCEPT ![r] = @ \cup {cur[r]}]
  /\ Remember(r, [mem[r] EXCEPT !.todo = @ \ {cur[r]}])
  /\ Goto(r, "upNext")
  /\ UNCHANGED <<dirVars, torn, waived, cur>>

RecordUpIgnore(r) ==
  /\ pc[r] = "record"
  /\ changelog' = [changelog EXCEPT ![cur[r]] =
                      IF Recorded(cur[r]) THEN @ ELSE Sha[mem[r].body]]
  /\ applied' = [applied EXCEPT ![r] = @ \cup {cur[r]}]
  /\ Remember(r, [mem[r] EXCEPT !.todo = @ \ {cur[r]}])
  /\ Goto(r, "upNext")
  /\ UNCHANGED <<dirVars, via, ran, torn, waived, cur>>

(* INSERT INTO schema_migrations (id, checksum): id is the primary key, so *)
(* a row another run inserted meanwhile makes this one fail.  The checksum *)
(* is that of the content read before executing.                           *)
RecordUp(r) ==
  /\ pc[r] = "record"
  /\ ~Recorded(cur[r])
  /\ changelog' = [changelog EXCEPT ![cur[r]] = Sha[mem[r].body]]
  /\ via' = [via EXCEPT ![cur[r]] = "applied"]
  /\ ran' = [ran EXCEPT ![cur[r]] =  \* an empty Up has run by now
               IF UpLen[mem[r].body] = 0 THEN @ \cup {mem[r].body} ELSE @]
  /\ applied' = [applied EXCEPT ![r] = @ \cup {cur[r]}]
  /\ Remember(r, [mem[r] EXCEPT !.todo = @ \ {cur[r]}])
  /\ Goto(r, "upNext")
  /\ UNCHANGED <<dirVars, torn, waived, cur>>

(* The INSERT is refused: a duplicate key, or a lost connection.           *)
RecordFails(r) ==
  /\ pc[r] = "record"
  /\ Exit(r, "failed")
  /\ UNCHANGED <<dirVars, dbVars, cur, applied>>

(* Mutant of DownScan: the plan's checksum mismatches are not looked at.   *)
DownScanUnchecked(r) ==
  /\ pc[r] = "scan" /\ mem[r].cmd = "down"
  /\ Adopt(mem[r].snap, Files)
  /\ LET rows == mem[r].snap IN
       \/ Applied(rows) = {} /\ Exit(r, "done")
       \/ \E t \in Applied(rows) :
            LET plan == {f \in Applied(rows) : f >= t} IN
              /\ Remember(r, [mem[r] EXCEPT !.snap = NoRows, !.todo = plan])
              /\ Goto(r, "runtime")
  /\ UNCHANGED <<dirVars, ran, torn, waived, cur, applied>>

(***************************************************************************)
(* down                                                                    *)
(***************************************************************************)
(* rollbackPlan(): --count or --target both select the applied files from  *)
(* the newest down to some file t; then the checksum refusal, which        *)
(* --allow-checksum-drift overrides without repairing the checksum.        *)
DownScan(r) ==
  /\ pc[r] = "scan" /\ mem[r].cmd = "down"
  /\ Adopt(mem[r].snap, Files)
  /\ LET rows == mem[r].snap IN
       \/ Applied(rows) = {} /\ Exit(r, "done") /\ UNCHANGED waived
       \/ Exit(r, "refused") /\ UNCHANGED waived  \* no match, or edited
       \/ \E t \in Applied(rows) :
            LET plan == {f \in Applied(rows) : f >= t}
                edited == plan \cap Mismatches(rows)
            IN  /\ Remember(r, [mem[r] EXCEPT !.snap = NoRows, !.todo = plan,
                                              !.drift = edited])
                /\ waived' = waived \cup edited
                /\ Goto(r, "runtime")
  /\ UNCHANGED <<dirVars, ran, torn, cur, applied>>

(* The loop head of down(): newest first; no Down section is an error.     *)
DownNext(r) ==
  /\ pc[r] = "downNext" /\ mem[r].todo # {}
  /\ LET f == Newest(mem[r].todo)
         undoable == disk[f] # NoFile /\ DownLen[disk[f]] > 0
     IN  /\ cur' = [cur EXCEPT ![r] = f]
         /\ \/ ~undoable /\ Exit(r, "failed")
            \/ /\ undoable
               /\ Remember(r, [mem[r] EXCEPT !.body = disk[f], !.at = 0])
               /\ Goto(r, "delete")
  /\ UNCHANGED <<dirVars, dbVars, applied>>

(* The row goes before the Down section runs.                              *)
DeleteRow(r) ==
  /\ pc[r] = "delete"
  /\ changelog' = [changelog EXCEPT ![cur[r]] = NoRow]
  /\ via' = [via EXCEPT ![cur[r]] = "none"]
  /\ Goto(r, "downExec")
  /\ UNCHANGED <<dirVars, ran, torn, waived, cur, applied, mem>>

DownStatement(r) ==
  /\ pc[r] = "downExec"
  /\ IF mem[r].at + 1 = DownLen[mem[r].body]
     THEN /\ ran' = [ran EXCEPT ![cur[r]] = {}]
          /\ torn' = torn \ {cur[r]}
          /\ Remember(r, [mem[r] EXCEPT !.at = @ + 1, !.todo = @ \ {cur[r]}])
          /\ Goto(r, "downNext")
     ELSE /\ torn' = torn \cup {cur[r]}
          /\ Remember(r, [mem[r] EXCEPT !.at = @ + 1])
          /\ UNCHANGED <<ran, pc>>
  /\ UNCHANGED <<dirVars, changelog, via, waived, cur, applied>>

DownStatementFails(r) ==
  /\ pc[r] = "downExec"
  /\ Goto(r, "restore")
  /\ UNCHANGED <<dirVars, dbVars, cur, applied, mem>>

(* INSERT IGNORE ... (id): the row comes back without its checksum.  A     *)
(* failure of this INSERT is swallowed; either way the loop breaks.        *)
RestoreRow(r) ==
  /\ pc[r] = "restore"
  /\ \/ /\ ~Recorded(cur[r])
        /\ changelog' = [changelog EXCEPT ![cur[r]] = NullSum]
        /\ via' = [via EXCEPT ![cur[r]] = "restored"]
     \/ UNCHANGED <<changelog, via>>
  /\ Exit(r, "failed")
  /\ UNCHANGED <<dirVars, ran, torn, waived, cur, applied>>

(***************************************************************************)
(* baseline, reset, status                                                 *)
(***************************************************************************)
(* --all, --up-to t or --file t; files already applied are left out.  An   *)
(* argument that names no file ends the command.                           *)
BaselineScan(r) ==
  /\ pc[r] = "scan" /\ mem[r].cmd = "baseline"
  /\ Adopt(mem[r].snap, Files)
  /\ \/ Exit(r, "refused")
     \/ \E files \in {Listed} \cup {{f \in Listed : f <= t} : t \in Listed}
                     \cup {{t} : t \in Listed} :
          /\ Remember(r, [mem[r] EXCEPT !.snap = NoRows,
                                        !.todo = files \ Applied(mem[r].snap)])
          /\ Goto(r, "mark")
  /\ UNCHANGED <<dirVars, ran, torn, waived, cur, applied>>

(* One round of baseline(): the file's present checksum is recorded.  A    *)
(* duplicate key is ignored, a vanished file or a failed INSERT only       *)
(* reported; none of them ends the loop.                                   *)
Mark(r) ==
  /\ pc[r] = "mark" /\ mem[r].todo # {}
  /\ LET f == First(mem[r].todo) IN
       /\ \/ /\ disk[f] # NoFile /\ ~Recorded(f)
             /\ changelog' = [changelog EXCEPT ![f] = Sha[disk[f]]]
             /\ via' = [via EXCEPT ![f] = "marked"]
          \/ UNCHANGED <<changelog, via>>
       /\ Remember(r, [mem[r] EXCEPT !.todo = @ \ {f}])
  /\ UNCHANGED <<dirVars, ran, torn, waived, pc, cur, applied>>

(* reset --yes: DELETE FROM schema_migrations.  Without --yes it only      *)
(* counts the rows.                                                        *)
Reset(r) ==
  /\ pc[r] = "reset"
  /\ \/ /\ changelog' = NoRows
        /\ via' = [f \in Files |-> "none"]
     \/ UNCHANGED <<changelog, via>>
  /\ Exit(r, "done")
  /\ UNCHANGED <<dirVars, ran, torn, waived, cur, applied>>

(* status, and every --dry-run: a read-only adapter, so no checksum is     *)
(* adopted.                                                                *)
StatusScan(r) ==
  /\ pc[r] = "scan" /\ mem[r].cmd = "status"
  /\ Exit(r, "done")
  /\ UNCHANGED <<dirVars, dbVars, cur, applied>>

(***************************************************************************)
(* The environment.                                                        *)
(***************************************************************************)
(* The process dies (killed pod, lost host) between two of its steps.      *)
Crash(r) ==
  /\ Active(r)
  /\ Exit(r, "crashed")
  /\ UNCHANGED <<dirVars, dbVars, cur, applied>>

(* A developer edits, adds or removes a migration file.                    *)
Edit(f, c) ==
  /\ edits < MaxEdits
  /\ Serial => \A q \in Runs : ~Active(q)
  /\ c # disk[f]
  /\ disk' = [disk EXCEPT ![f] = c]
  /\ edits' = edits + 1
  /\ moved' = IF NoFile \in {c, disk[f]} THEN moved \cup {f} ELSE moved
  /\ UNCHANGED <<dbVars, runVars>>

Step(r) ==
  \/ QueryFails(r) \/ ReadRows(r) \/ StatusFails(r)
  \/ PreflightScan(r) \/ RepairChecksum(r) \/ Validate(r) \/ RuntimeGates(r)
  \/ UpScan(r) \/ Finish(r) \/ UpNext(r)
  \/ UpStatement(r) \/ UpStatementFails(r)
  \/ RecordUp(r) \/ RecordFails(r)
  \/ DownScan(r) \/ DownNext(r) \/ DeleteRow(r) \/ DownStatement(r)
  \/ DownStatementFails(r) \/ RestoreRow(r)
  \/ BaselineScan(r) \/ Mark(r) \/ Reset(r) \/ StatusScan(r)

Next ==
  \/ \E r \in Runs, c \in Commands, o \in Options : Start(r, c, o)
  \/ \E r \in Runs : Step(r)
  \/ \E r \in Runs : Crash(r)
  \/ \E f \in Files, c \in Contents \cup {NoFile} : Edit(f, c)

Spec == Init /\ [][Next]_vars

(* Every query and file read returns or throws, so a run that is working   *)
(* keeps taking steps.  Nothing obliges an operator to start one.          *)
FairSpec == Spec /\ \A r \in Runs : WF_vars(Step(r))

(***************************************************************************)
(* What the design must give.                                              *)
(***************************************************************************)
(* A row that up() wrote carries the checksum of a content whose Up        *)
(* section completed on this database and was not rolled back since.  It   *)
(* takes up() hashing the very content it executed, recording only after   *)
(* the last statement, and down() never finishing behind a recorded row.   *)
RecordedWasRun ==
  \A f \in Files :
    via[f] = "applied" => \E c \in ran[f] : changelog[f] = Sha[c]

(* up() stops at the first error, so a migration is recorded only when     *)
(* every earlier one is: the contiguous prefix that gate R1 relies on.     *)
(* Files added or removed meanwhile, and --only, are the known exceptions. *)
ContiguousApplied ==
  \A f, g \in Files \ moved :
    g < f /\ via[f] = "applied" => Recorded(g)

(* A half-executed section is never silent: some run is still executing    *)
(* that file's statements, or ended there by failing or crashing.          *)
TornAccountedFor ==
  \A f \in torn : \E r \in Runs :
    cur[r] = f /\ pc[r] \in {"upExec", "downExec", "restore", "failed",
                             "crashed"}

(* Two overlapping runs may both execute a migration, but the primary key  *)
(* of the changelog lets only one of them report it as applied (as long as *)
(* no row is deleted in between).                                          *)
ReportedOnce ==
  \A r, q \in Runs : r # q => applied[r] \cap applied[q] = {}

(* Gate R1: while up or sync executes, every migration recorded by up() is *)
(* on disk, unedited: with a content that ran.                             *)
Executing(r) == pc[r] \in {"upNext", "upExec", "record"}

ExecutesOnKnownHistory ==
  \A r \in Runs : Executing(r) =>
    \A f \in Files : via[f] = "applied" => disk[f] \in ran[f]

(* The validation gate: a statement executes only from a file that passed  *)
(* validation in this very run, with the content it had then.              *)
ValidatedBeforeRun ==
  \A r \in Runs :
    pc[r] = "upExec" => <<cur[r], mem[r].body>> \in mem[r].checked

(* down() is about to undo a migration that up() recorded: its Down        *)
(* section comes from a content that ran, or --allow-checksum-drift was    *)
(* given knowing that this file was edited.                                *)
RollbackWasReviewed ==
  \A r \in Runs :
    pc[r] = "delete" /\ via[cur[r]] = "applied" =>
      mem[r].body \in ran[cur[r]] \/ cur[r] \in mem[r].drift

(* Every run that starts comes to an end, whatever fails on the way.       *)
RunEnds == \A r \in Runs : Active(r) ~> pc[r] \in Ended

(* What README.md and docs/RUNTIME-GATE-PLAN.md say of gate R1: when a     *)
(* migration that ran here was edited afterwards, up and sync execute      *)
(* nothing, unless an operator accepted the edit (--allow-checksum-drift)  *)
(* or recorded the file as it is (baseline).                               *)
NoSilentDrift ==
  \A r \in Runs : Executing(r) =>
    \A f \in Files :
      Recorded(f) /\ ran[f] # {} /\ f \notin waived /\ via[f] # "marked"
        => disk[f] \in ran[f]
=============================================================================
