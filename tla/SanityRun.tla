----------------------------- MODULE SanityRun ------------------------------
(***************************************************************************)
(* up --sanity-check: upWithSanityCheck() of both adapters and the         *)
(* SanityChecker (src/core/sanity-checker.js) that takes each file through *)
(* its pre-check, its Up, its post-check and, if that fails, its Down.     *)
(*                                                                         *)
(* The adapters hand the checker closures that also write the changelog,   *)
(* so a file is recorded before its post-check.  MariaDB reads the file    *)
(* once; MongoDB reads it for the checks, again for up() and again for     *)
(* down(), and a developer may edit it in between.  A check is raced       *)
(* against a timer; one that lost goes on running: on MariaDB over the one *)
(* connection that the rollback needs too, on MongoDB beside it.           *)
(*                                                                         *)
(* A check only reads.  Up and Down are steps that complete, or fail with  *)
(* some of their effects in place (LockGuard.tla has the statements).      *)
(***************************************************************************)
EXTENDS Naturals

CONSTANTS
  N,          \* files selected by status() and --target / --only, in order
  Contents,   \* what a file may contain
  HasUp,      \* contents with an Up marker, or that export up()
  HasDown,    \* contents with a Down section, or that export down()
  HasPre,     \* contents with a pre-check
  HasPost,    \* contents with a post-check
  CheckLen,   \* statements that a check may have left when its time is up
  Editable,   \* bound: the files that the developer edits, once each
  Nothing     \* no row; no effects; no content

Files == 1..N

ASSUME FileAssumption ==
  N \in Nat /\ CheckLen \in Nat /\ Editable \subseteq Files
ASSUME ContentAssumption ==
  /\ HasUp \subseteq Contents /\ HasDown \subseteq Contents
  /\ HasPre \subseteq Contents /\ HasPost \subseteq Contents
  /\ Nothing \notin Contents

VARIABLES
  kind,         \* the adapter: "maria" or "mongo"
  autoRollback, \* sanityCheck.autoRollback, or not --no-auto-rollback
  disk,         \* file -> its content
  edited,       \* files that were edited during the run
  effects,      \* file -> the content whose Up is in effect
  torn,         \* files with some effects of a section
  row,          \* changelog: file -> the content whose checksum it holds
  pc,           \* where the run is
  cur,          \* the file in hand
  checks,       \* the content its checks come from
  body,         \* the content that is executed and recorded
  report,       \* file -> what the run says of it
  late,         \* statements that a timed-out check has yet to send
  busy          \* MariaDB: the connection executes one of them

(* History variables: no action of the program reads them.                 *)
VARIABLES
  passed,       \* <<file, check, content>>: that check of it passed
  failedPost,   \* files whose post-check failed or timed out
  did,          \* <<file, content>>: its Up completed
  undid         \* <<file, content>>: its Down completed

config == <<kind, autoRollback>>
dirVars == <<disk, edited>>
dbVars == <<effects, torn, row>>
lateVars == <<late, busy>>
history == <<passed, failedPost, did, undid>>
vars == <<config, dirVars, dbVars, pc, cur, checks, body, report,
          lateVars, history>>

Ended == {"done", "stopped", "crashed"}
Checking == {"pre", "post"}
Reports == {"none", "applied", "refused", "error", "left", "undone",
            "undo failed"}

TypeOK ==
  /\ kind \in {"maria", "mongo"} /\ autoRollback \in BOOLEAN
  /\ disk \in [Files -> Contents]
  /\ edited \subseteq Files
  /\ effects \in [Files -> Contents \cup {Nothing}]
  /\ torn \subseteq Files
  /\ row \in [Files -> Contents \cup {Nothing}]
  /\ pc \in {"next", "load", "up", "record", "undo", "unrecord"}
              \cup Checking \cup Ended
  /\ cur \in 1..N + 1
  /\ checks \in Contents \cup {Nothing}
  /\ body \in Contents \cup {Nothing}
  /\ report \in [Files -> Reports]
  /\ late \in 0..CheckLen
  /\ busy \in BOOLEAN
  /\ passed \subseteq Files \X Checking \X Contents
  /\ failedPost \subseteq Files
  /\ did \subseteq Files \X Contents
  /\ undid \subseteq Files \X Contents

(* The batch starts: its files are pending and nothing of them is in place. *)
Init ==
  /\ kind \in {"maria", "mongo"} /\ autoRollback \in BOOLEAN
  /\ disk \in [Files -> Contents] /\ edited = {}
  /\ effects = [f \in Files |-> Nothing]
  /\ row = [f \in Files |-> Nothing]
  /\ torn = {}
  /\ pc = "next" /\ cur = 1 /\ checks = Nothing /\ body = Nothing
  /\ report = [f \in Files |-> "none"]
  /\ late = 0 /\ busy = FALSE
  /\ passed = {} /\ failedPost = {} /\ did = {} /\ undid = {}

(***************************************************************************)
(* The loop of upWithSanityCheck().                                        *)
(***************************************************************************)
Says(what) == report' = [report EXCEPT ![cur] = what]

(* An error of the file in hand, or a sanity result without success: it is *)
(* reported and the loop breaks.                                           *)
Stop(what) == Says(what) /\ pc' = "stopped"

(* Where the run goes when nothing, or no more, has to be checked first.   *)
Execute == pc' = IF kind = "mongo" THEN "load" ELSE "up"

AllDone ==
  /\ pc = "next" /\ cur > N
  /\ pc' = "done"
  /\ UNCHANGED <<config, dirVars, dbVars, cur, checks, body, report>>
  /\ UNCHANGED <<lateVars, history>>

(* Read the next file.  MariaDB wants an Up marker; MongoDB imports the    *)
(* module (which may fail) and asks for up() only when it gets there.      *)
ReadFile ==
  /\ pc = "next" /\ cur <= N
  /\ LET c == disk[cur] IN
       \/ /\ kind = "mongo" \/ c \notin HasUp
          /\ Stop("error")
          /\ UNCHANGED <<checks, body>>
       \/ /\ kind = "maria" => c \in HasUp
          /\ checks' = c
          /\ body' = c
          /\ IF c \in HasPre THEN pc' = "pre" ELSE Execute
          /\ UNCHANGED report
  /\ UNCHANGED <<config, dirVars, dbVars, cur, lateVars, history>>

(* runWithTimeout(): the check answers in time, and passes.                *)
CheckPasses ==
  /\ pc \in Checking
  /\ passed' = passed \cup {<<cur, pc, checks>>}
  /\ \/ /\ pc = "pre" /\ Execute
        /\ UNCHANGED <<cur, report>>
     \/ /\ pc = "post" /\ pc' = "next"
        /\ cur' = cur + 1
        /\ Says("applied")
  /\ UNCHANGED <<config, dirVars, dbVars, checks, body, lateVars>>
  /\ UNCHANGED <<failedPost, did, undid>>

(* Mutant of CheckFailed: without auto-rollback the file counts as applied. *)
CheckFailedButApplied ==
  \/ /\ pc = "pre" /\ Stop("refused")
     /\ UNCHANGED failedPost
  \/ /\ pc = "post"
     /\ failedPost' = failedPost \cup {cur}
     /\ \/ autoRollback /\ pc' = "undo" /\ UNCHANGED report
        \/ ~autoRollback /\ Stop("applied")

(* A check that fails, throws or is out of time.  After a pre-check nothing *)
(* is executed; after a post-check the Down is, or the file is left.       *)
CheckFailed ==
  \/ /\ pc = "pre" /\ Stop("refused")
     /\ UNCHANGED failedPost
  \/ /\ pc = "post"
     /\ failedPost' = failedPost \cup {cur}
     /\ \/ autoRollback /\ pc' = "undo" /\ UNCHANGED report
        \/ ~autoRollback /\ Stop("left")

CheckFails ==
  /\ CheckFailed
  /\ UNCHANGED <<config, dirVars, dbVars, cur, checks, body, lateVars>>
  /\ UNCHANGED <<passed, did, undid>>

CheckNeverTimesOut == FALSE /\ UNCHANGED vars    \* mutant: no timer

(* The timer wins the race.  The check is not cancelled: it goes on with   *)
(* the statement it waits for and those it has yet to send.                *)
CheckTimesOut ==
  /\ CheckFailed
  /\ late' \in 1..CheckLen
  /\ busy' = (kind = "maria")
  /\ UNCHANGED <<config, dirVars, dbVars, cur, checks, body>>
  /\ UNCHANGED <<passed, did, undid>>

(* A MongoDB check that returns no result object makes the checker throw:  *)
(* there is no rollback, even when Up has run.                             *)
CheckReturnsNothing ==
  /\ kind = "mongo" /\ pc \in Checking
  /\ Stop("error")
  /\ UNCHANGED <<config, dirVars, dbVars, cur, checks, body, lateVars>>
  /\ UNCHANGED history

(* _applyOne() of MongoDB reads the file again; it may fail to.            *)
ReadAgain ==
  /\ pc = "load"
  /\ \/ Stop("error") /\ UNCHANGED body
     \/ /\ disk[cur] \in HasUp
        /\ body' = disk[cur]
        /\ pc' = "up"
        /\ UNCHANGED report
  /\ UNCHANGED <<config, dirVars, dbVars, cur, checks, lateVars, history>>

UpCompletes ==
  /\ pc = "up"
  /\ effects' = [effects EXCEPT ![cur] = body]
  /\ did' = did \cup {<<cur, body>>}
  /\ pc' = "record"
  /\ UNCHANGED <<config, dirVars, torn, row, cur, checks, body, report>>
  /\ UNCHANGED <<lateVars, passed, failedPost, undid>>

(* What the failed Up did before stays; nothing is recorded or undone.     *)
UpFails ==
  /\ pc = "up"
  /\ torn' \in {torn, torn \cup {cur}}
  /\ Stop("error")
  /\ UNCHANGED <<config, dirVars, effects, row, cur, checks, body>>
  /\ UNCHANGED <<lateVars, history>>

(* The rest of the "up" closure: the row, before the post-check.  It holds *)
(* the checksum of what was executed.  The post-check is that of the       *)
(* content read for the checks; without one the file is applied.           *)
Record ==
  /\ pc = "record"
  /\ row' = [row EXCEPT ![cur] = body]
  /\ IF checks \in HasPost
     THEN pc' = "post" /\ UNCHANGED <<cur, report>>
     ELSE pc' = "next" /\ cur' = cur + 1 /\ Says("applied")
  /\ UNCHANGED <<config, dirVars, effects, torn, checks, body>>
  /\ UNCHANGED <<lateVars, history>>

RecordFails ==
  /\ pc = "record"
  /\ Stop("error")
  /\ UNCHANGED <<config, dirVars, dbVars, cur, checks, body, lateVars>>
  /\ UNCHANGED history

(***************************************************************************)
(* Auto-rollback: the "down" closure.                                      *)
(***************************************************************************)
(* MongoDB reads the file again here.                                      *)
ToUndo == IF kind = "mongo" THEN disk[cur] ELSE body

Waiting == kind = "maria" /\ busy    \* for the timed-out check's statement

(* On MariaDB a file without Down has nothing to execute: its row stays,   *)
(* and the result says rolledBack all the same.                            *)
NothingToUndo ==
  /\ pc = "undo" /\ kind = "maria" /\ body \notin HasDown
  /\ Stop("undone")
  /\ UNCHANGED <<config, dirVars, dbVars, cur, checks, body, lateVars>>
  /\ UNCHANGED history

DownRereads ==       \* mutant: MariaDB, too, executes the file as it is now
  /\ pc = "undo" /\ disk[cur] \in HasDown /\ ~Waiting
  /\ effects' = [effects EXCEPT ![cur] =
                   IF disk[cur] = @ THEN Nothing ELSE @]
  /\ torn' = IF disk[cur] = effects[cur] THEN torn ELSE torn \cup {cur}
  /\ undid' = undid \cup {<<cur, disk[cur]>>}
  /\ pc' = "unrecord"
  /\ UNCHANGED <<config, dirVars, row, cur, checks, body, report>>
  /\ UNCHANGED <<lateVars, passed, failedPost, did>>

(* Down undoes the Up of its own content; that of another leaves a mess.   *)
DownCompletes ==
  /\ pc = "undo" /\ ToUndo \in HasDown /\ ~Waiting
  /\ effects' = [effects EXCEPT ![cur] = IF ToUndo = @ THEN Nothing ELSE @]
  /\ torn' = IF ToUndo = effects[cur] THEN torn ELSE torn \cup {cur}
  /\ undid' = undid \cup {<<cur, ToUndo>>}
  /\ pc' = "unrecord"
  /\ UNCHANGED <<config, dirVars, row, cur, checks, body, report>>
  /\ UNCHANGED <<lateVars, passed, failedPost, did>>

(* critical: "Manual intervention required!"  On MongoDB also when the     *)
(* file cannot be read or exports no down().                               *)
DownFails ==
  /\ pc = "undo" /\ ~Waiting
  /\ kind = "mongo" \/ body \in HasDown
  /\ torn' \in {torn, torn \cup {cur}}
  /\ Stop("undo failed")
  /\ UNCHANGED <<config, dirVars, effects, row, cur, checks, body>>
  /\ UNCHANGED <<lateVars, history>>

UnrecordGoOn ==      \* mutant: as MariaDB did before, the loop goes on
  /\ pc = "unrecord" /\ ~Waiting
  /\ row' = [row EXCEPT ![cur] = Nothing]
  /\ Says("undone") /\ pc' = "next" /\ cur' = cur + 1
  /\ UNCHANGED <<config, dirVars, effects, torn, checks, body>>
  /\ UNCHANGED <<lateVars, history>>

UnrecordForgotten ==    \* mutant of Unrecord: the row stays
  /\ pc = "unrecord" /\ ~Waiting
  /\ Stop("undone")
  /\ UNCHANGED <<config, dirVars, dbVars, cur, checks, body, lateVars>>
  /\ UNCHANGED history

Unrecord ==
  /\ pc = "unrecord" /\ ~Waiting
  /\ row' = [row EXCEPT ![cur] = Nothing]
  /\ Stop("undone")
  /\ UNCHANGED <<config, dirVars, effects, torn, cur, checks, body>>
  /\ UNCHANGED <<lateVars, history>>

UnrecordFails ==
  /\ pc = "unrecord" /\ ~Waiting
  /\ Stop("undo failed")
  /\ UNCHANGED <<config, dirVars, dbVars, cur, checks, body, lateVars>>
  /\ UNCHANGED history

(***************************************************************************)
(* The check that lost its race, the developer, and a crash.               *)
(***************************************************************************)
LateAnswerTwice ==   \* mutant: an answer after the last one
  /\ pc \notin Ended
  /\ late' = late - 1
  /\ busy' = FALSE
  /\ UNCHANGED <<config, dirVars, dbVars, pc, cur, checks, body, report>>
  /\ UNCHANGED history

(* The late check's statement is answered.  Its next one may come before   *)
(* or after what the rollback sends.                                       *)
LateAnswer ==
  /\ late > 0 /\ pc \notin Ended
  /\ busy = (kind = "maria")
  /\ late' = late - 1
  /\ busy' = FALSE
  /\ UNCHANGED <<config, dirVars, dbVars, pc, cur, checks, body, report>>
  /\ UNCHANGED history

LateSend ==
  /\ kind = "maria" /\ late > 0 /\ ~busy /\ pc \notin Ended
  /\ busy' = TRUE
  /\ UNCHANGED <<config, dirVars, dbVars, pc, cur, checks, body, report>>
  /\ UNCHANGED <<late, history>>

Edit ==
  /\ pc \notin Ended
  /\ \E f \in Editable \ edited, c \in Contents :
       /\ disk' = [disk EXCEPT ![f] = c]
       /\ edited' = edited \cup {f}
  /\ UNCHANGED <<config, dbVars, pc, cur, checks, body, report>>
  /\ UNCHANGED <<lateVars, history>>

Crash ==
  /\ pc \notin Ended
  /\ pc' = "crashed"
  /\ UNCHANGED <<config, dirVars, dbVars, cur, checks, body, report>>
  /\ UNCHANGED <<lateVars, history>>

(* The run's own steps, which need no more than an answer of the database. *)
(* A check need not answer; the timer always fires.                        *)
Proceed ==
  \/ AllDone \/ ReadFile \/ ReadAgain \/ CheckTimesOut
  \/ UpCompletes \/ UpFails \/ Record \/ RecordFails
  \/ NothingToUndo \/ DownCompletes \/ DownFails
  \/ Unrecord \/ UnrecordFails

Answer == CheckPasses \/ CheckFails \/ CheckReturnsNothing

Next == Proceed \/ Answer \/ LateAnswer \/ LateSend \/ Edit \/ Crash

Spec == Init /\ [][Next]_vars

(* On MariaDB the rollback waits for the timed-out check, so its statements *)
(* must be answered; on MongoDB it need not ever be.                       *)
FairSpec ==
  Spec /\ WF_vars(Proceed) /\ WF_vars(kind = "maria" /\ LateAnswer)

(***************************************************************************)
(* What a run with sanity checks promises.                                 *)
(***************************************************************************)
CheckedBy(f, c) ==
  /\ c \in HasPre => <<f, "pre", c>> \in passed
  /\ c \in HasPost => <<f, "post", c>> \in passed

(* upWithSanityCheck(): a file reported as applied is recorded with what   *)
(* was executed and is in effect, and that content passed its own checks   *)
(* (on MongoDB: unless the file changed between two of its readings).      *)
AppliedWasChecked ==
  \A f \in Files : report[f] = "applied" =>
    /\ row[f] # Nothing /\ row[f] = effects[f]
    /\ kind = "maria" \/ f \notin edited => CheckedBy(f, row[f])

(* "Stop either way ... later migrations may depend on it": once a file    *)
(* was not applied, nothing is executed or recorded of a later one.        *)
StopsAtFailure ==
  \A f, g \in Files :
    f < g /\ report[f] \notin {"none", "applied"} =>
      /\ report[g] = "none" /\ row[g] = Nothing
      /\ effects[g] = Nothing /\ g \notin torn

(* docs/DDL-PRODUCTION-SAFETY.md: Down is executed only for a file whose   *)
(* Up completed and whose post-check failed; and it is the Down that       *)
(* belongs to that Up (on MongoDB: unless the file was edited since).      *)
DownOnlyForCompleted ==
  \A f \in Files, c \in Contents : <<f, c>> \in undid =>
    /\ autoRollback /\ f \in failedPost
    /\ \E d \in Contents : <<f, d>> \in did
    /\ kind = "maria" \/ f \notin edited => <<f, c>> \in did

(* What the summary tells an operator.  A refused file was not touched; a  *)
(* rolled back one, if it has a Down, is neither in effect nor recorded    *)
(* (if a MongoDB file was edited since, it is at least not recorded); one  *)
(* left in place is both.                                                  *)
ReportIsTrue ==
  \A f \in Files :
    /\ report[f] = "refused" =>
         row[f] = Nothing /\ effects[f] = Nothing /\ f \notin torn
    /\ report[f] = "undone" /\ body \in HasDown =>
         /\ row[f] = Nothing
         /\ kind = "maria" \/ f \notin edited =>
              effects[f] = Nothing /\ f \notin torn
    /\ report[f] = "left" => row[f] # Nothing /\ row[f] = effects[f]

(* A check that never answers does not keep a run from ending.             *)
RunEnds == <>(pc \in Ended)

(***************************************************************************)
(* What the documents say and the code does not do.                        *)
(***************************************************************************)
(* formatDDLFailureDetails(): the failure email says "ROLLBACK FAILED" of  *)
(* any sanity result that is neither a success nor rolled back.            *)
EmailSaysRollbackFailed(f) == report[f] \in {"refused", "left", "undo failed"}

(* The comment above it: that is said when the auto-rollback "itself       *)
(* failed and left a half-applied migration behind".  The code says it of  *)
(* a failed pre-check, too, before which nothing has run.                  *)
RollbackFailedWasTried ==
  \A f \in Files : EmailSaysRollbackFailed(f) => <<f, body>> \in did
=============================================================================
