----------------------------- MODULE LockGuard ------------------------------
(***************************************************************************)
(* executeWithLockGuard() of src/adapters/mariadb-adapter.js: how up() and *)
(* down() send the sections of their files, one after the other, over one  *)
(* connection.  A section is split into statements that are sent one at a  *)
(* time; a statement that runs into a lock wait timeout (errno 1205) is    *)
(* sent again, up to maxRetries attempts.  A section that cannot be split, *)
(* and every section when the guard is off, is sent as one batch, once.    *)
(* A file may set a statement time limit (max_statement_time), which is    *)
(* put back after it.                                                      *)
(*                                                                         *)
(* Statements are numbered through all sections; Last[s] is the number of  *)
(* the last statement of section s.  The server answers as it likes.       *)
(***************************************************************************)
EXTENDS Naturals, Sequences

CONSTANTS
  Total,        \* statements of all sections
  Sections,     \* number of sections
  Last,         \* section -> its last statement
  MaxRetries,   \* ddlSafety.lockGuard.maxRetries
  Limits        \* the statement time limits that files ask for (seconds)

NoLimit == 0    \* the session's own limit, and a file that asks for none

Start(s) == IF s = 1 THEN 1 ELSE Last[s - 1] + 1

ASSUME SectionAssumption ==
  /\ Total \in Nat /\ Sections \in Nat \ {0}
  /\ Last \in [1..Sections -> 0..Total]
  /\ \A s, t \in 1..Sections : s <= t => Last[s] <= Last[t]
  /\ Last[Sections] = Total
ASSUME LimitAssumption == Limits \subseteq Nat \ {NoLimit}
ASSUME RetryAssumption == MaxRetries \in Nat

VARIABLES
  enabled,      \* ddlSafety.lockGuard.enabled
  split,        \* per section: splitSqlStatements() is sure of its split
  limit,        \* per section: its statement time limit
  pc,           \* where executeWithLockGuard() is
  section,      \* the section it executes
  next,         \* the statement to send next
  attempt,      \* the attempt this is, for that statement
  error,        \* an exception is on its way to the caller
  session,      \* the session's max_statement_time
  previous,     \* what it was before the section set it
  outcome       \* what up() or down() tells: "running" until it does

(* History variables: no action of the program reads them.                 *)
VARIABLES
  took,         \* the statements that took effect on the server, in order
  sent,         \* how many times each statement was sent
  stopped,      \* statements that ended with an error other than 1205
  leaked        \* the limit could not be put back at some time

config == <<enabled, split, limit>>
server == <<took, sent, stopped>>
limits == <<session, previous, leaked>>
vars == <<config, pc, section, next, attempt, error, outcome, server, limits>>

AttemptsAtMost == IF MaxRetries > 1 THEN MaxRetries ELSE 1

Places == {"begin", "limit", "guard", "query", "sleep", "batch", "restore",
           "end"}

TypeOK ==
  /\ enabled \in BOOLEAN
  /\ split \in [1..Sections -> BOOLEAN]
  /\ limit \in [1..Sections -> Limits \cup {NoLimit}]
  /\ pc \in Places
  /\ section \in 1..Sections
  /\ next \in 1..Total + 1
  /\ attempt \in 1..AttemptsAtMost
  /\ error \in BOOLEAN
  /\ session \in Limits \cup {NoLimit}
  /\ previous \in Limits \cup {NoLimit}
  /\ outcome \in {"running", "done", "failed"}
  /\ took \in Seq(Nat)
  /\ sent \in [1..Total -> Nat]
  /\ stopped \subseteq 1..Total
  /\ leaked \in BOOLEAN

Init ==
  /\ enabled \in BOOLEAN
  /\ split \in [1..Sections -> BOOLEAN]
  /\ limit \in [1..Sections -> Limits \cup {NoLimit}]
  /\ pc = "begin" /\ section = 1 /\ next = 1 /\ attempt = 1
  /\ error = FALSE /\ outcome = "running"
  /\ session = NoLimit /\ previous = NoLimit /\ leaked = FALSE
  /\ took = <<>> /\ sent = [i \in 1..Total |-> 0] /\ stopped = {}

Fails == pc' = "end" /\ outcome' = "failed"

(* The caller reads the file and its time limit, or fails at that (or at   *)
(* the row of the file before).  With a limit, the session's own is read   *)
(* first; an error here (MySQL has no such variable) ends the call too.    *)
ReadLimit ==
  /\ pc = "begin"
  /\ \/ /\ limit[section] = NoLimit
        /\ pc' = "guard"
        /\ UNCHANGED <<previous, outcome>>
     \/ /\ limit[section] # NoLimit
        /\ previous' = session
        /\ pc' = "limit"
        /\ UNCHANGED outcome
     \/ /\ Fails
        /\ UNCHANGED previous
  /\ UNCHANGED <<config, section, next, attempt, error, server>>
  /\ UNCHANGED <<session, leaked>>

(* SET SESSION max_statement_time, still outside the try block.            *)
SetLimit ==
  /\ pc = "limit"
  /\ \/ /\ session' = limit[section]
        /\ pc' = "guard"
        /\ UNCHANGED outcome
     \/ /\ Fails
        /\ UNCHANGED session
  /\ UNCHANGED <<config, section, next, attempt, error, server>>
  /\ UNCHANGED <<previous, leaked>>

(* An exception of _executeGuarded(), or its return.  With a limit, the    *)
(* finally block comes first.                                              *)
Throw ==
  IF limit[section] # NoLimit
  THEN pc' = "restore" /\ error' = TRUE /\ UNCHANGED outcome
  ELSE Fails /\ UNCHANGED error

(* The caller goes on with the next file, or is done.                      *)
GoOn ==
  IF section = Sections
  THEN pc' = "end" /\ outcome' = "done" /\ UNCHANGED section
  ELSE pc' = "begin" /\ section' = section + 1 /\ UNCHANGED outcome

Return ==
  IF limit[section] # NoLimit
  THEN pc' = "restore" /\ UNCHANGED <<section, outcome>>
  ELSE GoOn

(* An empty Up section is not sent at all.                                 *)
SkipSection ==
  /\ pc = "begin"
  /\ next > Last[section]
  /\ GoOn
  /\ UNCHANGED <<config, next, attempt, error, server, limits>>

(* The guard sets the session's lock wait timeouts and database, any of    *)
(* which may fail; then it splits the section.                             *)
EnterGuard ==
  /\ pc = "guard"
  /\ \/ /\ pc' = IF enabled /\ split[section] THEN "query" ELSE "batch"
        /\ UNCHANGED <<error, outcome>>
     \/ Throw
  /\ UNCHANGED <<config, section, next, attempt, server, limits>>

Sending == pc \in {"query", "batch"} /\ next <= Last[section]

(* The next statement of a section takes effect and is answered.           *)
StatementRuns ==
  /\ Sending
  /\ took' = Append(took, next)
  /\ sent' = [sent EXCEPT ![next] = @ + 1]
  /\ next' = next + 1
  /\ attempt' = 1
  /\ UNCHANGED <<config, pc, section, error, outcome, stopped, limits>>

(* All of them ran (or there were none, only comments).                    *)
SectionEnds ==
  /\ pc \in {"query", "batch"} /\ next > Last[section]
  /\ Return
  /\ UNCHANGED <<config, next, attempt, error, server, limits>>

(* Mutant of StatementFails: whatever the error, the statement is retried. *)
StatementFailsRetried ==
  /\ Sending
  /\ sent' = [sent EXCEPT ![next] = @ + 1]
  /\ stopped' = stopped \cup {next}
  /\ IF attempt < MaxRetries
     THEN /\ pc' = "sleep" /\ attempt' = attempt + 1
          /\ UNCHANGED <<error, outcome>>
     ELSE Throw /\ attempt' = 1
  /\ UNCHANGED <<config, section, next, took, limits>>

(* A statement fails with anything but a lock wait timeout: it was wrong,  *)
(* the time limit or KILL QUERY stopped it, the connection went away.  A   *)
(* lost connection may hide that it took effect.                           *)
StatementFails ==
  /\ Sending
  /\ \/ UNCHANGED took
     \/ took' = Append(took, next)
  /\ next' = next + Len(took') - Len(took)
  /\ sent' = [sent EXCEPT ![next] = @ + 1]
  /\ stopped' = stopped \cup {next}
  /\ Throw
  /\ attempt' = 1
  /\ UNCHANGED <<config, section, limits>>

(* Mutants of LockWaitTimesOut: the whole section is retried, as the guard *)
(* did before version 3.0.1; one attempt too many is made.                 *)
LockWaitRetriesSection ==
  /\ Sending
  /\ sent' = [sent EXCEPT ![next] = @ + 1]
  /\ IF attempt < MaxRetries
     THEN /\ pc' = "sleep" /\ attempt' = attempt + 1
          /\ next' = Start(section)
          /\ UNCHANGED <<error, outcome>>
     ELSE Throw /\ attempt' = 1 /\ UNCHANGED next
  /\ UNCHANGED <<config, section, took, stopped, limits>>

LockWaitOneMore ==
  /\ Sending
  /\ sent' = [sent EXCEPT ![next] = @ + 1]
  /\ \/ /\ pc = "query" /\ attempt <= MaxRetries
        /\ pc' = "sleep"
        /\ attempt' = attempt + 1
        /\ UNCHANGED <<error, outcome>>
     \/ /\ pc = "batch" \/ attempt > MaxRetries
        /\ Throw
        /\ attempt' = 1
  /\ UNCHANGED <<config, section, next, took, stopped, limits>>

(* errno 1205: the statement had no effect.  Split statements are sent     *)
(* again after a delay while attempts are left; a batch never is.          *)
LockWaitTimesOut ==
  /\ Sending
  /\ sent' = [sent EXCEPT ![next] = @ + 1]
  /\ \/ /\ pc = "query" /\ attempt < MaxRetries
        /\ pc' = "sleep"
        /\ attempt' = attempt + 1
        /\ UNCHANGED <<error, outcome>>
     \/ /\ pc = "batch" \/ attempt >= MaxRetries
        /\ Throw
        /\ attempt' = 1
  /\ UNCHANGED <<config, section, next, took, stopped, limits>>

SendAgainRearmed ==    \* mutant: the timer is armed again and again
  /\ pc = "sleep"
  /\ UNCHANGED vars

SendAgain ==
  /\ pc = "sleep"
  /\ pc' = "query"
  /\ UNCHANGED <<config, section, next, attempt, error, outcome>>
  /\ UNCHANGED <<server, limits>>

(* Mutants of RestoreLimit: only after success, only after an error.       *)
RestoreAfterSuccess ==
  /\ pc = "restore"
  /\ session' = IF error THEN session ELSE previous
  /\ IF error THEN Fails /\ UNCHANGED section ELSE GoOn
  /\ UNCHANGED <<config, next, attempt, error, server, previous, leaked>>

RestoreAfterError ==
  /\ pc = "restore"
  /\ session' = IF error THEN previous ELSE session
  /\ IF error THEN Fails /\ UNCHANGED section ELSE GoOn
  /\ UNCHANGED <<config, next, attempt, error, server, previous, leaked>>

(* The finally block: its failure is ignored.                              *)
RestoreLimit ==
  /\ pc = "restore"
  /\ \/ session' = previous /\ UNCHANGED leaked
     \/ leaked' = TRUE /\ UNCHANGED session
  /\ IF error THEN Fails /\ UNCHANGED section ELSE GoOn
  /\ UNCHANGED <<config, next, attempt, error, server, previous>>

Step ==
  \/ ReadLimit \/ SetLimit \/ SkipSection \/ EnterGuard \/ SectionEnds
  \/ StatementRuns \/ StatementFails \/ LockWaitTimesOut \/ SendAgain
  \/ RestoreLimit

(* The process dies, and its connection with it.                           *)
Crash ==
  /\ outcome = "running"
  /\ Fails
  /\ session' = NoLimit
  /\ UNCHANGED <<config, section, next, attempt, error, server>>
  /\ UNCHANGED <<previous, leaked>>

Next == Step \/ Crash

Spec == Init /\ [][Next]_vars

(* The server answers every query, or the driver gives up on it.           *)
FairSpec == Spec /\ WF_vars(Step)

(***************************************************************************)
(* What the guard promises.                                                *)
(***************************************************************************)
(* Retries, batches, lost answers and all: the sections take effect as the *)
(* callers count on, each statement at most once and in order.             *)
Order == INSTANCE StatementOrder WITH log <- took
ImplementsOrder == Order!Spec

(* docs/LOCK-GUARD.md: up to maxRetries attempts for one statement (one if *)
(* maxRetries is 0), and one only when the section goes out as a batch.    *)
Attempts(s) == IF enabled /\ split[s] THEN AttemptsAtMost ELSE 1

AttemptsBounded ==
  \A s \in 1..Sections : \A i \in Start(s)..Last[s] : sent[i] <= Attempts(s)

(* A statement that the server stopped or refused is never sent again:     *)
(* neither by this section nor by a later one.                             *)
StoppedForGood == [][\A i \in stopped : sent'[i] = sent[i]]_vars

(* Statements execute under the time limit of their own file.  Only where  *)
(* the file has none may that of an earlier one linger, because putting it *)
(* back had failed.                                                        *)
OwnLimit ==
  pc \in {"query", "sleep", "batch"} =>
    session = limit[section] \/ (leaked /\ limit[section] = NoLimit)

(* What the caller executes afterwards, on success or failure (the rows of *)
(* the changelog), is under no file's limit, if it could be put back.      *)
LimitPutBack == pc \in {"begin", "end"} => session = NoLimit \/ leaked

(* The calls come to an end, however often locks are waited for.           *)
CallsEnd == <>(outcome # "running")
=============================================================================
