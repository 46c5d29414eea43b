------------------------------- MODULE DclRun -------------------------------
(***************************************************************************)
(* Repeatable (DCL) migrations: the commands dcl, dcl-all and dcl:verify   *)
(* of src/cli.js over src/core/repeatable-runner.js, the account captures  *)
(* of src/core/dcl-idempotent-checker.js and the notification email of     *)
(* src/core/reporter.js (Notifications.tla).                               *)
(*                                                                         *)
(* A file that changed since its checksum was recorded is executed again.  *)
(* Its placeholders get generated passwords, which exist only in the       *)
(* memory of the run until the email of the run is written: what matters   *)
(* is who knows the password of an account.                                *)
(*                                                                         *)
(* Several runs may work on the same servers; every await that reads or    *)
(* changes a server or the email directory is a step.  Reading the files   *)
(* and then the checksums is one step, since no action of a run depends on *)
(* the one and changes the other.                                          *)
(***************************************************************************)
EXTENDS Notifications

CONSTANTS
  Runs,        \* CLI invocations; each runs one command, once
  Instances,   \* sequence: the configured instances, in order
  Kind,        \* instance -> "maria" or "mongo"
  N,           \* R__ file names, 1..N in sorting order
  Contents,    \* what a file may contain
  Script,      \* content -> its account statements, a sequence
  Blocked,     \* contents that dcl --validate does not let through
  Sha,         \* SHA-256 of each content
  NoFile,      \* disk: there is no such file
  NoSum,       \* checksum table: no record
  NoAccount,   \* server: the account does not exist
  Given,       \* a password that no run generated
  Mute,        \* event: no password is shown
  Accounts,    \* names of accounts
  Layouts,     \* directories that the developer may begin with
  Created,     \* sets of accounts that may exist before, by other means
  Commands,    \* policy -> the commands that operators issue
  Policies,    \* "Forbid": one run at a time; "Allow": runs may overlap
  MaxEdits,    \* bound, per policy: how many changes the developer makes
  MaxFaults    \* bound, per policy: how many steps fail

Files == 1..N
Places == ToSet(Instances)
Sums == {Sha[c] : c \in Contents}

(* create: CREATE USER IF NOT EXISTS; replace: CREATE OR REPLACE USER;     *)
(* reset: ALTER USER or SET PASSWORD; each with a placeholder.  other: a   *)
(* CREATE USER IF NOT EXISTS with a password of its own.                   *)
Ops == {"create", "replace", "reset", "drop", "other"}
Generating == {"create", "replace", "reset"}

Longest == 4          \* bound: statements of a file

(* A generated password: by which run, file, statement and (verify) time.  *)
Secrets == [run : Runs, file : Files, at : 1..Longest, pass : {1, 2}]

(* The instances are the keys of an object in the configuration.           *)
ASSUME InstanceAssumption ==
  /\ Instances \in Seq(Places)
  /\ \A j, k \in DOMAIN Instances : Instances[j] = Instances[k] => j = k
  /\ Places \cup {"notification"} \subseteq Names
  /\ Runs \X BOOLEAN \subseteq Emails

ASSUME ScriptAssumption ==
  /\ N \in Nat
  /\ MaxEdits \in [Policies -> Nat] /\ MaxFaults \in [Policies -> Nat]
  /\ Kind \in [Places -> {"maria", "mongo"}]
  /\ Script \in [Contents -> Seq([op : Ops, on : Accounts])]
  /\ \A c \in Contents : Len(Script[c]) <= Longest
  /\ \A c \in Contents : \A j, k \in DOMAIN Script[c] :
       Script[c][j].op = "reset" =>
         Script[c][k].op \in {"reset", "drop", "other"}
  /\ Blocked \subseteq Contents
  /\ Layouts \subseteq [Files -> Contents \cup {NoFile}]
  /\ Created \subseteq SUBSET Accounts
  /\ Sha \in [Contents -> Sums]
  /\ \A c, d \in Contents : Sha[c] = Sha[d] => c = d
  /\ NoFile \notin Contents /\ NoSum \notin Sums
  /\ {NoAccount, Given, Mute} \cap Secrets = {} /\ NoAccount # Given
  /\ Policies \subseteq {"Forbid", "Allow"}
  /\ Commands \in [Policies -> SUBSET {"dcl", "dcl-all", "dcl:verify"}]

Passwords == Secrets \cup {NoAccount, Given}

Event == [kind : {"nothing", "new", "password_changed", "no_change"},
          pw : Secrets \cup {Mute}]
Nothing == [kind |-> "nothing", pw |-> Mute]

VARIABLES
  policy,   \* whether runs may overlap
  disk,     \* the directory of R__ files: file -> content or NoFile
  edits,    \* how many times the developer has changed it
  faults,   \* how many steps have failed
  accounts, \* instance -> account -> its password, if it exists
  sums,     \* instance -> file -> recorded checksum
  pc,       \* per run: where it is
  mem       \* per run: the rest of its memory, a record of Memory

(* History variables: no action of the program reads them.                 *)
VARIABLES
  ran,      \* instance -> file -> contents executed to the end
  fate,     \* instance -> account -> of a generated password in force:
            \* "mailed" in an email written, "lost" to every email, or "open"
  claims    \* per run at work: <<instance, file, content>> it holds applied

world == <<policy, disk, edits>>
servers == <<accounts, sums>>
history == <<ran, fate, claims>>
vars == <<world, faults, servers, mailVars, pc, mem, history>>

Ended == {"done", "failed", "crashed"}
Working == {"gate", "forget", "before", "begin", "file", "look", "exec", "sum",
            "after", "copy", "latest", "prune", "remove", "next",
            "verify", "capture"}

Memory ==
  [cmd : {"none", "dcl", "dcl-all", "dcl:verify"},
   queue : Seq(Places),                  \* instances still to process
   validate : BOOLEAN,
   list : [Files -> Contents \cup {NoFile}],
   known : [Files -> Sums \cup {NoSum}],
   orphans : SUBSET Files,               \* recorded, and not on disk
   file : 0..(N + 1), at : Nat, pass : 0..2,
   body : Contents \cup {NoFile},        \* what is executed
   found : SUBSET Accounts,              \* that existed before the file
   made : SUBSET Accounts,               \* that an up() has created
   before : SUBSET Accounts,             \* the capture before the files
   events : [Accounts -> Event],         \* credentialEvents, merged
   bare : SUBSET Accounts,               \* rows of new accounts without one
   applied : BOOLEAN, error : BOOLEAN, skipped : BOOLEAN,
   bad : BOOLEAN,                        \* process.exitCode, hasErrors
   failure : BOOLEAN,                    \* the email of the outer catch
   victims : SUBSET Emails]

Unlisted == [f \in Files |-> NoFile]
Unknown == [f \in Files |-> NoSum]
Quiet == [a \in Accounts |-> Nothing]
Blank == [cmd |-> "none", queue |-> <<>>, validate |-> FALSE,
          list |-> Unlisted, known |-> Unknown, orphans |-> {}, file |-> 0,
          at |-> 0, pass |-> 0, body |-> NoFile, found |-> {}, made |-> {},
          before |-> {}, events |-> Quiet, bare |-> {}, applied |-> FALSE,
          error |-> FALSE, skipped |-> FALSE, bad |-> FALSE,
          failure |-> FALSE, victims |-> {}]

TypeOK ==
  /\ MailTypeOK
  /\ policy \in Policies
  /\ disk \in [Files -> Contents \cup {NoFile}]
  /\ edits \in 0..MaxEdits[policy]
  /\ faults \in 0..MaxFaults[policy]
  /\ accounts \in [Places -> [Accounts -> Passwords]]
  /\ sums \in [Places -> [Files -> Sums \cup {NoSum}]]
  /\ pc \in [Runs -> Working \cup Ended \cup {"ready"}]
  /\ mem \in [Runs -> Memory]
  /\ ran \in [Places -> [Files -> SUBSET Contents]]
  /\ fate \in [Places -> [Accounts -> {"open", "mailed", "lost"}]]
  /\ claims \in [Runs -> SUBSET (Places \X Files \X Contents)]

Active(r) == pc[r] \in Working
Here(r) == Head(mem[r].queue)
Existing(i) == {a \in Accounts : accounts[i][a] # NoAccount}

Init ==
  /\ policy \in Policies
  /\ disk \in Layouts
  /\ edits = 0 /\ faults = 0
  /\ \E old \in Created :
       accounts = [i \in Places |-> [a \in Accounts |->
                     IF a \in old THEN Given ELSE NoAccount]]
  /\ sums = [i \in Places |-> Unknown]
  /\ MailInit
  /\ pc = [r \in Runs |-> "ready"]
  /\ mem = [r \in Runs |-> Blank]
  /\ ran = [i \in Places |-> [f \in Files |-> {}]]
  /\ fate = [i \in Places |-> [a \in Accounts |-> "open"]]
  /\ claims = [r \in Runs |-> {}]

Goto(r, label) == pc' = [pc EXCEPT ![r] = label]
Remember(r, m) == mem' = [mem EXCEPT ![r] = m]
Exit(r, label) ==
  /\ Goto(r, label) /\ Remember(r, Blank)
  /\ claims' = [claims EXCEPT ![r] = {}]

(* What becomes of passwords that a run has set on an instance and no      *)
(* email shows.                                                            *)
Losing(r, i, passwords) ==
  fate' = [fate EXCEPT ![i] = [a \in Accounts |->
    IF /\ accounts[i][a] \in Secrets /\ accounts[i][a].run = r
       /\ accounts[i][a] \in passwords /\ @[a] = "open"
    THEN "lost" ELSE @[a]]]

OfFile(f) == {p \in Secrets : p.file = f}

(* A run between two instances, or in the outer catch of dcl.              *)
Afresh(r) == [Blank EXCEPT !.cmd = mem[r].cmd, !.queue = mem[r].queue,
                           !.validate = mem[r].validate, !.bad = mem[r].bad]

(***************************************************************************)
(* The commands, up to runner.run().                                       *)
(***************************************************************************)
Start(r) ==
  /\ pc[r] = "ready"
  /\ policy = "Forbid" => \A q \in Runs : ~Active(q)
  /\ \E c \in Commands[policy], v \in BOOLEAN, i \in Places :
       /\ v => c # "dcl:verify"
       /\ Remember(r, [Blank EXCEPT
            !.cmd = c, !.validate = v,
            !.queue = IF c = "dcl-all" THEN Instances ELSE <<i>>])
       /\ Goto(r, IF c = "dcl:verify" THEN "verify" ELSE "gate")
  /\ UNCHANGED <<world, servers, mailVars, history>>

(* An exception: dcl writes an email without events in its outer catch;    *)
(* dcl-all notes it and turns to the next instance; dcl:verify ends.       *)
Throw(r) ==
  /\ Losing(r, Here(r), Secrets)
  /\ IF mem[r].cmd = "dcl:verify" THEN Exit(r, "failed")
     ELSE /\ Remember(r, [Afresh(r) EXCEPT !.bad = TRUE,
                             !.failure = (mem[r].cmd = "dcl")])
          /\ Goto(r, IF mem[r].cmd = "dcl" THEN "copy" ELSE "next")
          /\ UNCHANGED claims

(* connect() or gate R3 fails, or a query or reading the files.            *)
Fails(r) ==
  /\ \/ pc[r] \in {"gate", "forget", "begin"}
     \/ pc[r] = "verify" /\ mem[r].file = 0
  /\ Throw(r)
  /\ UNCHANGED <<world, servers, mailVars, ran>>

(* enforceRuntimeGates(), and status() of enforceRemovedDCLGate().         *)
Gate(r) ==
  /\ pc[r] = "gate"
  /\ LET orphans == {f \in Files : /\ sums[Here(r)][f] # NoSum
                                    /\ disk[f] = NoFile}
     IN  /\ Remember(r, [mem[r] EXCEPT !.orphans = orphans])
         /\ Goto(r, IF orphans = {} THEN "before" ELSE "forget")
  /\ UNCHANGED <<world, servers, mailVars, history>>

(* forgetChecksums(), with --accept-removed-dcl; without it, Fails.        *)
Forget(r) ==
  /\ pc[r] = "forget"
  /\ sums' = [sums EXCEPT ![Here(r)] =
                [f \in Files |-> IF f \in mem[r].orphans THEN NoSum ELSE @[f]]]
  /\ Remember(r, [mem[r] EXCEPT !.orphans = {}])
  /\ Goto(r, "before")
  /\ UNCHANGED <<world, accounts, mailVars, history>>

(* captureDCLState(): an error leaves an empty capture.                    *)
CaptureBefore(r, seen) ==
  /\ pc[r] = "before"
  /\ Remember(r, [mem[r] EXCEPT !.before = seen])
  /\ Goto(r, "begin")
  /\ UNCHANGED <<world, servers, mailVars, history>>

(***************************************************************************)
(* runner.run(): runMariaDB() and runMongoDB().                            *)
(***************************************************************************)
(* getRepeatableFiles() and getStoredChecksums().                          *)
Begin(r) ==
  /\ pc[r] = "begin"
  /\ Remember(r, [mem[r] EXCEPT !.list = disk, !.known = sums[Here(r)]])
  /\ Goto(r, "file")
  /\ claims' = [claims EXCEPT ![r] = @ \cup
       {<<Here(r), f, disk[f]>> : f \in {g \in Files : disk[g] # NoFile}}]
  /\ UNCHANGED <<world, servers, mailVars, ran, fate>>

Generates(c) == \E k \in DOMAIN Script[c] : Script[c][k].op \in Generating

(* Mutant of Stale: a file is skipped once it has any record.              *)
StaleIfUnknown(m) ==
  {f \in Files : f > m.file /\ m.list[f] # NoFile /\ m.known[f] = NoSum}

(* The files after the one in hand whose checksum differs.                 *)
Stale(m) == {f \in Files : /\ f > m.file /\ m.list[f] # NoFile
                           /\ m.known[f] # Sha[m.list[f]]}

Refused(m) == {f \in Stale(m) : m.validate /\ m.list[f] \in Blocked}

(* The loop up to its next await.  A MongoDB file without a placeholder is *)
(* imported from the disk: what it holds by now.                           *)
NextFile(r) ==
  /\ pc[r] = "file"
  /\ LET m == mem[r]
         wanted == Stale(m) \ Refused(m)
         Comes(f) == f \in wanted /\ \A g \in wanted : f <= g
         skipped == {f \in Refused(m) : \A g \in wanted : f < g}
     IN  /\ \/ /\ wanted = {}
               /\ Remember(r, [m EXCEPT !.skipped = @ \/ skipped # {},
                                        !.list = Unlisted, !.known = Unknown])
               /\ Goto(r, "after")
            \/ \E f \in wanted :
                 /\ Comes(f)
                 /\ LET maria == Kind[Here(r)] = "maria"
                        gen == Generates(m.list[f])
                        body == IF maria \/ gen THEN m.list[f] ELSE disk[f]
                    IN  /\ Remember(r, [m EXCEPT !.file = f, !.at = 1,
                             !.skipped = @ \/ skipped # {}, !.body = body,
                             !.found = {}, !.made = {}])
                        /\ Goto(r, IF maria /\ gen THEN "look" ELSE "exec")
         /\ claims' = [claims EXCEPT ![r] =
                         @ \ {<<Here(r), f, m.list[f]>> : f \in skipped}]
  /\ UNCHANGED <<world, servers, mailVars, ran, fate>>

(* preCheckAccountsExistMariaDB().                                         *)
Look(r) ==
  /\ pc[r] = "look"
  /\ Remember(r, [mem[r] EXCEPT !.found =
       {a \in Existing(Here(r)) : \E k \in DOMAIN Script[mem[r].body] :
          /\ Script[mem[r].body][k].on = a
          /\ Script[mem[r].body][k].op \in {"create", "replace"}}])
  /\ Goto(r, "exec")
  /\ UNCHANGED <<world, servers, mailVars, history>>

Secret(r) == [run |-> r, file |-> mem[r].file, at |-> mem[r].at,
              pass |-> IF mem[r].pass = 2 THEN 2 ELSE 1]

(* The content that was listed: passwords were generated for it.  A file   *)
(* imported from the disk with a placeholder in it by now sends that.      *)
Source(m) == m.list[m.file]
Password(r) == IF Generates(Source(mem[r])) THEN Secret(r) ELSE Given

(* What a statement leaves as the password of its account.                 *)
Leaves(op, old, secret) ==
  CASE op = "create" -> IF old = NoAccount THEN secret ELSE old
    [] op = "replace" -> secret
    [] op = "reset" -> secret
    [] op = "drop" -> NoAccount
    [] op = "other" -> IF old = NoAccount THEN Given ELSE old

(* "replaces": the account is dropped earlier in the same file.            *)
DropsBefore(c, k) == \E j \in 1..(k - 1) : /\ Script[c][j].op = "drop"
                                          /\ Script[c][j].on = Script[c][k].on

(* One statement of the file, or one of the calls of its up().             *)
Execute(r) ==
  /\ pc[r] = "exec" /\ mem[r].body # NoFile
  /\ mem[r].at \in DOMAIN Script[mem[r].body]
  /\ LET i == Here(r)
         s == Script[mem[r].body][mem[r].at]
         old == accounts[i][s.on]
         new == Leaves(s.op, old, Password(r))
         \* another run has dropped the account since it was looked up
         stale == s.op = "create" /\ s.on \in mem[r].found
                  /\ ~DropsBefore(mem[r].body, mem[r].at)
     IN  /\ s.op = "reset" => old # NoAccount
         /\ accounts' = [accounts EXCEPT ![i][s.on] = new]
         /\ Remember(r, [mem[r] EXCEPT !.at = @ + 1,
              !.made = IF s.op \in {"create", "replace"} /\ new # old
                       THEN @ \cup {s.on} ELSE @])
         /\ fate' = IF new = old THEN fate
                    ELSE [fate EXCEPT ![i][s.on] =
                            IF new = Secret(r)
                               /\ (stale \/ mem[r].cmd = "dcl:verify")
                            THEN "lost" ELSE "open"]
  /\ UNCHANGED <<world, sums, mailVars, pc, ran, claims>>

(* Mutant of Merge: the first password of an account stays in the email.   *)
MergeFirst(prev, told) ==
  IF prev.kind = "nothing" /\ DOMAIN told # {}
  THEN told[Min(DOMAIN told)] ELSE prev

(* buildDCLNotificationEvents(): one row per account.  Of the events that  *)
(* a file adds, by statement, the last with a password replaces those      *)
(* before it; a no_change never hides one.                                 *)
Merge(prev, told) ==
  LET changes == {k \in DOMAIN told : told[k].kind # "no_change"}
      isNew == \/ prev.kind = "new"
               \/ \E k \in changes : told[k].kind = "new"
  IN  CASE changes # {} ->
             [told[Max(changes)] EXCEPT !.kind = IF isNew THEN "new" ELSE @]
        [] changes = {} /\ prev.kind = "nothing" /\ DOMAIN told # {} ->
             [kind |-> "no_change", pw |-> Mute]
        [] OTHER -> prev

(* recordCredentialEvents(), MariaDB: by what was there before the file.   *)
MariaKind(m, k) ==
  LET s == Script[m.body][k]
      existed == s.on \in m.found
      replaces == s.op = "replace" \/ DropsBefore(m.body, k)
  IN  CASE s.op = "reset" \/ (existed /\ replaces) -> "password_changed"
        [] s.op # "reset" /\ existed /\ ~replaces -> "no_change"
        [] s.op # "reset" /\ ~existed -> "new"

Placeholders(c) == {k \in DOMAIN Script[c] : Script[c][k].op \in Generating}

(* MongoDB: by what up() returned; a file that rotates says so of all its  *)
(* accounts.                                                               *)
MongoKind(m, k) ==
  LET s == Script[m.body][k] IN
  CASE s.op = "reset" -> "password_changed"
    [] s.op # "reset" /\ s.on \in m.made -> "new"
    [] s.op # "reset" /\ s.on \notin m.made -> "no_change"

(* Names and passwords that do not line up: nothing is handed out.         *)
Misaligned(m, lists) ==
  /\ Kind[Head(m.queue)] = "mongo" /\ ~lists /\ m.made # {}
  /\ Cardinality(m.made) # Cardinality(Placeholders(Source(m)))

Recorded(r, lists) ==
  LET m == mem[r]
      KindOf(k) == IF Kind[Here(r)] = "maria" THEN MariaKind(m, k)
                                              ELSE MongoKind(m, k)
      Unheard(k) == KindOf(k) = "no_change" \/ Misaligned(m, lists)
      EventAt(k) ==
        [kind |-> KindOf(k),
         pw |-> IF Unheard(k) THEN Mute
                ELSE [run |-> r, file |-> m.file, at |-> k, pass |-> 1]]
      Reported(a) == {k \in Placeholders(Source(m)) :
        /\ Script[m.body][k].on = a
        /\ Misaligned(m, lists) => KindOf(k) # "no_change"}
  IN  [a \in Accounts |->
         Merge(m.events[a], [k \in Reported(a) |-> EventAt(k)])]

(* The last answer has come.  up() may return allUsernames, or only what   *)
(* it created.                                                             *)
FileDone(r) ==
  /\ pc[r] = "exec" /\ mem[r].cmd # "dcl:verify"
  /\ mem[r].body # NoFile
  /\ mem[r].at > Len(Script[mem[r].body])
  /\ \E lists \in BOOLEAN :
       /\ lists \/ Kind[Here(r)] = "mongo"
       /\ Remember(r, [mem[r] EXCEPT !.events = Recorded(r, lists)])
       /\ IF Misaligned(mem[r], lists)
          THEN Losing(r, Here(r), OfFile(mem[r].file)) ELSE UNCHANGED fate
  /\ ran' = [ran EXCEPT ![Here(r)][mem[r].file] = @ \cup {mem[r].body}]
  /\ Goto(r, "sum")
  /\ UNCHANGED <<world, servers, mailVars, claims>>

WithSum(r) ==
  [sums EXCEPT ![Here(r)][mem[r].file] = Sha[mem[r].list[mem[r].file]]]

RecordContent(r) ==   \* mutant of Record: the content, not its checksum
  /\ pc[r] = "sum"
  /\ sums' = [sums EXCEPT ![Here(r)][mem[r].file] = mem[r].body]
  /\ Remember(r, [mem[r] EXCEPT !.applied = TRUE, !.body = NoFile])
  /\ Goto(r, "file")
  /\ UNCHANGED <<world, accounts, mailVars, history>>

(* updateChecksum(): of the content that was listed.                       *)
Record(r) ==
  /\ pc[r] = "sum"
  /\ sums' = WithSum(r)
  /\ Remember(r, [mem[r] EXCEPT !.applied = TRUE, !.body = NoFile,
                                !.found = {}, !.made = {}])
  /\ Goto(r, "file")
  /\ UNCHANGED <<world, accounts, mailVars, history>>

(* Mutant of FileFails: the error is logged, and the loop goes on.         *)
FileFailsUnseen(r) ==
  /\ pc[r] \in {"look", "exec", "sum"} /\ mem[r].cmd # "dcl:verify"
  /\ Remember(r, [mem[r] EXCEPT !.body = NoFile, !.found = {}, !.made = {}])
  /\ Goto(r, "file")
  /\ Losing(r, Here(r), OfFile(mem[r].file))
  /\ UNCHANGED <<world, servers, mailVars, ran, claims>>

(* catch and break: the accounts that the file in hand has set so far have *)
(* passwords that no event holds.  The checksum may have been written.     *)
FileFails(r) ==
  /\ pc[r] \in {"look", "exec", "sum"} /\ mem[r].cmd # "dcl:verify"
  /\ Remember(r, [mem[r] EXCEPT !.error = TRUE, !.body = NoFile,
       !.found = {}, !.made = {}, !.list = Unlisted, !.known = Unknown])
  /\ Goto(r, "after")
  /\ IF pc[r] = "sum"
     THEN sums' \in {sums, WithSum(r)} /\ UNCHANGED fate
     ELSE Losing(r, Here(r), OfFile(mem[r].file)) /\ UNCHANGED sums
  /\ UNCHANGED <<world, accounts, mailVars, ran, claims>>

(***************************************************************************)
(* After runner.run(): the second capture, the email, its directory.       *)
(***************************************************************************)
(* Mutant of After: no email after an error.                               *)
AfterNoErrors(r, seen) ==
  /\ pc[r] = "after"
  /\ LET m == mem[r] IN
       IF m.applied /\ ~m.error
       THEN Goto(r, "copy") /\ UNCHANGED mem
       ELSE Goto(r, "next") /\ Remember(r, [m EXCEPT !.bad = @ \/ m.error])
  /\ UNCHANGED <<world, servers, mailVars, history>>

(* buildDCLNotificationEvents(): rows of accounts that are new since the   *)
(* capture before, and of which no file has told anything.                 *)
Bare(m, seen) ==
  IF m.applied \/ m.error
  THEN {a \in seen \ m.before : m.events[a] = Nothing} ELSE {}

(* captureDCLState() and diffStates(); is there anything to report?        *)
After(r, seen) ==
  /\ pc[r] = "after"
  /\ LET m == mem[r]
         rows == Bare(m, seen)
         report ==
           \/ m.error
           \/ m.skipped /\ (m.applied \/ m.cmd = "dcl-all")
           \/ m.applied /\ \/ m.events # Quiet
                           \/ rows # {} \/ m.before \ seen # {}
     IN  /\ Remember(r, [m EXCEPT !.bad = @ \/ m.error, !.before = {},
                                  !.bare = rows])
         /\ Goto(r, IF report THEN "copy" ELSE "next")
  /\ UNCHANGED <<world, servers, mailVars, history>>

Name(r) == IF mem[r].cmd = "dcl" THEN "notification" ELSE Here(r)
Email(r) == <<r, mem[r].failure>>

Copy(r) ==
  /\ pc[r] = "copy"
  /\ WriteCopy(Name(r), Email(r))
  /\ fate' = [fate EXCEPT ![Here(r)] = [a \in Accounts |->
       IF /\ accounts[Here(r)][a] \in Secrets
          /\ mem[r].events[a].pw = accounts[Here(r)][a]
       THEN "mailed" ELSE @[a]]]
  /\ Goto(r, "latest")
  /\ UNCHANGED <<world, servers, mem, ran, claims>>

(* The copy at the fixed path: written beside it and renamed.              *)
Replace(r) ==
  /\ pc[r] = "latest"
  /\ Remember(r, [mem[r] EXCEPT !.events = Quiet, !.bare = {}])
  /\ Goto(r, IF Keep = 0 THEN "next" ELSE "prune")
  /\ UNCHANGED <<world, servers, mailVars, history>>

(* The directory is full, read-only, or gone.  In the outer catch of dcl   *)
(* the error is only printed.                                              *)
SaveFails(r) ==
  /\ pc[r] \in {"copy", "latest"}
  /\ IF mem[r].failure
     THEN Exit(r, "failed") /\ UNCHANGED fate
     ELSE Throw(r)
  /\ UNCHANGED <<world, servers, mailVars, ran>>

(* pruneMatching(): readdir(), then one rm() after the other, the newest   *)
(* of them first.                                                          *)
ReadCopies(r) ==
  /\ pc[r] = "prune"
  /\ LET victims == ToRemove(Name(r)) IN
       /\ Remember(r, [mem[r] EXCEPT !.victims = victims])
       /\ Goto(r, IF victims = {} THEN "next" ELSE "remove")
  /\ UNCHANGED <<world, servers, mailVars, history>>

RemoveCopy(r) ==
  /\ pc[r] = "remove"
  /\ \E e \in mem[r].victims \ Beyond(Name(r), mem[r].victims, 1) :
       /\ Delete(Name(r), e)
       /\ Remember(r, [mem[r] EXCEPT !.victims = @ \ {e}])
       /\ Goto(r, IF mem[r].victims = {e} THEN "next" ELSE "remove")
  /\ UNCHANGED <<world, servers, history>>

(* A cleanup that fails is a warning.                                      *)
CleanupFails(r) ==
  /\ pc[r] \in {"prune", "remove"}
  /\ Remember(r, [mem[r] EXCEPT !.victims = {}])
  /\ Goto(r, "next")
  /\ UNCHANGED <<world, servers, mailVars, history>>

(* The next instance of dcl-all; in the end its summary, without           *)
(* passwords, and the exit code.                                           *)
NextInstance(r) ==
  /\ pc[r] = "next"
  /\ LET rest == Tail(mem[r].queue) IN
       IF rest # <<>>
       THEN /\ Remember(r, [Afresh(r) EXCEPT !.queue = rest])
            /\ Goto(r, "gate")
            /\ UNCHANGED claims
       ELSE Exit(r, IF mem[r].bad THEN "failed" ELSE "done")
  /\ UNCHANGED <<world, servers, mailVars, ran, fate>>

(* The summary could not be written.                                       *)
SummaryFails(r) ==
  /\ pc[r] = "next" /\ mem[r].cmd = "dcl-all" /\ Tail(mem[r].queue) = <<>>
  /\ Exit(r, "failed")
  /\ UNCHANGED <<world, servers, mailVars, ran, fate>>

(***************************************************************************)
(* dcl:verify: every file twice, with passwords that nobody will know.     *)
(***************************************************************************)
VerifyNext(r) ==
  /\ pc[r] = "verify"
  /\ LET m == mem[r]
         list == IF m.file = 0 THEN disk ELSE m.list
         later == {f \in Files : f > m.file /\ list[f] # NoFile}
     IN  \/ later = {} /\ Exit(r, IF m.bad THEN "failed" ELSE "done")
         \/ \E f \in later :
              /\ \A g \in later : f <= g
              /\ Remember(r, [m EXCEPT !.list = list, !.file = f, !.at = 1,
                                       !.pass = 1, !.body = list[f]])
              /\ Goto(r, "exec")
              /\ UNCHANGED claims
  /\ UNCHANGED <<world, servers, mailVars, ran, fate>>

(* Both captures compare equal when both have failed.                      *)
VerifyCapture(r, seen) ==
  /\ pc[r] = "exec" /\ mem[r].cmd = "dcl:verify"
  /\ mem[r].at > Len(Script[mem[r].body])
  /\ \/ /\ mem[r].pass = 1
        /\ Remember(r, [mem[r] EXCEPT !.before = seen, !.pass = 2, !.at = 1])
        /\ UNCHANGED pc
     \/ /\ mem[r].pass = 2
        /\ Remember(r, [mem[r] EXCEPT !.bad = @ \/ seen # mem[r].before,
                                      !.before = {}, !.body = NoFile])
        /\ Goto(r, "verify")
  /\ UNCHANGED <<world, servers, mailVars, history>>

VerifyFails(r) ==
  /\ pc[r] = "exec" /\ mem[r].cmd = "dcl:verify"
  /\ Remember(r, [mem[r] EXCEPT !.bad = TRUE, !.before = {}, !.body = NoFile])
  /\ Goto(r, "verify")
  /\ UNCHANGED <<world, servers, mailVars, history>>

(***************************************************************************)
(* The process dies; the developer changes, adds or removes a file.        *)
(***************************************************************************)
Crash(r) ==
  /\ Active(r)
  /\ Losing(r, Here(r), Secrets)
  /\ Exit(r, "crashed")
  /\ UNCHANGED <<world, servers, mailVars, ran>>

Edit ==
  /\ edits < MaxEdits[policy]
  /\ edits' = edits + 1
  /\ \E f \in Files : \E c \in (Contents \cup {NoFile}) \ {disk[f]} :
       disk' = [disk EXCEPT ![f] = c]
  /\ UNCHANGED <<policy, servers, mailVars, pc, mem, history>>

(* A file that is gone by now; a reset of an account that does not exist.  *)
Impossible(r) ==
  /\ pc[r] = "exec"
  /\ mem[r].body # NoFile =>
       /\ mem[r].at \in DOMAIN Script[mem[r].body]
       /\ LET s == Script[mem[r].body][mem[r].at] IN
            s.op = "reset" /\ accounts[Here(r)][s.on] = NoAccount

Step(r) ==
  \/ Start(r) \/ Gate(r) \/ Forget(r) \/ Begin(r) \/ NextFile(r) \/ Look(r)
  \/ Execute(r) \/ FileDone(r) \/ Record(r) \/ Copy(r) \/ Replace(r)
  \/ ReadCopies(r) \/ RemoveCopy(r) \/ NextInstance(r) \/ VerifyNext(r)
  \/ Impossible(r) /\ (FileFails(r) \/ VerifyFails(r))
  \/ LET seen == Existing(Here(r)) IN
       CaptureBefore(r, seen) \/ After(r, seen) \/ VerifyCapture(r, seen)

Fault(r) ==
  \/ Fails(r) \/ FileFails(r) \/ SaveFails(r) \/ CleanupFails(r)
  \/ SummaryFails(r) \/ VerifyFails(r) \/ Crash(r)
  \/ CaptureBefore(r, {}) \/ After(r, {}) \/ VerifyCapture(r, {})

Next ==
  \/ \E r \in Runs :
       \/ Step(r) /\ UNCHANGED faults
       \/ /\ Fault(r)
          /\ faults < MaxFaults[policy] /\ faults' = faults + 1
  \/ Edit /\ UNCHANGED faults

Spec == Init /\ [][Next]_vars

(***************************************************************************)
(* Properties.                                                             *)
(***************************************************************************)
(* What the events of a run rest on.  No file names an account in a        *)
(* CREATE ... IF NOT EXISTS after it has created it, unless it drops it in *)
(* between: that statement does nothing, and its placeholder is reported.  *)
CreatedOnce ==
  \A c \in Contents : \A j, k \in DOMAIN Script[c] :
    LET s == Script[c][j]
        t == Script[c][k]
    IN  j < k /\ s.on = t.on /\ s.op # "drop" /\ t.op = "create" =>
          \E l \in j..k : Script[c][l].op = "drop" /\ Script[c][l].on = t.on

(* No file drops an account that a file creates with a password of its     *)
(* own: an earlier file of the run may have told another password for it.  *)
FixedStay ==
  \A c, d \in Contents : \A j \in DOMAIN Script[c], k \in DOMAIN Script[d] :
    ~ /\ Script[c][j].op = "drop" /\ Script[d][k].op = "other"
      /\ Script[c][j].on = Script[d][k].on

(* A run still holds the password it has set.                              *)
Holds(r, i, a) ==
  LET p == accounts[i][a] IN
  /\ Active(r) /\ Here(r) = i
  /\ \/ mem[r].events[a].pw = p
     \/ pc[r] = "exec" /\ p.file = mem[r].file

(* docs/DCL-PASSWORD.md: "a generated or rotated password is never         *)
(* silently lost".  Whatever fails, and with overlapping runs: every       *)
(* generated password that is in force was in an email, or is in the       *)
(* memory of the run that set it; but for a file that failed or misaligned *)
(* its accounts, a crash, an email that could not be written, a throwaway, *)
(* and an account dropped by another run after it was looked up.  Holds    *)
(* for files that keep CreatedOnce.                                        *)
HandedOver ==
  \A i \in Places, a \in Accounts : accounts[i][a] \in Secrets =>
    \/ fate[i][a] # "open"
    \/ Holds(accounts[i][a].run, i, a)

(* buildDCLNotificationEvents(): when the runs do not overlap, a password  *)
(* in an email just written is the one in force, whatever the files of the *)
(* run did to the account, and "password unchanged" is said of no account  *)
(* whose password the run has set; but for what a failed file did, and for *)
(* a MongoDB file listed without a placeholder and imported with one, after*)
(* an edit: it sends the placeholder itself, as a password.  Holds for     *)
(* files that keep CreatedOnce and FixedStay.                              *)
MailIsTrue ==
  policy = "Forbid" => \A r \in Runs : pc[r] = "latest" =>
    \A a \in Accounts :
      LET i == Here(r)
          p == accounts[i][a]
          e == mem[r].events[a]
      IN  \/ p \in Secrets /\ fate[i][a] = "lost"
          \/ /\ \/ e.pw = Mute
                \/ p \in {e.pw, NoAccount}
                \/ Kind[i] = "mongo" /\ edits > 0 /\ p = Given
             /\ e.kind = "no_change" => p \notin {s \in Secrets : s.run = r}

(* The exit code: 0 only if every file the command found on any of its     *)
(* instances, and did not skip, has been executed to its end there, by     *)
(* this run or the one that recorded its checksum (MongoDB imports a file  *)
(* without placeholders a second time, after an edit perhaps).             *)
ExitZeroMeansApplied ==
  [][\A r \in Runs : pc[r] = "next" /\ pc'[r] = "done" =>
       \A i \in Places, f \in Files, c \in Contents :
         <<i, f, c>> \in claims[r] =>
           \/ c \in ran[i][f]
           \/ Kind[i] = "mongo" /\ ~Generates(c) /\ edits > 0]_vars

(* reporter.js: a row for an account added without a credential event says *)
(* "New account - credentials were not auto-generated for this one."       *)
NotGeneratedIsTrue ==
  \A r \in Runs : pc[r] = "latest" =>
    \A a \in mem[r].bare : accounts[Here(r)][a] \notin Secrets
=============================================================================
