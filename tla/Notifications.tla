---------------------------- MODULE Notifications ----------------------------
(***************************************************************************)
(* The directory of notification emails: saveNotificationEmail() of        *)
(* src/core/reporter.js.                                                   *)
(*                                                                         *)
(* A saved email is two files: the run's own copy, <name>-<run id>.html,   *)
(* created exclusively, and the copy at the fixed path <name>.html, which  *)
(* the next email of that name replaces (it is not modelled).  After that  *)
(* a cleanup reads the directory and deletes, one by one, all but the      *)
(* newest of the runs' copies by run id.                                   *)
(* A run id is a second and a random suffix, taken before the copy is      *)
(* written (for dcl-all, when the command starts): a copy may sort before  *)
(* copies that are older.                                                  *)
(***************************************************************************)
EXTENDS Integers, FiniteSets, SequencesExt

CONSTANTS
  Names,   \* the fixed names: notification, notification-<instance>
  Emails,  \* identities of emails
  Keep     \* notifications.keepRuns; 0 keeps all

ASSUME KeepAssumption == Keep \in Nat

VARIABLES
  copies,  \* name -> the runs' own copies ever written, by run id
  removed  \* name -> those that a cleanup has deleted

mailVars == <<copies, removed>>

MailTypeOK ==
  /\ copies \in [Names -> Seq(Emails)]
  /\ removed \in [Names -> SUBSET Emails]

MailInit ==
  /\ copies = [n \in Names |-> <<>>]
  /\ removed = [n \in Names |-> {}]

OnDisk(n) == ToSet(copies[n]) \ removed[n]

(* writeFile(runPath, ..., { flag: 'wx' }).  Ids of one second are ordered *)
(* by their random suffix, clocks of several hosts differ: any place.      *)
WriteCopy(n, e) ==
  /\ e \notin ToSet(copies[n])
  /\ \E p \in 1..(Len(copies[n]) + 1) :
       copies' = [copies EXCEPT ![n] =
                    InsertAt(@, p, e)]
  /\ UNCHANGED removed

(* Those of S behind position k in the order of the run ids, newest first. *)
Beyond(n, S, k) ==
  {e \in S : \E i \in DOMAIN copies[n] :
     /\ copies[n][i] = e
     /\ Cardinality({j \in DOMAIN copies[n] :
                       j > i /\ copies[n][j] \in S}) >= k}

(* Mutant of ToRemove: the oldest copies are kept.                         *)
ToRemoveNewest(n) ==
  IF Keep = 0 THEN {} ELSE OnDisk(n) \ Beyond(n, OnDisk(n), Keep)

(* pruneMatching(): what one reading of the directory marks for deletion.  *)
ToRemove(n) == IF Keep = 0 THEN {} ELSE Beyond(n, OnDisk(n), Keep)

Delete(n, e) ==
  /\ removed' = [removed EXCEPT ![n] = @ \cup {e}]
  /\ UNCHANGED copies

(* "only the newest keepRuns of each name are kept": however the cleanups  *)
(* of several runs interleave with their writes, each working on its own   *)
(* reading of the directory, the newest copies ever written are there.     *)
NewestKept ==
  \A n \in Names :
    removed[n] \subseteq Beyond(n, ToSet(copies[n]), Keep)
=============================================================================
