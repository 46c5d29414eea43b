------------------------- MODULE ExecuteThenRecord --------------------------
(***************************************************************************)
(* What the MongoDB adapter promises of its changelog: the order in which  *)
(* files are executed, entered and reported, by any number of runs.        *)
(*                                                                         *)
(* _applyOne() and _rollbackOne() (src/adapters/mongodb-adapter.js) first  *)
(* execute a file, then write the changelog, then report it; an entry      *)
(* comes or goes only in such a step, by a baseline or by a reset.  A run  *)
(* that cannot tell whether its write arrived reports nothing.             *)
(***************************************************************************)
CONSTANTS Runs, Files

VARIABLES
  entries,     \* files with an entry in the changelog
  executed,    \* <<run, file>>: up() completed, its entry is due
  undone,      \* <<run, file>>: down() completed, its entry is to go
  applied,     \* run -> files that it reports as applied
  rolledBack,  \* run -> files that it reports as rolled back
  marked       \* run -> files that it reports as marked by baseline

due == <<executed, undone>>
reports == <<applied, rolledBack, marked>>
vars == <<entries, due, reports>>

Init ==
  /\ entries \in SUBSET Files
  /\ executed = {} /\ undone = {}
  /\ applied = [r \in Runs |-> {}]
  /\ rolledBack = [r \in Runs |-> {}]
  /\ marked = [r \in Runs |-> {}]

Busy(r) == \E f \in Files : <<r, f>> \in executed \cup undone

Execute(r, f) ==
  /\ ~Busy(r)
  /\ \/ executed' = executed \cup {<<r, f>>} /\ UNCHANGED undone
     \/ undone' = undone \cup {<<r, f>>} /\ UNCHANGED executed
  /\ UNCHANGED <<entries, reports>>

Record(r, f) ==
  /\ <<r, f>> \in executed
  /\ executed' = executed \ {<<r, f>>}
  /\ entries' = entries \cup {f}
  /\ applied' = [applied EXCEPT ![r] = @ \cup {f}]
  /\ UNCHANGED <<undone, rolledBack, marked>>

(* Where a file has two entries, one of them stays.                        *)
Remove(r, f) ==
  /\ <<r, f>> \in undone
  /\ undone' = undone \ {<<r, f>>}
  /\ entries' \in {entries, entries \ {f}}
  /\ rolledBack' = [rolledBack EXCEPT ![r] = @ \cup {f}]
  /\ UNCHANGED <<executed, applied, marked>>

(* The run ends before it writes, or its write fails with or without       *)
(* having had an effect.                                                   *)
GiveUp(r, f) ==
  /\ <<r, f>> \in executed \cup undone
  /\ executed' = executed \ {<<r, f>>}
  /\ undone' = undone \ {<<r, f>>}
  /\ \/ UNCHANGED entries
     \/ <<r, f>> \in executed /\ entries' = entries \cup {f}
     \/ <<r, f>> \in undone /\ entries' = entries \ {f}
  /\ UNCHANGED reports

Mark(r, f) ==
  /\ entries' = entries \cup {f}
  /\ \/ marked' = [marked EXCEPT ![r] = @ \cup {f}]
     \/ UNCHANGED marked
  /\ UNCHANGED <<due, applied, rolledBack>>

Reset ==
  /\ entries' = {}
  /\ UNCHANGED <<due, reports>>

Next ==
  \/ \E r \in Runs, f \in Files :
       Execute(r, f) \/ Record(r, f) \/ Remove(r, f) \/ GiveUp(r, f)
         \/ Mark(r, f)
  \/ Reset

Spec == Init /\ [][Next]_vars
=============================================================================
