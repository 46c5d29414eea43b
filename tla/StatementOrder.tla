--------------------------- MODULE StatementOrder ---------------------------
(***************************************************************************)
(* What up() and down() count on when they hand the statements of their    *)
(* sections to the database: each statement takes effect at most once, in  *)
(* the order of the files, and only "done" claims that all of them did.    *)
(* MariaMigrate.tla takes it for granted (its UpStatement, DownStatement   *)
(* and their failures); LockGuard.tla is how the code keeps it.            *)
(***************************************************************************)
EXTENDS Naturals, Sequences

CONSTANT Total   \* statements of all sections, numbered in order

VARIABLES
  log,           \* the statements that took effect on the server, in order
  outcome        \* what the caller is told

Init == log = <<>> /\ outcome = "running"

Execute ==
  /\ outcome = "running" /\ Len(log) < Total
  /\ log' = Append(log, Len(log) + 1)
  /\ UNCHANGED outcome

(* The answer to a statement may be lost, so the last effect and the       *)
(* failure may come together.                                              *)
ExecuteAndStop ==
  /\ outcome = "running" /\ Len(log) < Total
  /\ log' = Append(log, Len(log) + 1)
  /\ outcome' = "failed"

Stop ==
  /\ outcome = "running"
  /\ outcome' = "failed"
  /\ UNCHANGED log

Complete ==
  /\ outcome = "running" /\ Len(log) = Total
  /\ outcome' = "done"
  /\ UNCHANGED log

Next == Execute \/ ExecuteAndStop \/ Stop \/ Complete

Spec == Init /\ [][Next]_<<log, outcome>>

(* The statements that took effect are the first ones of the script, each  *)
(* exactly once and in order; after "done" they are all of them.           *)
InOrder ==
  /\ \A i \in 1..Len(log) : log[i] = i
  /\ Len(log) <= Total
  /\ outcome = "done" => Len(log) = Total
=============================================================================
