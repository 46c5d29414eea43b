---------------------------- MODULE MCLockGuard -----------------------------
(***************************************************************************)
(* Constants for model-checking LockGuard: four statements in three        *)
(* sections, the second of which holds only comments.                      *)
(***************************************************************************)
EXTENDS LockGuard

MCLast == <<1, 1, 4>>
=============================================================================
