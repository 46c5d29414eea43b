----------------------- MODULE StatementOrder_proofs ------------------------
(***************************************************************************)
(* The specification of StatementOrder means what its invariant says: no   *)
(* statement is left out, repeated or moved.  Every implementation of it   *)
(* (LockGuard) inherits this.                                              *)
(***************************************************************************)
EXTENDS StatementOrder, TLAPS

(* However up() or down() ends, the statements that took effect are the    *)
(* first ones of their files, each once and in order, and "done" is told   *)
(* only when they are all of them.                                         *)
THEOREM AlwaysInOrder ==
  ASSUME Total \in Nat
  PROVE  Spec => []InOrder
<1> DEFINE IInv == /\ log \in Seq(Nat)
                   /\ outcome \in {"running", "done", "failed"}
                   /\ InOrder
<1>1. Init => IInv
  BY DEF Init, InOrder
<1>2. IInv /\ [Next]_<<log, outcome>> => IInv'
  <2> SUFFICES ASSUME IInv, [Next]_<<log, outcome>> PROVE IInv'
    OBVIOUS
  <2>1. ASSUME log' = Append(log, Len(log) + 1), Len(log) < Total,
               outcome' \in {"running", "failed"}
        PROVE  IInv'
    BY <2>1 DEF InOrder
  <2>2. CASE Execute
    BY <2>1, <2>2 DEF Execute
  <2>3. CASE ExecuteAndStop
    BY <2>1, <2>3 DEF ExecuteAndStop
  <2>4. CASE Stop
    BY <2>4 DEF Stop, InOrder
  <2>5. CASE Complete
    BY <2>5 DEF Complete, InOrder
  <2>6. CASE UNCHANGED <<log, outcome>>
    BY <2>6 DEF InOrder
  <2> QED  BY <2>2, <2>3, <2>4, <2>5, <2>6 DEF Next
<1>3. IInv => InOrder
  OBVIOUS
<1> QED  BY <1>1, <1>2, <1>3, PTL DEF Spec
=============================================================================
