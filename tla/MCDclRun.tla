------------------------------ MODULE MCDclRun ------------------------------
(***************************************************************************)
(* Constants for model-checking DclRun.                                    *)
(***************************************************************************)
EXTENDS DclRun

CONSTANTS r1, r2, make, rotate, swap

TwoRuns == {r1, r2}
Symmetric == Permutations(Runs)
MCEmails == Runs \X BOOLEAN
MCNames == {"notification", "east", "west"}

(* One MariaDB and one MongoDB instance.                                   *)
MCInstances == <<"east", "west">>
MCKind == [i \in {"east", "west"} |-> IF i = "east" THEN "maria" ELSE "mongo"]

MCContents == {make, rotate, swap}
S(op, on) == [op |-> op, on |-> on]
MCScript == [c \in MCContents |->
  CASE c = make -> <<S("create", "a"), S("create", "b")>>
    [] c = rotate -> <<S("reset", "a")>>
    [] c = swap -> <<S("drop", "a"), S("other", "b")>>]
MCBlocked == {swap}
MCSha == [c \in MCContents |-> <<"sha256", c>>]
MCAccounts == {"a", "b"}

MCLayouts == {<<make, rotate>>, <<make, swap>>, <<swap, make>>}
MCCreated == {{}}

(* Alone: any command, and an edit.  Overlapping: dcl.                     *)
MCCommands == [p \in Policies |->
  IF p = "Forbid" THEN {"dcl", "dcl-all", "dcl:verify"} ELSE {"dcl"}]
MCMaxEdits == [p \in Policies |-> IF p = "Forbid" THEN 1 ELSE 0]
MCMaxFaults == [p \in Policies |-> 1]
=============================================================================
