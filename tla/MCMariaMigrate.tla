--------------------------- MODULE MCMariaMigrate ---------------------------
(***************************************************************************)
(* Constants for model-checking MariaMigrate.                              *)
(***************************************************************************)
EXTENDS MariaMigrate, TLC

CONSTANTS r1, r2, r3, long, noop, bad, hLong, hNoop, hBad

(* Three kinds of migration file: "long" has two Up and two Down           *)
(* statements, "noop" an empty Up section and no Down, "bad" no Up marker. *)
MCContents == {long, noop, bad}
MCHasUp == {long, noop}
MCUpLen == long :> 2 @@ noop :> 0 @@ bad :> 0
MCDownLen == long :> 2 @@ noop :> 0 @@ bad :> 0
MCSha == long :> hLong @@ noop :> hNoop @@ bad :> hBad

Plain == [target |-> NotGiven, only |-> NotGiven]
Just(f) == [exact |-> {f}, like |-> {f}]

NoOptions == {Plain}
TargetOptions == {Plain, [target |-> Just(1), only |-> NotGiven]}
OnlyOptions ==
  {Plain, [target |-> NotGiven, only |-> [exact |-> {2}, like |-> Files]]}

TwoRuns == {r1, r2}
ThreeRuns == {r1, r2, r3}
Symmetric == Permutations(Runs)
=============================================================================
