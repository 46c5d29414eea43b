--------------------------- MODULE MCMongoMigrate ---------------------------
(***************************************************************************)
(* Constants for model-checking MongoMigrate.                              *)
(***************************************************************************)
EXTENDS MongoMigrate, TLC

CONSTANTS r1, r2, one, two, h1, h2

(* Two contents, both with an up() and a down().                           *)
MCContents == {one, two}
MCSha == [c \in MCContents |-> IF c = one THEN h1 ELSE h2]

TwoRuns == {r1, r2}
Symmetric == Permutations(Runs)

(* The developer edits files while a run that runs alone is at work.       *)
EditsWhenApart == [p \in Policies |-> IF p = "Forbid" THEN 2 ELSE 0]
=============================================================================
