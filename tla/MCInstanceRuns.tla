--------------------------- MODULE MCInstanceRuns ---------------------------
(***************************************************************************)
(* Projects for model-checking InstanceRuns: two tables, at most two files *)
(* and two instances, in the combinations that the properties are about.   *)
(***************************************************************************)
EXTENDS InstanceRuns, TLC

MCTables == {"a", "b"}

S(op, table, other) == [op |-> op, table |-> table, other |-> other]
Make(t) == S("create", t, t)
Drop(t) == S("drop", t, t)
Child(t, parent) == S("child", t, parent)
Rename(t, other) == S("rename", t, other)
Widen(t) == S("widen", t, t)
Wipe(t) == S("empty", t, t)
SetGlobal == S("global", "a", "a")

Plain(up, down) ==
  [up |-> up, down |-> down, marker |-> TRUE, ann |-> NoRelease,
   expect |-> {}, check |-> "none", rollback |-> FALSE]

NoRules == [c \in {} |-> "off"]
PlainConfig == [existing |-> {}, allow |-> <<{}, {}>>, rules |-> NoRules,
                custom |-> {}, requireApprover |-> FALSE]

UpAll(files, base, config) ==
  [files |-> files, base |-> base, config |-> config, flags |-> NoRelease,
   instances |-> 2, applied |-> <<0, 0>>, command |-> "up-all",
   dryRun |-> FALSE, parallel |-> FALSE, validateOnly |-> FALSE,
   pendingOnly |-> FALSE, sanity |-> FALSE]

(***************************************************************************)
(* Schemas: every pair of these files, on instances that are not equally   *)
(* far, with existingTables that tell the truth, or nothing.               *)
(***************************************************************************)
Shapes ==
  {Plain(<<Make("a")>>, <<Drop("a")>>),
   Plain(<<Make("b")>>, <<Drop("b")>>),
   Plain(<<Child("b", "a")>>, <<Drop("b")>>),
   Plain(<<Drop("a")>>, <<Make("a")>>),
   Plain(<<Drop("a")>>, <<Widen("b")>>),
   Plain(<<Drop("b")>>, <<Widen("a")>>),
   Plain(<<Rename("a", "b")>>, <<Rename("b", "a")>>),
   Plain(<<Wipe("a")>>, <<>>),
   Plain(<<Widen("a"), Make("b")>>, <<Drop("b")>>),
   Plain(<<Make("b"), Drop("a")>>, <<Drop("b"), Make("a")>>),
   Plain(<<Drop("a"), Make("a")>>, <<Drop("a")>>),
   Plain(<<Child("b", "a"), Make("a")>>, <<Drop("b"), Drop("a")>>),
   Plain(<<>>, <<Make("a")>>)}

(* A config without existingTables, or one that lists the tables there are. *)
SchemaProjects ==
  {[UpAll(<<f, g>>, base,
          [PlainConfig EXCEPT !.existing = IF told THEN base ELSE {}])
      EXCEPT !.applied = applied, !.flags.codes = codes] :
     f \in Shapes, g \in Shapes, base \in SUBSET MCTables,
     told \in BOOLEAN, applied \in {<<0, 0>>, <<1, 0>>},
     codes \in {{}, {"DROP_TABLE", "RENAME_TABLE", "TRUNCATE_TABLE"}}}

(***************************************************************************)
(* Releases: one file with one finding, and every way to let it pass.      *)
(***************************************************************************)
Rule(level) == {[code |-> "NO_WIPING", op |-> "empty", level |-> level]}

Case(up, down, code, custom) ==
  [file |-> Plain(up, down), code |-> code, custom |-> custom]

Delicate ==
  {Case(<<Drop("a")>>, <<Widen("b")>>, "DROP_TABLE", {}),
   Case(<<Wipe("a")>>, <<Widen("b")>>, "TRUNCATE_TABLE", {}),
   Case(<<SetGlobal>>, <<>>, "SET_GLOBAL", {}),
   Case(<<Child("b", "a")>>, <<Drop("b")>>, "FK_UNRESOLVED_REFERENCE", {}),
   Case(<<Child("b", "a"), Drop("a")>>, <<Drop("b")>>,
        "FK_REFERENCES_DROPPED_TABLE", {}),
   Case(<<Make("b")>>, <<Drop("a")>>, "ORPHAN_DROP_DOWN", {}),
   Case(<<Make("b")>>, <<>>, "MISSING_DOWN", {}),
   [Case(<<Make("b")>>, <<Drop("b")>>, "MISSING_UP_MARKER", {})
      EXCEPT !.file.marker = FALSE]}
    \cup {Case(<<Wipe("a")>>, <<Widen("b")>>, "NO_WIPING", Rule(level)) :
             level \in {"forbidden", "dangerous", "warning"}}
    \cup {Case(<<Make("b"), Wipe("a")>>, <<>>, "MISSING_DOWN",
               {[code |-> "MISSING_DOWN", op |-> "empty",
                 level |-> "dangerous"]})}

(* Nothing, a flag or annotation of each kind.                             *)
Ways == {"none", "dangerous", "code", "forbidden", "approved"}

Way(way, code) ==
  [NoRelease EXCEPT !.dangerous = way = "dangerous",
                    !.codes = IF way = "code" THEN {code} ELSE {},
                    !.forbidden = way \in {"forbidden", "approved"},
                    !.approver = way = "approved"]

Release(d, ann, flag, existing, allow, setting, approver) ==
  [UpAll(<<[d.file EXCEPT !.ann = Way(ann, d.code)]>>, {"a"},
         [existing |-> existing, custom |-> d.custom,
          rules |-> IF setting = "as is" THEN NoRules ELSE d.code :> setting,
          allow |-> <<IF allow THEN {d.code} ELSE {}>>,
          requireApprover |-> approver])
     EXCEPT !.instances = 1, !.applied = <<0>>, !.flags = Way(flag, d.code)]

ReleaseProjects ==
  {Release(d, ann, flag, existing, allow, setting, approver) :
     d \in Delicate, ann \in {"none", "code", "approved"}, flag \in Ways,
     existing \in {{}, {"a"}}, allow \in BOOLEAN,
     setting \in {"as is", "off", "warn", "error"}, approver \in BOOLEAN}

DryProjects ==
  {[Release(d, "none", flag, {"a"}, FALSE, "as is", FALSE)
      EXCEPT !.dryRun = TRUE] : d \in Delicate, flag \in Ways}

(* The same findings before sync and validate.                             *)
OtherCommands ==
  {[Release(d, "none", flag, {"a"}, FALSE, "as is", FALSE)
      EXCEPT !.command = command, !.pendingOnly = pending] :
     d \in Delicate, flag \in Ways, command \in {"sync", "validate"},
     pending \in BOOLEAN}

(* sync with two, one or no pending file.                                  *)
SyncProjects ==
  {[UpAll(<<f, g>>, {"a"}, PlainConfig)
      EXCEPT !.command = "sync", !.instances = 1, !.applied = <<applied>>] :
     f \in Shapes, g \in Shapes, applied \in 0..2}

JudgedProjects ==
  {[UpAll(<<f>>, {"a"}, PlainConfig)
      EXCEPT !.command = "validate-all"] : f \in Shapes}

(***************************************************************************)
(* Tests.                                                                  *)
(***************************************************************************)
TestShapes ==
  {Plain(<<Make("a")>>, <<Drop("a")>>),
   Plain(<<Child("b", "a")>>, <<Drop("b")>>),
   Plain(<<Widen("a"), Make("b")>>, <<Drop("b")>>),
   Plain(<<Rename("a", "b")>>, <<Rename("b", "a")>>),
   Plain(<<>>, <<Drop("a")>>),
   Plain(<<SetGlobal>>, <<>>),
   [Plain(<<Make("b")>>, <<Drop("b")>>) EXCEPT
      !.marker = FALSE, !.expect = {"MISSING_UP_MARKER"}],
   [Plain(<<Drop("a")>>, <<Make("a")>>) EXCEPT !.check = "pass"],
   [Plain(<<Make("b")>>, <<Drop("b")>>) EXCEPT !.check = "post",
                                               !.rollback = TRUE],
   [Plain(<<Make("a")>>, <<Drop("b")>>) EXCEPT
      !.check = "post", !.rollback = TRUE,
      !.ann.codes = {"ORPHAN_DROP_DOWN"}],
   [Plain(<<Make("b")>>, <<Drop("b")>>) EXCEPT !.check = "pre"],
   [Plain(<<Make("b")>>, <<Drop("b")>>) EXCEPT !.check = "pass",
                                               !.rollback = TRUE],
   [Plain(<<Make("b")>>, <<Drop("b")>>) EXCEPT !.rollback = TRUE],
   [Plain(<<Make("b")>>, <<Drop("b"), Make("a")>>) EXCEPT
      !.check = "post", !.rollback = TRUE],
   [Plain(<<SetGlobal>>, <<Rename("a", "b")>>) EXCEPT
      !.ann.codes = {"SET_GLOBAL"}]}

Test(files, base, command) ==
  [UpAll(files, base, [PlainConfig EXCEPT !.existing = base])
     EXCEPT !.command = command, !.instances = 1, !.applied = <<0>>]

TestFiles == {<<f>> : f \in TestShapes}
               \cup {<<f, g>> : f \in TestShapes, g \in TestShapes}

TestAllProjects ==
  {[Test(files, base, "test-all") EXCEPT !.sanity = sanity] :
     files \in TestFiles, base \in {{}, {"a"}}, sanity \in BOOLEAN}

TestProjects ==
  {Test(files, base, "test") : files \in TestFiles, base \in {{}, {"a"}}}

TestInstancesProjects ==
  {[Test(<<f>>, {}, "test-instances") EXCEPT
      !.instances = 2, !.applied = applied, !.parallel = parallel,
      !.validateOnly = only] :
     f \in TestShapes, applied \in {<<0, 0>>, <<0, 1>>},
     parallel \in BOOLEAN, only \in BOOLEAN}

MCFamilies ==
  {SchemaProjects, ReleaseProjects, DryProjects, OtherCommands, SyncProjects,
   JudgedProjects, TestAllProjects, TestProjects, TestInstancesProjects}
=============================================================================
