----------------------------- MODULE Validation -----------------------------
(***************************************************************************)
(* The validation of MariaDB migrations before they run: validate() and    *)
(* validateContent() of src/adapters/mariadb-adapter.js, the project       *)
(* policy of src/core/base-adapter.js and the verdict that                 *)
(* src/core/validation-gate.js draws from them.                            *)
(*                                                                         *)
(* The code reads SQL text with regular expressions; here a section is the *)
(* sequence of its statements (Schema.tla), and a rule stands for those of *)
(* its kind: SET_GLOBAL for the forbidden ones, TRUNCATE_TABLE and         *)
(* RENAME_TABLE for the dangerous ones.  The checks see a section as the   *)
(* set of what it contains, not in what order.                             *)
(*                                                                         *)
(* A project is a record: the migrations in run order, the "validation"    *)
(* part of its config, and what a run needs to know besides                *)
(* (InstanceRuns.tla).                                                     *)
(***************************************************************************)
EXTENDS Schema

Structural ==
  {"ORPHAN_DROP_DOWN", "ORPHAN_DROP_UP", "FK_UNRESOLVED_REFERENCE",
   "FK_REFERENCES_DROPPED_TABLE", "MISSING_UP_MARKER", "MISSING_DOWN"}

BuiltIn == Structural \cup {"DROP_TABLE", "TRUNCATE_TABLE", "RENAME_TABLE",
                            "SET_GLOBAL"}

NoCode == "none"

(* A flag, an annotation or a config entry lets findings pass: all the     *)
(* dangerous ones, all the forbidden ones, or those of some codes.         *)
(* "approver": @approved-by or --approved-by names somebody.               *)
NoRelease == [dangerous |-> FALSE, forbidden |-> FALSE, codes |-> {},
              approver |-> FALSE]

(***************************************************************************)
(* What a file contains.                                                   *)
(***************************************************************************)
(* extractSection(content, 'Up'): without the marker there is no section.  *)
Up(f) == IF f.marker THEN f.up ELSE <<>>

Contents(f) == f.up \o f.down

(* "upSQL || content": an empty Up section is as good as none.             *)
UpOrAll(f) == IF Up(f) = <<>> THEN Contents(f) ELSE Up(f)

In(script) == {script[n] : n \in DOMAIN script}

Created(script) ==
  {s.table : s \in {x \in In(script) : Creates(x)}}
    \cup {s.other : s \in {x \in In(script) : x.op = "rename"}}

Dropped(script) == {s.table : s \in {x \in In(script) : x.op = "drop"}}

RenamedAway(script) == {s.table : s \in {x \in In(script) : x.op = "rename"}}

References(script) == {s.other : s \in {x \in In(script) : x.op = "child"}}

(***************************************************************************)
(* Findings.  "kind" is the list that a finding is in, "how" its type      *)
(* where the code asks for it.  Only warnings do not block.                *)
(***************************************************************************)
Error(code) == [kind |-> "error", how |-> "structural", code |-> code]
Forbidden(how, code) == [kind |-> "forbidden", how |-> how, code |-> code]
Dangerous(how, code) == [kind |-> "dangerous", how |-> how, code |-> code]
Warning(how, code) == [kind |-> "warning", how |-> how, code |-> code]

Blocking(findings) == {x \in findings : x.kind # "warning"}
CodesOf(findings) == {x.code : x \in Blocking(findings)}

(* A finding is reported, unless the condition releases it: as a warning.  *)
Unless(released, allowed, finding) == {IF released THEN allowed ELSE finding}

(* The flags of the command, the file's annotations and validation.allow.  *)
Releases(project, flags, n) ==
  LET ann == project.files[n].ann
  IN  [dangerous |-> flags.dangerous \/ ann.dangerous,
       forbidden |-> flags.forbidden \/ ann.forbidden,
       codes |-> flags.codes \cup ann.codes \cup project.config.allow[n],
       approver |-> flags.approver \/ ann.approver]

DropsInDown(f, rel) ==
  UNION {Unless(rel.dangerous \/ "ORPHAN_DROP_DOWN" \in rel.codes,
                Warning("orphan", "ORPHAN_DROP_DOWN"),
                Error("ORPHAN_DROP_DOWN")) :
           t \in Dropped(f.down) \ Created(Up(f))}

(* Mutant: a Down that drops the table too counts as recreating it.        *)
DropsInUpLenient(f, rel, known) ==
  LET orphans == Dropped(Up(f)) \ Created(Up(f))
      undone == orphans \cap (Created(f.down) \cup Dropped(f.down))
      real == (orphans \ undone) \cap known
      typos == (orphans \ undone) \ known
  IN  {Warning("orphan", "ORPHAN_DROP_UP") : t \in undone}
        \cup (UNION {Unless(rel.dangerous \/ "DROP_TABLE" \in rel.codes,
                            Warning("dangerous-allowed", "DROP_TABLE"),
                            Dangerous("dangerous", "DROP_TABLE")) : t \in real})
        \cup (UNION {Unless(rel.dangerous \/ "ORPHAN_DROP_UP" \in rel.codes,
                            Warning("orphan", "ORPHAN_DROP_UP"),
                            Error("ORPHAN_DROP_UP")) : t \in typos})

(* A table that Up drops and did not create: a drop that Down undoes, one  *)
(* that loses data, or a name that no earlier migration knows.             *)
DropsInUp(f, rel, known) ==
  LET orphans == Dropped(Up(f)) \ Created(Up(f))
      undone == orphans \cap Created(f.down)
      real == (orphans \ undone) \cap known
      typos == (orphans \ undone) \ known
  IN  {Warning("orphan", "ORPHAN_DROP_UP") : t \in undone}
        \cup (UNION {Unless(rel.dangerous \/ "DROP_TABLE" \in rel.codes,
                            Warning("dangerous-allowed", "DROP_TABLE"),
                            Dangerous("dangerous", "DROP_TABLE")) : t \in real})
        \cup (UNION {Unless(rel.dangerous \/ "ORPHAN_DROP_UP" \in rel.codes,
                            Warning("orphan", "ORPHAN_DROP_UP"),
                            Error("ORPHAN_DROP_UP")) : t \in typos})

KeysToDropped(f) ==
  {Error("FK_REFERENCES_DROPPED_TABLE") :
     t \in References(Up(f)) \cap (Dropped(Up(f)) \ Created(Up(f)))}

(* Anywhere in the file, Down included.                                    *)
ForbiddenStatements(f, rel) ==
  UNION {Unless(rel.forbidden \/ "SET_GLOBAL" \in rel.codes,
                Warning("forbidden-allowed", "SET_GLOBAL"),
                Forbidden("forbidden", "SET_GLOBAL")) :
           s \in {x \in In(Contents(f)) : x.op = "global"}}

DangerCode(s) == IF s.op = "empty" THEN "TRUNCATE_TABLE" ELSE "RENAME_TABLE"

(* In the Up section only, statement by statement.                         *)
DangerousStatements(f, rel) ==
  UNION {Unless(rel.dangerous \/ DangerCode(s) \in rel.codes,
                Warning("dangerous-allowed", DangerCode(s)),
                Dangerous("dangerous", DangerCode(s))) :
           s \in {x \in In(UpOrAll(f)) : x.op \in {"empty", "rename"}}}

MissingSections(f) ==
  LET works == \E s \in In(Up(f)) :
                 s.op \in {"create", "child", "drop", "widen"}
  IN  (IF f.marker THEN {} ELSE {Error("MISSING_UP_MARKER")})
        \cup (IF f.down # <<>> THEN {}
              ELSE IF works THEN {Error("MISSING_DOWN")}
              ELSE {Warning("missing-down", NoCode)})

(***************************************************************************)
(* The policy of the project.                                              *)
(***************************************************************************)
(* validation.customRules: a code, the statements its pattern matches and  *)
(* a level.                                                                *)
CustomFindings(config, f, rel) ==
  (UNION {Unless(\/ rule.level = "forbidden" /\ rel.forbidden
                 \/ rule.level = "dangerous" /\ rel.dangerous
                 \/ rule.code \in rel.codes,
                 Warning(IF rule.level = "forbidden" THEN "forbidden-allowed"
                         ELSE "dangerous-allowed", rule.code),
                 IF rule.level = "forbidden" THEN Forbidden("custom", rule.code)
                 ELSE Dangerous("custom", rule.code)) :
            rule \in {r \in config.custom :
                        /\ r.level # "warning"
                        /\ \E s \in In(UpOrAll(f)) : s.op = r.op}})
    \cup {Warning("warning", rule.code) :
            rule \in {r \in config.custom :
                        /\ r.level = "warning"
                        /\ \E s \in In(UpOrAll(f)) : s.op = r.op}}

Protected == {"MISSING_UP_MARKER"}

(* validation.rules: an entry for an unknown or a protected code is        *)
(* reported and has no effect.                                             *)
Setting(config, code) ==
  LET known == BuiltIn \cup {r.code : r \in config.custom}
  IN  IF code \in (known \ Protected) \cap DOMAIN config.rules
      THEN config.rules[code] ELSE "as is"

ApplyRulePolicy(config, findings) ==
  LET with(setting) == {x \in findings : Setting(config, x.code) = setting}
      lowered == Blocking(with("warn"))
      raised == with("error") \ Blocking(findings)
  IN  (findings \ (with("off") \cup lowered \cup raised))
        \cup {Warning("downgraded", x.code) : x \in lowered}
        \cup {Dangerous("upgraded", x.code) : x \in raised}

(* Mutant: an approver is asked for and not insisted on.                   *)
ApplyApprovalLax(config, findings, approver) == findings

(* A released forbidden operation needs a name if the project says so.     *)
ApplyApproval(config, findings, approver) ==
  LET released == {x \in findings : x.how = "forbidden-allowed"}
  IN  IF approver \/ ~config.requireApprover \/ released = {} THEN findings
      ELSE (findings \ released)
             \cup {Forbidden("approver-required", "APPROVER_REQUIRED")}

(***************************************************************************)
(* What is known across files.                                             *)
(***************************************************************************)
(* tablesBeforeEachFile(): file n, and one past the last.                  *)
KnownBefore(project, n) ==
  LET known[k \in 1..n] ==
        IF k = 1 THEN project.config.existing
        ELSE LET script == UpOrAll(project.files[k - 1])
             IN  (known[k - 1] \ (Dropped(script) \cup RenamedAway(script)))
                   \cup Created(script)
  IN  known[n]

(* Mutant: a table that an earlier file dropped is still there.            *)
AvailableBeforeKept(project, n) ==
  LET available[k \in 1..n] ==
        IF k = 1 THEN project.config.existing
        ELSE available[k - 1] \cup Created(UpOrAll(project.files[k - 1]))
  IN  available[n]

(* The same, as validateCrossFileFKDependencies() tracks it: there a table *)
(* created and dropped by one file is gone afterwards.                     *)
AvailableBefore(project, n) ==
  LET available[k \in 1..n] ==
        IF k = 1 THEN project.config.existing
        ELSE LET script == UpOrAll(project.files[k - 1])
             IN  (available[k - 1] \cup Created(script))
                   \ (Dropped(script) \cup RenamedAway(script))
  IN  available[n]

UnresolvedKeys(project, flags, n) ==
  LET f == project.files[n]
      script == UpOrAll(f)
      rel == Releases(project, flags, n)
      gone == Dropped(script) \cup RenamedAway(script)
      available == (AvailableBefore(project, n) \ gone) \cup Created(script)
      setting == Setting(project.config, "FK_UNRESOLVED_REFERENCE")
      unresolved == References(script) \ available
  IN  IF unresolved = {} \/ setting = "off" THEN {}
      ELSE Unless(setting = "warn" \/ rel.dangerous
                    \/ "FK_UNRESOLVED_REFERENCE" \in rel.codes,
                  Warning("unresolved", "FK_UNRESOLVED_REFERENCE"),
                  Error("FK_UNRESOLVED_REFERENCE"))

(***************************************************************************)
(* The verdict.                                                            *)
(***************************************************************************)
(* validateContent().                                                      *)
ContentFindings(project, flags, n) ==
  LET f == project.files[n]
      rel == Releases(project, flags, n)
      known == KnownBefore(project, n)
      found == DropsInDown(f, rel) \cup DropsInUp(f, rel, known)
                 \cup KeysToDropped(f) \cup ForbiddenStatements(f, rel)
                 \cup DangerousStatements(f, rel) \cup MissingSections(f)
                 \cup CustomFindings(project.config, f, rel)
  IN  ApplyApproval(project.config, ApplyRulePolicy(project.config, found),
                    rel.approver)

(* validate(), for one file.                                               *)
Findings(project, flags, n) ==
  ContentFindings(project, flags, n) \cup UnresolvedKeys(project, flags, n)

Passes(project, flags, n) == Blocking(Findings(project, flags, n)) = {}

(* Mutant: every structural error is taken for one that can be released.   *)
CanReleaseAny(x) == x.how # "approver-required"

(* classifyCodes(): what --allow or @allow can release.                    *)
CanRelease(x) ==
  CASE x.kind = "forbidden" -> x.how # "approver-required"
    [] x.kind = "dangerous" -> TRUE
    [] x.kind = "error" -> x.code \in {"ORPHAN_DROP_DOWN", "ORPHAN_DROP_UP",
                                       "FK_UNRESOLVED_REFERENCE"}

(* allowHintForFailures(): the --allow value that the refusal suggests, and *)
(* whether some file must be edited.                                       *)
Hint(project, flags, pending) ==
  LET found(n) == Blocking(Findings(project, flags, n))
      allowable(n) == {x.code : x \in {y \in found(n) : CanRelease(y)}}
  IN  [codes |-> UNION {allowable(n) : n \in pending},
       needsFix |-> \E n \in pending :
                      ~ (CodesOf(found(n)) \subseteq allowable(n))]
=============================================================================
