------------------------ MODULE InstanceRuns_proofs ------------------------
(***************************************************************************)
(* What the commands for one or all instances promise, for every project:  *)
(* any number of files, statements, tables and instances, any config and   *)
(* any flags.  The invariants of InstanceRuns that TLC checks on small     *)
(* projects.                                                               *)
(***************************************************************************)
EXTENDS InstanceRuns, OrderLemmas

-----------------------------------------------------------------------------
(* Scripts and schemas.                                                    *)

(* What After() computes, statement by statement.                          *)
LEMMA AfterSteps ==
  ASSUME NEW db, NEW s
  PROVE  /\ After(db, s, 0) = db
         /\ \A n \in Nat :
              After(db, s, n + 1) = Effect(After(db, s, n), s[n + 1])
<1> DEFINE Body(g, m) ==
             [k \in 0..m |-> IF k = 0 THEN db ELSE Effect(g[k - 1], s[k])]
           Graph(g, m) == g = Body(g, m)
<1>1. ASSUME NEW g, NEW m \in Nat, Graph(g, m)
      PROVE  /\ g[0] = db
             /\ \A k \in 0..m : k # 0 => g[k] = Effect(g[k - 1], s[k])
  BY <1>1
<1>2. ASSUME NEW g, NEW h, NEW m \in Nat, NEW l \in Nat,
             Graph(g, m), Graph(h, l)
      PROVE  \A k \in Nat : k <= m /\ k <= l => g[k] = h[k]
  <2> DEFINE Bad == {k \in Nat : k <= m /\ k <= l /\ g[k] # h[k]}
  <2>0. /\ g[0] = db /\ h[0] = db
        /\ \A k \in 0..m : k # 0 => g[k] = Effect(g[k - 1], s[k])
        /\ \A k \in 0..l : k # 0 => h[k] = Effect(h[k - 1], s[k])
    BY <1>1, <1>2
  <2>1. SUFFICES ASSUME Bad # {} PROVE FALSE
    OBVIOUS
  <2>2. PICK x \in Bad : \A y \in Bad : x <= y
    BY <2>1, NatMinimum
  <2>3. x # 0
    BY <2>0, <2>2
  <2>4. x - 1 \in Nat /\ x - 1 \notin Bad /\ x \in 0..m /\ x \in 0..l
    BY <2>2, <2>3
  <2>5. g[x - 1] = h[x - 1]
    <3>1. x - 1 \in Nat /\ x - 1 <= m /\ x - 1 <= l
      BY <2>4
    <3>2. x - 1 \notin Bad
      BY <2>4
    <3> QED  BY <3>1, <3>2
  <2>6. g[x] = Effect(g[x - 1], s[x]) /\ h[x] = Effect(h[x - 1], s[x])
    BY <2>0, <2>3, <2>4
  <2> QED  BY <2>2, <2>5, <2>6
<1>3. \A m \in Nat : \E g : Graph(g, m)
  <2> DEFINE Bad == {m \in Nat : ~ \E g : Graph(g, m)}
  <2>1. SUFFICES ASSUME Bad # {} PROVE FALSE
    OBVIOUS
  <2>2. PICK x \in Bad : \A y \in Bad : x <= y
    BY <2>1, NatMinimum
  <2>3. CASE x = 0
    <3>1. Graph([k \in 0..0 |-> db], 0)
      OBVIOUS
    <3> QED  BY <2>2, <2>3, <3>1
  <2>4. CASE x # 0
    <3>1. x - 1 \in Nat /\ x - 1 \notin Bad
      <4>1. x \in Nat
        BY <2>2
      <4>2. x - 1 \in Nat /\ ~(x <= x - 1)
        BY <4>1, <2>4
      <4> HIDE DEF Bad
      <4> QED  BY <4>2, <2>2
    <3>2. PICK g : Graph(g, x - 1)
      BY <3>1
    <3> DEFINE h == [k \in 0..x |-> IF k < x THEN g[k]
                                    ELSE Effect(g[x - 1], s[x])]
    <3>3. /\ g[0] = db
          /\ \A k \in 0..x - 1 : k # 0 => g[k] = Effect(g[k - 1], s[k])
      BY <3>1, <3>2, <1>1
    <3>4. ASSUME NEW k \in 0..x
          PROVE  h[k] = IF k = 0 THEN db ELSE Effect(h[k - 1], s[k])
      <4>1. CASE k = 0  BY <4>1, <3>3, <2>4
      <4>2. CASE k # 0 /\ k < x
        <5>1. k - 1 \in 0..x /\ k - 1 < x /\ k \in 0..x - 1
          BY <4>2, <2>2
        <5> QED  BY <4>2, <3>3, <5>1
      <4>3. CASE k = x
        <5>1. k - 1 \in 0..x /\ k - 1 < x
          BY <4>3, <2>4, <2>2
        <5> QED  BY <4>3, <2>4, <5>1
      <4> QED  BY <4>1, <4>2, <4>3, <2>2
    <3>5. Graph(h, x)
      BY <3>4
    <3> QED  BY <3>5, <2>2
  <2> QED  BY <2>3, <2>4
<1>4. ASSUME NEW m \in Nat
      PROVE  \E g : Graph(g, m) /\ After(db, s, m) = g[m]
  <2>1. After(db, s, m) = (CHOOSE g : Graph(g, m))[m]
    BY DEF After
  <2>2. Graph(CHOOSE g : Graph(g, m), m)
    BY <1>3
  <2> QED  BY <2>1, <2>2
<1>5. After(db, s, 0) = db
  <2>1. PICK g : Graph(g, 0) /\ After(db, s, 0) = g[0]
    BY <1>4
  <2> QED  BY <2>1, <1>1
<1>6. ASSUME NEW n \in Nat
      PROVE  After(db, s, n + 1) = Effect(After(db, s, n), s[n + 1])
  <2>1. PICK g : Graph(g, n) /\ After(db, s, n) = g[n]
    BY <1>4
  <2>2. n + 1 \in Nat /\ n <= n + 1 /\ n + 1 \in 0..n + 1 /\ n + 1 # 0
        /\ (n + 1) - 1 = n
    OBVIOUS
  <2>3. PICK h : Graph(h, n + 1) /\ After(db, s, n + 1) = h[n + 1]
    BY <1>4, <2>2
  <2>4. h[n + 1] = Effect(h[n], s[n + 1])
    BY <2>2, <2>3, <1>1
  <2>5. g[n] = h[n]
    BY <1>2, <2>1, <2>2, <2>3
  <2> QED  BY <2>1, <2>3, <2>4, <2>5
<1> QED  BY <1>5, <1>6

(* A statement takes a table away, or brings it.                           *)
Takes(s, t) == s.op \in {"drop", "rename"} /\ s.table = t

Gives(s, t) == \/ Creates(s) /\ s.table = t
               \/ s.op = "rename" /\ s.other = t

LEMMA EffectType ==
  ASSUME NEW db \in Schemas, NEW s \in Statements
  PROVE  Effect(db, s) \in Schemas
<1>1. /\ db.tables \subseteq Tables /\ db.wide \subseteq Tables
      /\ db.keys \subseteq Tables \X Tables
      /\ db = [tables |-> db.tables, keys |-> db.keys, wide |-> db.wide]
      /\ s.table \in Tables /\ s.other \in Tables
  BY DEF Schemas, Statements
<1>2. /\ <<s.table, s.other>> \in Tables \X Tables
      /\ \A t \in Tables : Renamed(s, t) \in Tables
  BY <1>1 DEF Renamed
<1>3. CASE s.op \in {"create", "child"}
  BY <1>1, <1>2, <1>3 DEF Effect, Schemas
<1>4. CASE s.op = "drop"
  BY <1>1, <1>4 DEF Effect, Schemas
<1>5. CASE s.op = "rename"
  <2>1. /\ {Renamed(s, t) : t \in db.tables} \subseteq Tables
        /\ {Renamed(s, t) : t \in db.wide} \subseteq Tables
    BY <1>1, <1>2
  <2>2. ASSUME NEW k \in db.keys
        PROVE  <<Renamed(s, k[1]), Renamed(s, k[2])>> \in Tables \X Tables
    BY <1>1, <1>2
  <2>3. {<<Renamed(s, k[1]), Renamed(s, k[2])>> : k \in db.keys}
          \subseteq Tables \X Tables
    BY <2>2
  <2> HIDE DEF Renamed
  <2>4. Effect(db, s) = [tables |-> {Renamed(s, t) : t \in db.tables},
                         keys |-> {<<Renamed(s, k[1]), Renamed(s, k[2])>> :
                                     k \in db.keys},
                         wide |-> {Renamed(s, t) : t \in db.wide}]
    BY <1>5 DEF Effect
  <2> QED  BY <2>1, <2>3, <2>4 DEF Schemas
<1>6. CASE s.op \in {"widen", "empty", "global"}
  BY <1>1, <1>6 DEF Effect, Schemas
<1> QED  BY <1>3, <1>4, <1>5, <1>6 DEF Statements, Operations

(* What a statement does to the tables, whatever else it does.             *)
LEMMA EffectTables ==
  ASSUME NEW db \in Schemas, NEW s \in Statements
  PROVE  Effect(db, s).tables =
           IF Creates(s) THEN db.tables \cup {s.table}
           ELSE IF s.op = "drop" THEN db.tables \ {s.table}
           ELSE IF s.op = "rename" THEN {Renamed(s, t) : t \in db.tables}
           ELSE db.tables
<1>1. db = [tables |-> db.tables, keys |-> db.keys, wide |-> db.wide]
  BY DEF Schemas
<1>2. CASE s.op \in {"create", "child"}
  BY <1>1, <1>2 DEF Effect, Creates
<1>3. CASE s.op = "drop"
  BY <1>1, <1>3 DEF Effect, Creates
<1>4. CASE s.op = "rename"
  BY <1>1, <1>4 DEF Effect, Creates
<1>5. CASE s.op \in {"widen", "empty", "global"}
  BY <1>1, <1>5 DEF Effect, Creates
<1> QED  BY <1>2, <1>3, <1>4, <1>5 DEF Statements, Operations

(* A table stays unless it is taken, and none comes that is not given; a   *)
(* statement that the server accepts gives and takes what it says.         *)
LEMMA OneStatement ==
  ASSUME NEW db \in Schemas, NEW s \in Statements, NEW t
  PROVE  /\ t \in db.tables /\ ~Takes(s, t) => t \in Effect(db, s).tables
         /\ t \in Effect(db, s).tables => t \in db.tables \/ Gives(s, t)
         /\ ~Refuses(db, s) /\ Gives(s, t) => t \in Effect(db, s).tables
         /\ ~Refuses(db, s) /\ Takes(s, t) => t \notin Effect(db, s).tables
<1>1. CASE Creates(s)
  BY <1>1, EffectTables DEF Takes, Gives, Creates
<1>2. CASE s.op = "drop"
  BY <1>2, EffectTables DEF Takes, Gives, Creates
<1>3. CASE s.op = "rename"
  <2>1. Effect(db, s).tables = {Renamed(s, u) : u \in db.tables}
    BY <1>3, EffectTables DEF Creates
  <2>2. ~Refuses(db, s) => s.table \in db.tables /\ s.other \notin db.tables
    BY <1>3 DEF Refuses
  <2> QED  BY <1>3, <2>1, <2>2 DEF Takes, Gives, Creates, Renamed
<1>4. CASE ~Creates(s) /\ s.op \notin {"drop", "rename"}
  BY <1>4, EffectTables DEF Takes, Gives, Creates
<1> QED  BY <1>1, <1>2, <1>3, <1>4

-----------------------------------------------------------------------------
(* A whole section.                                                        *)

LEMMA AfterType ==
  ASSUME NEW db \in Schemas, NEW s \in Seq(Statements)
  PROVE  \A n \in 0..Len(s) : After(db, s, n) \in Schemas
<1> DEFINE Bad == {n \in 0..Len(s) : After(db, s, n) \notin Schemas}
<1>1. SUFFICES ASSUME Bad # {} PROVE FALSE
  OBVIOUS
<1>2. PICK x \in Bad : \A y \in Bad : x <= y
  <2>1. Bad \subseteq Nat
    OBVIOUS
  <2> QED  BY <1>1, <2>1, NatMinimum
<1>3. x # 0
  BY <1>2, AfterSteps
<1>4. x - 1 \in Nat /\ x - 1 \in 0..Len(s) /\ x - 1 \notin Bad
  BY <1>2, <1>3
<1>5. (x - 1) + 1 = x /\ s[x] \in Statements
  BY <1>2, <1>3
<1>6. After(db, s, x - 1) \in Schemas
  BY <1>4
<1>7. After(db, s, x) = Effect(After(db, s, x - 1), s[x])
  <2>1. After(db, s, (x - 1) + 1) = Effect(After(db, s, x - 1), s[(x - 1) + 1])
    <3>1. x - 1 \in Nat
      BY <1>4
    <3> QED  BY <3>1, AfterSteps, ZenonT(60)
  <2> QED  BY <2>1, <1>5
<1> QED  BY <1>2, <1>5, <1>6, <1>7, EffectType

(* One step of a section: the schema before and after its k-th statement.  *)
LEMMA SectionStep ==
  ASSUME NEW db \in Schemas, NEW s \in Seq(Statements), NEW k \in 1..Len(s)
  PROVE  /\ k - 1 \in 0..Len(s) /\ s[k] \in Statements
         /\ After(db, s, k - 1) \in Schemas
         /\ After(db, s, k) = Effect(After(db, s, k - 1), s[k])
<1>1. k - 1 \in 0..Len(s) /\ k - 1 \in Nat /\ s[k] \in Statements
      /\ (k - 1) + 1 = k
  OBVIOUS
<1>2. After(db, s, (k - 1) + 1) = Effect(After(db, s, k - 1), s[(k - 1) + 1])
  BY <1>1, AfterSteps
<1> QED  BY <1>1, <1>2, AfterType

(* Reach(): statements take effect until the server refuses one.           *)
LEMMA ReachFacts ==
  ASSUME NEW db, NEW s \in Seq(Statements)
  PROVE  /\ Reach(db, s) \in 0..Len(s)
         /\ \A k \in 1..Reach(db, s) :
              ~Refuses(After(db, s, k - 1), s[k])
         /\ Reach(db, s) < Len(s) =>
              Refuses(After(db, s, Reach(db, s)), s[Reach(db, s) + 1])
<1> DEFINE ok == {n \in 0..Len(s) :
                    \A k \in 1..n : ~Refuses(After(db, s, k - 1), s[k])}
           r == Reach(db, s)
<1>0. Len(s) \in Nat
  OBVIOUS
<1>1. ok \subseteq Nat /\ (\A x \in ok : x <= Len(s)) /\ 0 \in ok
  BY <1>0
<1>2. \E x \in ok : \A y \in ok : y <= x
  <2> HIDE DEF ok
  <2> QED  BY <1>0, <1>1, NatMaximum
<1>3. r = CHOOSE n \in ok : \A k \in ok : k <= n
  BY DEF Reach
<1>4. r \in ok /\ \A k \in ok : k <= r
  <2> HIDE DEF ok, r
  <2> QED  BY <1>2, <1>3
<1>5. r \in 0..Len(s)
      /\ \A k \in 1..r : ~Refuses(After(db, s, k - 1), s[k])
  BY <1>4
<1>6. ASSUME r < Len(s), ~Refuses(After(db, s, r), s[r + 1])
      PROVE  FALSE
  <2> HIDE DEF r
  <2>1. r + 1 \in 0..Len(s) /\ (r + 1) - 1 = r /\ r \in Nat
    BY <1>0, <1>5, <1>6
  <2>2. ASSUME NEW k \in 1..r + 1
        PROVE  ~Refuses(After(db, s, k - 1), s[k])
    <3>1. CASE k = r + 1  BY <3>1, <2>1, <1>6
    <3>2. CASE k # r + 1
      <4>1. k \in 1..r
        BY <3>2, <2>1
      <4> QED  BY <4>1, <1>5
    <3> QED  BY <3>1, <3>2
  <2>3. r + 1 \in ok
    BY <2>1, <2>2
  <2> QED  BY <2>1, <2>3, <1>4
<1> HIDE DEF ok
<1> QED  BY <1>5, <1>6

(* A table that no statement of a stretch takes away is there after it.    *)
LEMMA Stays ==
  ASSUME NEW db \in Schemas, NEW s \in Seq(Statements), NEW t,
         NEW j \in 0..Len(s), NEW k \in j..Len(s),
         t \in After(db, s, j).tables,
         \A l \in j + 1..k : ~Takes(s[l], t)
  PROVE  t \in After(db, s, k).tables
<1> DEFINE Bad == {n \in j..k : t \notin After(db, s, n).tables}
<1>1. SUFFICES ASSUME Bad # {} PROVE FALSE
  OBVIOUS
<1>2. PICK x \in Bad : \A y \in Bad : x <= y
  <2>1. Bad \subseteq Nat
    OBVIOUS
  <2> QED  BY <1>1, <2>1, NatMinimum
<1>3. x # j
  BY <1>2
<1>4. /\ x - 1 \in j..k /\ x - 1 \notin Bad /\ x \in j + 1..k
      /\ x \in 1..Len(s)
  BY <1>2, <1>3
<1>5. t \in After(db, s, x - 1).tables
  BY <1>4
<1>6. /\ s[x] \in Statements /\ After(db, s, x - 1) \in Schemas
      /\ After(db, s, x) = Effect(After(db, s, x - 1), s[x])
  BY <1>4, SectionStep
<1>7. ~Takes(s[x], t)
  BY <1>4
<1>8. t \in After(db, s, x).tables
  BY <1>5, <1>6, <1>7, OneStatement
<1> QED  BY <1>2, <1>8

(* A table that is gone was taken by one of the statements.                *)
LEMMA GoneWasTaken ==
  ASSUME NEW db \in Schemas, NEW s \in Seq(Statements), NEW t,
         NEW k \in 0..Len(s),
         t \in db.tables, t \notin After(db, s, k).tables
  PROVE  \E l \in 1..k : Takes(s[l], t)
<1>1. SUFFICES ASSUME \A l \in 1..k : ~Takes(s[l], t) PROVE FALSE
  OBVIOUS
<1>2. /\ 0 \in 0..Len(s) /\ k \in 0..Len(s)
      /\ t \in After(db, s, 0).tables
      /\ \A l \in 0 + 1..k : ~Takes(s[l], t)
  BY <1>1, AfterSteps
<1>3. t \in After(db, s, k).tables
  BY <1>2, Stays
<1> QED  BY <1>3

-----------------------------------------------------------------------------
(* What validation lets through.                                           *)

(* Everything that validateContent() finds, before the project's policy.   *)
Found(p, fl, n) ==
  LET f == p.files[n]
      rel == Releases(p, fl, n)
  IN  DropsInDown(f, rel) \cup DropsInUp(f, rel, KnownBefore(p, n))
        \cup KeysToDropped(f) \cup ForbiddenStatements(f, rel)
        \cup DangerousStatements(f, rel) \cup MissingSections(f)
        \cup CustomFindings(p.config, f, rel)

(* The project has set the rule aside.                                     *)
SetAside(p, code) == Setting(p.config, code) \in {"off", "warn"}

LEMMA ContentIs ==
  ASSUME NEW p, NEW fl, NEW n
  PROVE  ContentFindings(p, fl, n) =
           ApplyApproval(p.config, ApplyRulePolicy(p.config, Found(p, fl, n)),
                         Releases(p, fl, n).approver)
BY DEF ContentFindings, Found

(* A finding that is no warning blocks, unless its rule is set aside.      *)
LEMMA FindingBlocks ==
  ASSUME NEW p, NEW fl, NEW n, NEW x \in Found(p, fl, n),
         x.kind # "warning", x.how # "forbidden-allowed",
         ~SetAside(p, x.code)
  PROVE  x \in Blocking(Findings(p, fl, n))
<1> DEFINE found == Found(p, fl, n)
           policy == ApplyRulePolicy(p.config, found)
<1>1. x \in policy
  <2> HIDE DEF found
  <2>1. x \in found
    BY DEF found
  <2> QED  BY <2>1, Zenon DEF ApplyRulePolicy, Blocking, SetAside
<1>2. x \in ApplyApproval(p.config, policy, Releases(p, fl, n).approver)
  <2> HIDE DEF policy
  <2> QED  BY <1>1, Zenon DEF ApplyApproval
<1>3. x \in ContentFindings(p, fl, n)
  BY <1>2, ContentIs, Zenon
<1> QED  BY <1>3, Zenon DEF Findings, Blocking

LEMMA PassesMeans ==
  ASSUME NEW p, NEW fl, NEW n, Passes(p, fl, n),
         NEW x \in Found(p, fl, n),
         x.kind # "warning", x.how # "forbidden-allowed"
  PROVE  SetAside(p, x.code)
BY FindingBlocks, Zenon DEF Passes

(* A released forbidden operation passes only with an approver, where the  *)
(* project wants one, or with its rule set aside.                          *)
LEMMA ApprovalMeans ==
  ASSUME NEW p, NEW fl, NEW n, Passes(p, fl, n), NEW code,
         Warning("forbidden-allowed", code) \in Found(p, fl, n)
  PROVE  \/ ~p.config.requireApprover
         \/ Releases(p, fl, n).approver
         \/ SetAside(p, code)
<1> DEFINE x == Warning("forbidden-allowed", code)
           found == Found(p, fl, n)
           policy == ApplyRulePolicy(p.config, found)
           y == Forbidden("approver-required", "APPROVER_REQUIRED")
           up == Dangerous("upgraded", code)
<1>1. SUFFICES ASSUME p.config.requireApprover, ~Releases(p, fl, n).approver,
                      ~SetAside(p, code)
               PROVE  FALSE
  BY Zenon
<1>0. /\ x.kind = "warning" /\ x.how = "forbidden-allowed" /\ x.code = code
      /\ up.kind = "dangerous" /\ up.how = "upgraded" /\ up.code = code
      /\ y.kind = "forbidden" /\ y.how = "approver-required"
  BY DEF Warning, Dangerous, Forbidden
<1>2. x \in found
  OBVIOUS
<1>3. x \in policy \/ up \in policy
  <2> HIDE DEF found, x
  <2>1. x \notin Blocking(found)
    BY <1>0 DEF Blocking
  <2>2. CASE Setting(p.config, code) = "error"
    BY <2>1, <2>2, <1>0, <1>2, Zenon DEF ApplyRulePolicy
  <2>3. CASE Setting(p.config, code) # "error"
    BY <2>1, <2>3, <1>0, <1>1, <1>2, Zenon
    DEF ApplyRulePolicy, Blocking, SetAside
  <2> QED  BY <2>2, <2>3, Zenon
<1>4. \E z \in ContentFindings(p, fl, n) : z.kind # "warning"
  <2>1. CASE up \in policy
    <3> HIDE DEF policy, up
    <3>1. up \in ApplyApproval(p.config, policy, Releases(p, fl, n).approver)
      BY <2>1, <1>0, Zenon DEF ApplyApproval
    <3>2. up.kind # "warning"
      BY <1>0
    <3> QED  BY <3>1, <3>2, ContentIs, Zenon DEF policy, found
  <2>2. CASE x \in policy
    <3> HIDE DEF policy, x
    <3>1. {z \in policy : z.how = "forbidden-allowed"} # {}
      BY <2>2, <1>0
    <3>2. y \in ApplyApproval(p.config, policy, Releases(p, fl, n).approver)
      BY <3>1, <1>1, Zenon DEF ApplyApproval
    <3>3. y.kind # "warning"
      BY <1>0
    <3> HIDE DEF y
    <3> QED  BY <3>2, <3>3, ContentIs, Zenon DEF policy, found
  <2> QED  BY <2>1, <2>2, <1>3, Zenon
<1>5. Blocking(Findings(p, fl, n)) # {}
  BY <1>4, Zenon DEF Blocking, Findings
<1> QED  BY <1>5, Zenon DEF Passes

(* Decided(), for any project and any flags.                               *)
DecidedIn(p, fl, n, code) ==
  LET rel == Releases(p, fl, n)
  IN  \/ code \in rel.codes
      \/ code = "SET_GLOBAL" /\ rel.forbidden
      \/ code # "SET_GLOBAL" /\ rel.dangerous
      \/ SetAside(p, code)

(* A finding that a flag could have released passed because somebody       *)
(* decided so.                                                             *)
LEMMA UnlessMeans ==
  ASSUME NEW p, NEW fl, NEW n, Passes(p, fl, n), NEW code, NEW by, NEW allowed,
         NEW x, x.kind # "warning", x.how # "forbidden-allowed",
         x.code = code,
         Unless(by \/ code \in Releases(p, fl, n).codes, allowed, x)
           \subseteq Found(p, fl, n)
  PROVE  \/ by
         \/ code \in Releases(p, fl, n).codes
         \/ SetAside(p, code)
<1>1. SUFFICES ASSUME ~by, code \notin Releases(p, fl, n).codes
               PROVE  SetAside(p, code)
  BY Zenon
<1>2. x \in Found(p, fl, n)
  BY <1>1 DEF Unless
<1> QED  BY <1>2, PassesMeans, Zenon

LEMMA DownDecided ==
  ASSUME NEW p, NEW fl, NEW n, Passes(p, fl, n),
         NEW t \in Dropped(p.files[n].down) \ Created(Up(p.files[n]))
  PROVE  DecidedIn(p, fl, n, "ORPHAN_DROP_DOWN")
<1> DEFINE code == "ORPHAN_DROP_DOWN"
           rel == Releases(p, fl, n)
           x == Error(code)
<1>1. Unless(rel.dangerous \/ code \in rel.codes, Warning("orphan", code), x)
        \subseteq DropsInDown(p.files[n], rel)
  BY Zenon DEF DropsInDown
<1>2. Unless(rel.dangerous \/ code \in rel.codes, Warning("orphan", code), x)
        \subseteq Found(p, fl, n)
  BY <1>1, Zenon DEF Found
<1>3. x.kind # "warning" /\ x.how # "forbidden-allowed" /\ x.code = code
  BY DEF Error
<1> HIDE DEF x
<1>4. rel.dangerous \/ code \in rel.codes \/ SetAside(p, code)
  BY <1>2, <1>3, UnlessMeans, Zenon
<1> QED  BY <1>4, Zenon DEF DecidedIn

(* A dropped table that Down does not bring back.                          *)
LEMMA DropDecided ==
  ASSUME NEW p, NEW fl, NEW n, Passes(p, fl, n),
         NEW t \in Dropped(Up(p.files[n])) \ Created(Up(p.files[n])),
         t \notin Created(p.files[n].down)
  PROVE  /\ t \in KnownBefore(p, n) => DecidedIn(p, fl, n, "DROP_TABLE")
         /\ t \notin KnownBefore(p, n) =>
              DecidedIn(p, fl, n, "ORPHAN_DROP_UP")
<1> DEFINE rel == Releases(p, fl, n)
           known == KnownBefore(p, n)
           orphans == Dropped(Up(p.files[n])) \ Created(Up(p.files[n]))
           undone == orphans \cap Created(p.files[n].down)
<1>1. ASSUME t \in known
      PROVE  DecidedIn(p, fl, n, "DROP_TABLE")
  <2> DEFINE code == "DROP_TABLE"
             x == Dangerous("dangerous", code)
             as == Warning("dangerous-allowed", code)
  <2>0. t \in (orphans \ undone) \cap known
    BY <1>1
  <2>1. Unless(rel.dangerous \/ code \in rel.codes, as, x)
          \subseteq DropsInUp(p.files[n], rel, known)
    BY <2>0, Zenon DEF DropsInUp
  <2>2. Unless(rel.dangerous \/ code \in rel.codes, as, x)
          \subseteq Found(p, fl, n)
    BY <2>1, Zenon DEF Found
  <2>3. x.kind # "warning" /\ x.how # "forbidden-allowed" /\ x.code = code
    BY DEF Dangerous
  <2> HIDE DEF x, as
  <2>4. rel.dangerous \/ code \in rel.codes \/ SetAside(p, code)
    BY <2>2, <2>3, UnlessMeans, Zenon
  <2> QED  BY <2>4, Zenon DEF DecidedIn
<1>2. ASSUME t \notin known
      PROVE  DecidedIn(p, fl, n, "ORPHAN_DROP_UP")
  <2> DEFINE code == "ORPHAN_DROP_UP"
             x == Error(code)
             as == Warning("orphan", code)
  <2>0. t \in (orphans \ undone) \ known
    BY <1>2
  <2>1. Unless(rel.dangerous \/ code \in rel.codes, as, x)
          \subseteq DropsInUp(p.files[n], rel, known)
    BY <2>0, Zenon DEF DropsInUp
  <2>2. Unless(rel.dangerous \/ code \in rel.codes, as, x)
          \subseteq Found(p, fl, n)
    BY <2>1, Zenon DEF Found
  <2>3. x.kind # "warning" /\ x.how # "forbidden-allowed" /\ x.code = code
    BY DEF Error
  <2> HIDE DEF x, as
  <2>4. rel.dangerous \/ code \in rel.codes \/ SetAside(p, code)
    BY <2>2, <2>3, UnlessMeans, Zenon
  <2> QED  BY <2>4, Zenon DEF DecidedIn
<1> QED  BY <1>1, <1>2

(* TRUNCATE and RENAME in Up.                                              *)
LEMMA DangerDecided ==
  ASSUME NEW p, NEW fl, NEW n, Passes(p, fl, n),
         NEW s \in In(UpOrAll(p.files[n])), s.op \in {"empty", "rename"}
  PROVE  DecidedIn(p, fl, n, DangerCode(s))
<1> DEFINE rel == Releases(p, fl, n)
           code == DangerCode(s)
           x == Dangerous("dangerous", code)
           as == Warning("dangerous-allowed", code)
<1>1. Unless(rel.dangerous \/ code \in rel.codes, as, x)
        \subseteq DangerousStatements(p.files[n], rel)
  BY Zenon DEF DangerousStatements
<1>2. Unless(rel.dangerous \/ code \in rel.codes, as, x)
        \subseteq Found(p, fl, n)
  BY <1>1, Zenon DEF Found
<1>3. x.kind # "warning" /\ x.how # "forbidden-allowed" /\ x.code = code
  BY DEF Dangerous
<1>4. code # "SET_GLOBAL"
  BY DEF DangerCode
<1> HIDE DEF x, as, code
<1>5. rel.dangerous \/ code \in rel.codes \/ SetAside(p, code)
  BY <1>2, <1>3, UnlessMeans, Zenon
<1> QED  BY <1>4, <1>5, Zenon DEF DecidedIn, code

(* Forbidden statements, anywhere in the file.                             *)
LEMMA ForbiddenDecided ==
  ASSUME NEW p, NEW fl, NEW n, Passes(p, fl, n),
         NEW s \in In(Contents(p.files[n])), s.op = "global"
  PROVE  /\ DecidedIn(p, fl, n, "SET_GLOBAL")
         /\ \/ ~p.config.requireApprover
            \/ Releases(p, fl, n).approver
            \/ SetAside(p, "SET_GLOBAL")
<1> DEFINE rel == Releases(p, fl, n)
           code == "SET_GLOBAL"
           x == Forbidden("forbidden", code)
           as == Warning("forbidden-allowed", code)
<1>1. Unless(rel.forbidden \/ code \in rel.codes, as, x)
        \subseteq ForbiddenStatements(p.files[n], rel)
  BY Zenon DEF ForbiddenStatements
<1>2. Unless(rel.forbidden \/ code \in rel.codes, as, x)
        \subseteq Found(p, fl, n)
  BY <1>1, Zenon DEF Found
<1>3. x.kind # "warning" /\ x.how # "forbidden-allowed" /\ x.code = code
  BY DEF Forbidden
<1>4. as \in Found(p, fl, n) \/ x \in Found(p, fl, n)
  <2> HIDE DEF x, as
  <2> QED  BY <1>2, Zenon DEF Unless
<1>5. rel.forbidden \/ code \in rel.codes \/ SetAside(p, code)
  <2> HIDE DEF x, as
  <2> QED  BY <1>2, <1>3, UnlessMeans, Zenon
<1>6. DecidedIn(p, fl, n, code)
  BY <1>5, Zenon DEF DecidedIn
<1>7. CASE as \in Found(p, fl, n)
  BY <1>6, <1>7, ApprovalMeans, Zenon
<1>8. CASE x \in Found(p, fl, n)
  <2> HIDE DEF x
  <2>1. SetAside(p, code)
    BY <1>3, <1>8, PassesMeans, Zenon
  <2> QED  BY <1>6, <2>1, Zenon
<1> QED  BY <1>4, <1>7, <1>8, Zenon

(* A foreign key to a table that no earlier file leaves behind.            *)
LEMMA KeyDecided ==
  ASSUME NEW p, NEW fl, NEW n, Passes(p, fl, n),
         NEW script, script = UpOrAll(p.files[n]),
         NEW t \in References(script),
         t \notin (AvailableBefore(p, n)
                     \ (Dropped(script) \cup RenamedAway(script)))
                    \cup Created(script)
  PROVE  DecidedIn(p, fl, n, "FK_UNRESOLVED_REFERENCE")
<1> DEFINE rel == Releases(p, fl, n)
           code == "FK_UNRESOLVED_REFERENCE"
           setting == Setting(p.config, code)
           x == Error(code)
<1>1. SUFFICES ASSUME ~rel.dangerous, code \notin rel.codes,
                      setting # "off", setting # "warn"
               PROVE  FALSE
  BY Zenon DEF DecidedIn, SetAside
<1>2. x \in UnresolvedKeys(p, fl, n)
  BY <1>1, Zenon DEF UnresolvedKeys, Unless
<1>3. x.kind # "warning"
  BY DEF Error
<1>4. x \in Blocking(Findings(p, fl, n))
  <2> HIDE DEF x
  <2> QED  BY <1>2, <1>3, Zenon DEF Findings, Blocking
<1> QED  BY <1>4, Zenon DEF Passes

-----------------------------------------------------------------------------
(* The variables have their types.                                         *)

Memories == [count : Nat, before : Schemas, applied : SUBSET Files]
Mails == [status : {"none", "failed", "skipped", "applied"},
          applied : SUBSET Files]

(* What is in a changelog is an initial segment of the files.              *)
Changelogs == {1..m : m \in 0..N}

TypeOK ==
  /\ \E family \in Families : project \in family
  /\ attempt \in {1, 2}
  /\ pc \in [Instances -> Stages]
  /\ schema \in [Instances -> Schemas]
  /\ log \in [Instances -> Changelogs]
  /\ mem \in [Instances -> Memories]
  /\ failed \subseteq Instances
  /\ mail \in [Instances -> Mails]
  /\ ran \in [Instances -> SUBSET Files]
  /\ lost \in [Instances -> SUBSET (Files \X Tables)]
  /\ stuck \in [Instances -> SUBSET (Files \X Statements)]
  /\ reached \in [Instances -> SUBSET Tables]
  /\ kept \in [Instances -> SUBSET Files]
  /\ hints = [i \in Instances |-> hints[i]]

(* What a step for one instance leaves alone: everything of the others.    *)
OthersKept(i) ==
  \A j \in Instances \ {i} :
    /\ pc'[j] = pc[j] /\ schema'[j] = schema[j] /\ log'[j] = log[j]
    /\ mem'[j] = mem[j] /\ mail'[j] = mail[j]
    /\ (j \in failed' <=> j \in failed)
    /\ ran'[j] = ran[j] /\ lost'[j] = lost[j] /\ stuck'[j] = stuck[j]
    /\ reached'[j] = reached[j] /\ kept'[j] = kept[j] /\ hints'[j] = hints[j]

(* The steps of the command for one instance: Next without RunAgain.       *)
Move(i) ==
  \/ Connect(i) \/ QueryFails(i) \/ Judge(i) \/ Validate(i)
  \/ Gate(i) \/ NothingIsAnError(i) \/ LookBefore(i) \/ Report(i)
  \/ UpFile(i) \/ UpRejects(i) \/ UpEnd(i)
  \/ DownFile(i) \/ DownEnd(i)
  \/ Snapshot(i) \/ SanityFile(i) \/ SanityEnd(i)

LEMMA ProjectFacts ==
  ASSUME TypeOK
  PROVE  /\ N \in Nat /\ project.instances \in Nat
         /\ project.files \in Seq(Migrations) /\ project.base \subseteq Tables
         /\ project.command \in Commands /\ project.flags \in ReleaseFlags
         /\ \A i \in Instances : project.applied[i] \in 0..N
         /\ \A n \in Files :
              /\ File(n) \in Migrations
              /\ File(n).up \in Seq(Statements)
              /\ File(n).down \in Seq(Statements)
<1>1. PICK family \in Families : project \in family
  BY DEF TypeOK
<1>2. /\ project.files \in Seq(Migrations) /\ project.base \subseteq Tables
      /\ project.instances \in Nat /\ project.command \in Commands
      /\ \A i \in 1..project.instances :
           project.applied[i] \in 0..Len(project.files)
      /\ project.flags \in ReleaseFlags
  BY <1>1, ProjectAssumption, Zenon
<1>3. \A n \in Files : File(n) \in Migrations
  BY <1>2 DEF Files, N, File
<1>4. \A f \in Migrations : f.up \in Seq(Statements) /\ f.down \in Seq(Statements)
  BY DEF Migrations
<1> QED  BY <1>2, <1>3, <1>4 DEF N, Instances

(* The next file to apply and the newest one to roll back.                 *)
LEMMA ChangelogFacts ==
  ASSUME NEW k \in Nat, NEW m \in 0..k
  PROVE  /\ (1..k) \ (1..m) # {} =>
              /\ First((1..k) \ (1..m)) = m + 1 /\ m + 1 \in 1..k
              /\ (1..m) \cup {m + 1} = 1..(m + 1) /\ m + 1 \in 0..k
         /\ (1..k) \ (1..m) = {} => m = k
         /\ 1..m # {} =>
              /\ Newest(1..m) = m /\ m \in 1..k
              /\ (1..m) \ {m} = 1..(m - 1) /\ m - 1 \in 0..k
         /\ 1..m = {} => m = 0
<1>1. ASSUME (1..k) \ (1..m) # {}
      PROVE  /\ First((1..k) \ (1..m)) = m + 1 /\ m + 1 \in 1..k
             /\ (1..m) \cup {m + 1} = 1..(m + 1) /\ m + 1 \in 0..k
  <2>1. m + 1 \in 1..k
    BY <1>1
  <2>2. /\ m + 1 \in (1..k) \ (1..m)
        /\ \A x \in (1..k) \ (1..m) : m + 1 <= x
    BY <2>1
  <2>3. First((1..k) \ (1..m)) = m + 1
    <3>1. \A x \in (1..k) \ (1..m) :
            (\A y \in (1..k) \ (1..m) : x <= y) <=> x = m + 1
      BY <2>2
    <3> DEFINE S == (1..k) \ (1..m)
    <3> HIDE DEF S
    <3> QED  BY <2>2, <3>1 DEF First, S
  <2> QED  BY <2>1, <2>3
<1>2. ASSUME 1..m # {}
      PROVE  /\ Newest(1..m) = m /\ m \in 1..k
             /\ (1..m) \ {m} = 1..(m - 1) /\ m - 1 \in 0..k
  <2>1. m \in 1..k /\ m \in 1..m
    BY <1>2
  <2>2. \A x \in 1..m : (\A y \in 1..m : y <= x) <=> x = m
    BY <2>1
  <2>3. Newest(1..m) = m
    BY <2>1, <2>2 DEF Newest
  <2> QED  BY <2>1, <2>3
<1>3. (1..k) \ (1..m) = {} => m = k
  <2>1. SUFFICES ASSUME m < k PROVE k \in (1..k) \ (1..m)
    OBVIOUS
  <2> QED  BY <2>1
<1>4. 1..m = {} => m = 0
  <2>1. m # 0 => m \in 1..m
    OBVIOUS
  <2> QED  BY <2>1
<1> QED  BY <1>1, <1>2, <1>3, <1>4

LEMMA SectionType ==
  ASSUME NEW db \in Schemas, NEW s \in Seq(Statements)
  PROVE  /\ Reach(db, s) \in 0..Len(s) /\ Len(s) \in Nat
         /\ \A k \in 0..Reach(db, s) : After(db, s, k) \in Schemas
         /\ After(db, s, Reach(db, s)) \in Schemas
         /\ Reach(db, s) < Len(s) => s[Reach(db, s) + 1] \in Statements
<1>1. Reach(db, s) \in 0..Len(s) /\ Len(s) \in Nat
  BY ReachFacts
<1>2. \A k \in 0..Reach(db, s) : k \in 0..Len(s)
  BY <1>1
<1>3. Reach(db, s) < Len(s) => Reach(db, s) + 1 \in 1..Len(s)
  BY <1>1
<1> QED  BY <1>1, <1>2, <1>3, AfterType

(* What the files and the changelog of an instance offer to its next step. *)
LEMMA HereFacts ==
  ASSUME TypeOK, NEW i \in Instances
  PROVE  /\ Pending(i) # {} =>
              /\ First(Pending(i)) \in Pending(i)
              /\ First(Pending(i)) \in Files
              /\ log[i] \cup {First(Pending(i))} \in Changelogs
              /\ log[i] = 1..(First(Pending(i)) - 1)
         /\ Pending(i) = {} <=> log[i] = Files
         /\ log[i] # {} =>
              /\ Newest(log[i]) \in Files /\ Newest(log[i]) \in log[i]
              /\ log[i] \ {Newest(log[i])} \in Changelogs
              /\ log[i] = 1..Newest(log[i])
         /\ log[i] \subseteq Files
<1>1. PICK m \in 0..N : log[i] = 1..m
  BY DEF TypeOK, Changelogs
<1>2. N \in Nat
  BY ProjectFacts
<1>3. Pending(i) = (1..N) \ (1..m)
  BY <1>1 DEF Pending, Files
<1>4. /\ (1..N) \ (1..m) # {} =>
           /\ First((1..N) \ (1..m)) = m + 1 /\ m + 1 \in 1..N
           /\ (1..m) \cup {m + 1} = 1..(m + 1) /\ m + 1 \in 0..N
      /\ (1..N) \ (1..m) = {} => m = N
      /\ 1..m # {} =>
           /\ Newest(1..m) = m /\ m \in 1..N
           /\ (1..m) \ {m} = 1..(m - 1) /\ m - 1 \in 0..N
  BY <1>2, ChangelogFacts
<1>5. ASSUME Pending(i) # {}
      PROVE  /\ First(Pending(i)) \in Pending(i)
             /\ First(Pending(i)) \in Files
             /\ log[i] \cup {First(Pending(i))} \in Changelogs
             /\ log[i] = 1..(First(Pending(i)) - 1)
  <2>1. First(Pending(i)) = m + 1 /\ m + 1 \in 1..N /\ (m + 1) - 1 = m
    BY <1>3, <1>4, <1>5
  <2>2. log[i] \cup {m + 1} = 1..(m + 1) /\ m + 1 \in 0..N
    BY <1>1, <1>3, <1>4, <1>5
  <2>3. m + 1 \in (1..N) \ (1..m)
    BY <2>1
  <2> QED  BY <1>1, <1>3, <2>1, <2>2, <2>3 DEF Changelogs, Files
<1>6. ASSUME log[i] # {}
      PROVE  /\ Newest(log[i]) \in Files /\ Newest(log[i]) \in log[i]
             /\ log[i] \ {Newest(log[i])} \in Changelogs
             /\ log[i] = 1..Newest(log[i])
  <2>1. Newest(log[i]) = m /\ m \in 1..N /\ m \in 1..m
    BY <1>1, <1>4, <1>6
  <2>2. log[i] \ {m} = 1..(m - 1) /\ m - 1 \in 0..N
    BY <1>1, <1>4, <1>6
  <2> QED  BY <1>1, <2>1, <2>2 DEF Changelogs, Files
<1>7. log[i] \subseteq Files
  BY <1>1, <1>2 DEF Files
<1>8. Pending(i) = {} <=> log[i] = Files
  BY <1>1, <1>3, <1>4 DEF Files, Pending
<1> QED  BY <1>5, <1>6, <1>7, <1>8

LEMMA FileType ==
  ASSUME TypeOK, NEW n \in Files, NEW db \in Schemas
  PROVE  /\ File(n).up \in Seq(Statements) /\ File(n).down \in Seq(Statements)
         /\ \A k \in 0..Reach(db, File(n).up) :
              After(db, File(n).up, k) \in Schemas
         /\ After(db, File(n).up, Reach(db, File(n).up)) \in Schemas
         /\ \A k \in 0..Reach(db, File(n).down) :
              After(db, File(n).down, k) \in Schemas
         /\ After(db, File(n).down, Reach(db, File(n).down)) \in Schemas
BY ProjectFacts, SectionType

(* An error leads somewhere, and concerns this instance only.              *)
LEMMA StopsFacts ==
  ASSUME TypeOK, NEW i \in Instances, Stops(i)
  PROVE  /\ pc' \in [Instances -> Stages] /\ pc' = [pc EXCEPT ![i] = pc'[i]]
         /\ failed' \subseteq Instances /\ failed' \in {failed, failed \cup {i}}
         /\ mail' \in [Instances -> Mails]
         /\ mail' = [mail EXCEPT ![i] = mail'[i]]
         /\ pc[i] \in {"up1", "up2", "down1"} =>
              pc'[i] = "cleanup" /\ failed' = failed
         /\ pc[i] = "cleanup" =>
              pc'[i] = AfterTest /\ failed' = failed \cup {i}
         /\ pc[i] = "clear" => pc'[i] = "snapshot" /\ failed' = failed
         /\ pc[i] \notin {"up1", "up2", "down1", "cleanup", "clear"} =>
              pc'[i] = "done" /\ failed' = failed \cup {i}
         /\ project.command # "sync" => mail' = mail
<1>0. pc \in [Instances -> Stages] /\ failed \subseteq Instances
      /\ mail \in [Instances -> Mails] /\ mem \in [Instances -> Memories]
  BY DEF TypeOK
<1>1. MailsFailure(i)
      /\ CASE pc[i] \in {"up1", "up2", "down1"} ->
                Goto(i, "cleanup") /\ UNCHANGED failed
           [] pc[i] = "cleanup" -> Goto(i, AfterTest) /\ Fails(i)
           [] pc[i] = "clear" -> Goto(i, "snapshot") /\ UNCHANGED failed
           [] OTHER -> Goto(i, "done") /\ Fails(i)
  BY DEF Stops
<1>2. /\ mail' \in [Instances -> Mails]
      /\ mail' = [mail EXCEPT ![i] = mail'[i]]
      /\ project.command # "sync" => mail' = mail
  <2>1. CASE mail' = mail
    BY <2>1, <1>0
  <2>2. CASE mail' # mail
    <3>1. PICK applied \in MailedAsApplied(i) :
            mail' = [mail EXCEPT ![i] = [status |-> "failed",
                                         applied |-> applied]]
      BY <1>1, <2>2 DEF MailsFailure
    <3>2. applied \subseteq Files
      BY <1>0, <3>1 DEF MailedAsApplied, Memories
    <3>3. project.command = "sync"
      BY <1>1, <2>2 DEF MailsFailure
    <3> QED  BY <1>0, <3>1, <3>2, <3>3 DEF Mails
  <2> QED  BY <2>1, <2>2
<1>3. AfterTest \in Stages /\ {"cleanup", "snapshot", "done"} \subseteq Stages
  BY DEF AfterTest, Stages, DownStages
<1>4. CASE pc[i] \in {"up1", "up2", "down1"}
  BY <1>0, <1>1, <1>2, <1>3, <1>4 DEF Goto
<1>5. CASE pc[i] = "cleanup"
  BY <1>0, <1>1, <1>2, <1>3, <1>5 DEF Goto, Fails
<1>6. CASE pc[i] = "clear"
  BY <1>0, <1>1, <1>2, <1>3, <1>6 DEF Goto
<1>7. CASE pc[i] \notin {"up1", "up2", "down1", "cleanup", "clear"}
  BY <1>0, <1>1, <1>2, <1>3, <1>7 DEF Goto, Fails
<1> QED  BY <1>4, <1>5, <1>6, <1>7, Zenon

(* A step for one instance keeps the types, variable by variable, and      *)
(* leaves the others alone.                                                *)
PcLocal(i) == pc' = [pc EXCEPT ![i] = pc'[i]] /\ pc'[i] \in Stages
SchemaLocal(i) ==
  schema' = [schema EXCEPT ![i] = schema'[i]] /\ schema'[i] \in Schemas
LogLocal(i) == log' = [log EXCEPT ![i] = log'[i]] /\ log'[i] \in Changelogs
MemLocal(i) == mem' = [mem EXCEPT ![i] = mem'[i]] /\ mem'[i] \in Memories
MailLocal(i) == mail' = [mail EXCEPT ![i] = mail'[i]] /\ mail'[i] \in Mails
FailedLocal(i) == failed' \in {failed, failed \cup {i}}
HistoryLocal(i) ==
  /\ ran' = [ran EXCEPT ![i] = ran'[i]] /\ ran'[i] \subseteq Files
  /\ lost' = [lost EXCEPT ![i] = lost'[i]]
  /\ lost'[i] \subseteq Files \X Tables
  /\ stuck' = [stuck EXCEPT ![i] = stuck'[i]]
  /\ stuck'[i] \subseteq Files \X Statements
  /\ reached' = [reached EXCEPT ![i] = reached'[i]]
  /\ reached'[i] \subseteq Tables
  /\ kept' = [kept EXCEPT ![i] = kept'[i]] /\ kept'[i] \subseteq Files
  /\ hints' = [hints EXCEPT ![i] = hints'[i]]

Local(i) ==
  /\ project' = project /\ flags' = flags /\ attempt' = attempt
  /\ PcLocal(i) /\ SchemaLocal(i) /\ LogLocal(i) /\ MemLocal(i)
  /\ MailLocal(i) /\ FailedLocal(i) /\ HistoryLocal(i)

LEMMA UpdatedFunction ==
  ASSUME NEW S, NEW T, NEW i \in S, NEW f \in [S -> T], NEW g,
         g = [f EXCEPT ![i] = g[i]], g[i] \in T
  PROVE  g \in [S -> T] /\ \A j \in S \ {i} : g[j] = f[j]
OBVIOUS

LEMMA LocalType ==
  ASSUME TypeOK, NEW i \in Instances, Local(i)
  PROVE  TypeOK' /\ OthersKept(i)
<1>0. project' = project /\ attempt' = attempt
  BY DEF Local
<1>1. /\ N' = N /\ Files' = Files /\ Instances' = Instances
      /\ Changelogs' = Changelogs /\ Memories' = Memories /\ Mails' = Mails
  BY <1>0 DEF N, Files, Instances, Changelogs, Memories, Mails
<1>2. /\ pc' \in [Instances -> Stages]
      /\ \A j \in Instances \ {i} : pc'[j] = pc[j]
  BY UpdatedFunction DEF TypeOK, Local, PcLocal
<1>3. /\ schema' \in [Instances -> Schemas]
      /\ \A j \in Instances \ {i} : schema'[j] = schema[j]
  BY UpdatedFunction DEF TypeOK, Local, SchemaLocal
<1>4. /\ log' \in [Instances -> Changelogs]
      /\ \A j \in Instances \ {i} : log'[j] = log[j]
  BY UpdatedFunction DEF TypeOK, Local, LogLocal
<1>5. /\ mem' \in [Instances -> Memories]
      /\ \A j \in Instances \ {i} : mem'[j] = mem[j]
  BY UpdatedFunction DEF TypeOK, Local, MemLocal
<1>6. /\ mail' \in [Instances -> Mails]
      /\ \A j \in Instances \ {i} : mail'[j] = mail[j]
  BY UpdatedFunction DEF TypeOK, Local, MailLocal
<1>7. /\ failed' \subseteq Instances
      /\ \A j \in Instances \ {i} : j \in failed' <=> j \in failed
  BY DEF TypeOK, Local, FailedLocal
<1>8. /\ ran' \in [Instances -> SUBSET Files]
      /\ \A j \in Instances \ {i} : ran'[j] = ran[j]
  <2>1. /\ ran \in [Instances -> SUBSET Files]
        /\ ran' = [ran EXCEPT ![i] = ran'[i]]
        /\ ran'[i] \in SUBSET Files
    BY DEF TypeOK, Local, HistoryLocal
  <2> QED  BY <2>1, UpdatedFunction
<1>9. /\ lost' \in [Instances -> SUBSET (Files \X Tables)]
      /\ \A j \in Instances \ {i} : lost'[j] = lost[j]
  <2>1. /\ lost \in [Instances -> SUBSET (Files \X Tables)]
        /\ lost' = [lost EXCEPT ![i] = lost'[i]]
        /\ lost'[i] \in SUBSET (Files \X Tables)
    BY DEF TypeOK, Local, HistoryLocal
  <2> QED  BY <2>1, UpdatedFunction
<1>10. /\ stuck' \in [Instances -> SUBSET (Files \X Statements)]
       /\ \A j \in Instances \ {i} : stuck'[j] = stuck[j]
  <2>1. /\ stuck \in [Instances -> SUBSET (Files \X Statements)]
        /\ stuck' = [stuck EXCEPT ![i] = stuck'[i]]
        /\ stuck'[i] \in SUBSET (Files \X Statements)
    BY DEF TypeOK, Local, HistoryLocal
  <2> QED  BY <2>1, UpdatedFunction
<1>11. /\ reached' \in [Instances -> SUBSET Tables]
       /\ \A j \in Instances \ {i} : reached'[j] = reached[j]
  <2>1. /\ reached \in [Instances -> SUBSET Tables]
        /\ reached' = [reached EXCEPT ![i] = reached'[i]]
        /\ reached'[i] \in SUBSET Tables
    BY DEF TypeOK, Local, HistoryLocal
  <2> QED  BY <2>1, UpdatedFunction
<1>12. /\ kept' \in [Instances -> SUBSET Files]
       /\ \A j \in Instances \ {i} : kept'[j] = kept[j]
  <2>1. /\ kept \in [Instances -> SUBSET Files]
        /\ kept' = [kept EXCEPT ![i] = kept'[i]]
        /\ kept'[i] \in SUBSET Files
    BY DEF TypeOK, Local, HistoryLocal
  <2> QED  BY <2>1, UpdatedFunction
<1>13. /\ hints' = [j \in Instances |-> hints'[j]]
       /\ \A j \in Instances \ {i} : hints'[j] = hints[j]
  BY DEF TypeOK, Local, HistoryLocal
<1>14. OthersKept(i)
  BY <1>2, <1>3, <1>4, <1>5, <1>6, <1>7, <1>8, <1>9, <1>10, <1>11, <1>12,
     <1>13 DEF OthersKept
<1>15. \E family \in Families : project' \in family
  BY <1>0 DEF TypeOK
<1>16. attempt' \in {1, 2}
  BY <1>0 DEF TypeOK
<1> QED
  BY <1>1, <1>2, <1>3, <1>4, <1>5, <1>6, <1>7, <1>8, <1>9, <1>10, <1>11,
     <1>12, <1>13, <1>14, <1>15, <1>16 DEF TypeOK

(* What is unchanged is as good as changed for one instance.               *)
LEMMA StillLocal ==
  ASSUME TypeOK, NEW i \in Instances
  PROVE  /\ pc' = pc => PcLocal(i)
         /\ schema' = schema => SchemaLocal(i)
         /\ log' = log => LogLocal(i)
         /\ mem' = mem => MemLocal(i)
         /\ mail' = mail => MailLocal(i)
         /\ failed' = failed => FailedLocal(i)
         /\ UNCHANGED history => HistoryLocal(i)
         /\ \A stage \in Stages : Goto(i, stage) => PcLocal(i)
         /\ Fails(i) => FailedLocal(i)
         /\ Stops(i) => PcLocal(i) /\ FailedLocal(i) /\ MailLocal(i)
<1>1. /\ pc' = pc => PcLocal(i)
      /\ schema' = schema => SchemaLocal(i)
      /\ log' = log => LogLocal(i)
      /\ mem' = mem => MemLocal(i)
      /\ mail' = mail => MailLocal(i)
      /\ failed' = failed => FailedLocal(i)
  BY DEF TypeOK, PcLocal, SchemaLocal, LogLocal, MemLocal, MailLocal,
         FailedLocal
<1>2. UNCHANGED history => HistoryLocal(i)
  BY DEF TypeOK, history, HistoryLocal
<1>3. /\ \A stage \in Stages : Goto(i, stage) => PcLocal(i)
      /\ Fails(i) => FailedLocal(i)
  BY DEF TypeOK, Goto, Fails, PcLocal, FailedLocal
<1>4. Stops(i) => PcLocal(i) /\ FailedLocal(i) /\ MailLocal(i)
  BY StopsFacts DEF PcLocal, FailedLocal, MailLocal
<1> QED  BY <1>1, <1>2, <1>3, <1>4, Zenon

LEMMA StageNames ==
  ASSUME TypeOK
  PROVE  /\ AfterTest \in Stages /\ Begins \in Stages
         /\ {"cleanup", "snapshot", "sanity", "done", "before", "up", "after",
             "up1", "up2", "down1"} \subseteq Stages
<1>1. AfterTest \in Stages
  BY DEF AfterTest, Stages, DownStages
<1>2. Begins \in Stages
  BY ProjectFacts DEF Begins, Stages, UpStages, Commands
<1> QED  BY <1>1, <1>2 DEF Stages, UpStages, DownStages

LEMMA FailureMailLocal ==
  ASSUME TypeOK, NEW i \in Instances, MailsFailure(i)
  PROVE  MailLocal(i)
<1>1. CASE mail' = mail
  BY <1>1, StillLocal
<1>2. CASE mail' # mail
  <2>1. PICK applied \in MailedAsApplied(i) :
          mail' = [mail EXCEPT ![i] = [status |-> "failed",
                                       applied |-> applied]]
    BY <1>2 DEF MailsFailure
  <2>2. applied \subseteq Files
    BY <2>1 DEF MailedAsApplied, TypeOK, Memories
  <2> QED  BY <2>1, <2>2 DEF MailLocal, Mails, TypeOK
<1> QED  BY <1>1, <1>2

(* The steps that leave schema, changelog and history alone, but for the   *)
(* hint that Gate records.                                                 *)
LEMMA StageLocal ==
  ASSUME TypeOK, NEW i \in Instances,
         \/ Connect(i) \/ QueryFails(i) \/ Judge(i) \/ Validate(i)
         \/ Gate(i) \/ NothingIsAnError(i) \/ LookBefore(i) \/ Report(i)
         \/ UpRejects(i) \/ DownEnd(i) \/ SanityEnd(i)
  PROVE  Local(i) /\ schema' = schema /\ log' = log
<1>1. /\ pc' = pc => PcLocal(i)
      /\ schema' = schema => SchemaLocal(i)
      /\ log' = log => LogLocal(i)
      /\ mem' = mem => MemLocal(i)
      /\ mail' = mail => MailLocal(i)
      /\ failed' = failed => FailedLocal(i)
      /\ UNCHANGED history => HistoryLocal(i)
      /\ \A stage \in Stages : Goto(i, stage) => PcLocal(i)
      /\ Fails(i) => FailedLocal(i)
      /\ Stops(i) => PcLocal(i) /\ FailedLocal(i) /\ MailLocal(i)
  BY StillLocal, Zenon
<1>2. MailsFailure(i) => MailLocal(i)
  BY FailureMailLocal
<1>3. /\ AfterTest \in Stages /\ Begins \in Stages
      /\ {"cleanup", "snapshot", "sanity", "done", "before", "up", "after",
          "up1", "up2", "down1"} \subseteq Stages
  BY StageNames, Zenon
<1>4. CASE Connect(i)
  BY <1>1, <1>2, <1>3, <1>4 DEF Connect, Local
<1>5. CASE QueryFails(i)
  BY <1>1, <1>3, <1>5 DEF QueryFails, Local
<1>6. CASE Judge(i)
  BY <1>1, <1>3, <1>6 DEF Judge, Local
<1>7. CASE Validate(i)
  BY <1>1, <1>3, <1>7 DEF Validate, Local
<1>8. CASE Gate(i)
  <2>1. PcLocal(i)
    BY <1>1, <1>3, <1>8 DEF Gate
  <2>2. FailedLocal(i) /\ MailLocal(i)
    BY <1>1, <1>2, <1>8 DEF Gate
  <2>3. HistoryLocal(i)
    BY <1>8 DEF Gate, HistoryLocal, TypeOK
  <2> QED  BY <1>1, <2>1, <2>2, <2>3, <1>8 DEF Gate, Local
<1>9. CASE NothingIsAnError(i)
  <2>1. MailLocal(i)
    BY <1>9, SMTT(30) DEF NothingIsAnError, MailLocal, TypeOK, Mails
  <2> QED  BY <1>1, <1>3, <2>1, <1>9 DEF NothingIsAnError, Local
<1>10. CASE LookBefore(i)
  <2>1. MemLocal(i)
    BY <1>10, SMTT(30) DEF LookBefore, MemLocal, TypeOK, Memories
  <2> QED  BY <1>1, <1>3, <2>1, <1>10 DEF LookBefore, Local
<1>11. CASE Report(i)
  <2>1. MailLocal(i)
    <3>1. mem[i].applied \subseteq Files
      BY DEF TypeOK, Memories
    <3>2. mail' = mail \/ mail' = [mail EXCEPT ![i] =
                           [status |-> "applied", applied |-> mem[i].applied]]
      BY <1>11 DEF Report
    <3> QED  BY <3>1, <3>2 DEF MailLocal, TypeOK, Mails
  <2> QED  BY <1>1, <1>3, <2>1, <1>11 DEF Report, Local
<1>12. CASE UpRejects(i)
  BY <1>1, <1>12 DEF UpRejects, Local
<1>13. CASE DownEnd(i)
  BY <1>1, <1>3, <1>13 DEF DownEnd, DownStages, Local
<1>14. CASE SanityEnd(i)
  BY <1>1, <1>3, <1>14 DEF SanityEnd, Local
<1> QED
  BY <1>4, <1>5, <1>6, <1>7, <1>8, <1>9, <1>10, <1>11, <1>12, <1>13, <1>14

LEMMA RememberLocal ==
  ASSUME TypeOK, NEW i \in Instances, NEW n \in Files,
         NEW k \in 0..Reach(schema[i], File(n).up), Remember(i, n, k)
  PROVE  /\ ran' = [ran EXCEPT ![i] = ran'[i]] /\ ran'[i] \subseteq Files
         /\ lost' = [lost EXCEPT ![i] = lost'[i]]
         /\ lost'[i] \subseteq Files \X Tables
<1> DEFINE up == File(n).up
           gone == schema[i].tables \ schema'[i].tables
           emptied == {up[j].table : j \in {x \in 1..k : up[x].op = "empty"}}
           more == {<<n, t>> : t \in gone \cup emptied}
<1>0. /\ ran \in [Instances -> SUBSET Files]
      /\ lost \in [Instances -> SUBSET (Files \X Tables)]
  BY DEF TypeOK
<1>1. up \in Seq(Statements) /\ Reach(schema[i], up) \in 0..Len(up)
  BY FileType, SectionType DEF TypeOK
<1>2. \A j \in 1..k : up[j].table \in Tables
  <2>1. \A j \in 1..Len(up) : up[j] \in Statements
    BY <1>1
  <2>2. 1..k \subseteq 1..Len(up)
    <3> DEFINE l == Len(up)
               r == Reach(schema[i], up)
    <3>1. l \in Nat /\ r \in 0..l /\ k \in 0..r
      BY <1>1
    <3> HIDE DEF l, r
    <3>2. 1..k \subseteq 1..l
      BY <3>1
    <3> QED  BY <3>2 DEF l
  <2> QED  BY <2>1, <2>2 DEF Statements
<1>3. gone \cup emptied \subseteq Tables
  BY <1>2 DEF TypeOK, Schemas
<1>4. more \subseteq Files \X Tables
  BY <1>3
<1>5. CASE pc[i] # "up"
  <2>1. ran' = ran /\ lost' = lost
    BY <1>5 DEF Remember
  <2> QED  BY <1>0, <2>1
<1>6. CASE pc[i] = "up"
  <2>1. /\ ran' = [ran EXCEPT ![i] = @ \cup {n}]
        /\ lost' = [lost EXCEPT ![i] = @ \cup more]
    BY <1>6, Zenon DEF Remember
  <2> HIDE DEF more
  <2> QED  BY <1>0, <1>4, <2>1
<1> QED  BY <1>5, <1>6

LEMMA UpFileLocal ==
  ASSUME TypeOK, NEW i \in Instances, UpFile(i)
  PROVE  Local(i)
<1> DEFINE n == First(Pending(i))
           up == File(n).up
           reach == Reach(schema[i], up)
<1>1. /\ pc' = pc => PcLocal(i)
      /\ log' = log => LogLocal(i)
      /\ mem' = mem => MemLocal(i)
      /\ mail' = mail => MailLocal(i)
      /\ failed' = failed => FailedLocal(i)
      /\ Stops(i) => PcLocal(i) /\ FailedLocal(i) /\ MailLocal(i)
  BY StillLocal, Zenon
<1>2. n \in Files /\ log[i] \cup {n} \in Changelogs
  BY HereFacts DEF UpFile
<1>3. /\ reach \in 0..Len(up) /\ up \in Seq(Statements) /\ Len(up) \in Nat
      /\ \A k \in 0..reach : After(schema[i], up, k) \in Schemas
      /\ reach < Len(up) => up[reach + 1] \in Statements
  BY <1>2, FileType, SectionType DEF TypeOK
<1>4. reach \in 0..reach
  BY <1>3
<1>5. /\ reached' = reached /\ kept' = kept /\ hints' = hints
      /\ project' = project /\ flags' = flags /\ attempt' = attempt
  BY DEF UpFile
<1>6. \E k \in 0..reach :
        schema' = [schema EXCEPT ![i] = After(@, up, k)] /\ Remember(i, n, k)
  BY <1>4, Zenon DEF UpFile
<1>7. /\ ran' = [ran EXCEPT ![i] = ran'[i]] /\ ran'[i] \subseteq Files
      /\ lost' = [lost EXCEPT ![i] = lost'[i]]
      /\ lost'[i] \subseteq Files \X Tables
  BY <1>2, <1>6, RememberLocal
<1>8. SchemaLocal(i)
  BY <1>3, <1>6 DEF SchemaLocal, TypeOK
<1>9. \/ stuck' = stuck
      \/ /\ reach < Len(up)
         /\ stuck' = [stuck EXCEPT ![i] = {<<n, up[reach + 1]>>}]
  BY DEF UpFile
<1>10. /\ stuck' = [stuck EXCEPT ![i] = stuck'[i]]
       /\ stuck'[i] \subseteq Files \X Statements
  BY <1>2, <1>3, <1>9 DEF TypeOK
<1>11. HistoryLocal(i)
  BY <1>5, <1>7, <1>10 DEF HistoryLocal, TypeOK
<1>12. log' = log \/ log' = [log EXCEPT ![i] = @ \cup {n}]
  BY Zenon DEF UpFile
<1>13. LogLocal(i)
  BY <1>2, <1>12 DEF LogLocal, TypeOK
<1>14. mem' = mem \/ mem' = [mem EXCEPT ![i].applied = @ \cup {n}]
  BY Zenon DEF UpFile
<1>15. MemLocal(i)
  BY <1>2, <1>14, SMTT(30) DEF MemLocal, TypeOK, Memories
<1>16. Stops(i) \/ (pc' = pc /\ failed' = failed /\ mail' = mail)
  BY Zenon DEF UpFile
<1> QED
  BY <1>1, <1>5, <1>8, <1>11, <1>13, <1>15, <1>16, Zenon DEF Local

LEMMA UpEndLocal ==
  ASSUME TypeOK, NEW i \in Instances, UpEnd(i)
  PROVE  Local(i)
<1>1. PcLocal(i)
  <2>1. \E stage \in Stages : Goto(i, stage)
    BY StageNames DEF UpEnd, UpStages
  <2> QED  BY <2>1, StillLocal
<1>2. MemLocal(i)
  BY SMTT(30) DEF UpEnd, MemLocal, TypeOK, Memories
<1>3. schema[i].tables \subseteq Tables
  BY DEF TypeOK, Schemas
<1>4. HistoryLocal(i)
  BY <1>3 DEF UpEnd, HistoryLocal, TypeOK
<1>5. SchemaLocal(i) /\ LogLocal(i) /\ MailLocal(i) /\ FailedLocal(i)
  BY StillLocal DEF UpEnd
<1> QED  BY <1>1, <1>2, <1>4, <1>5 DEF Local, UpEnd

LEMMA DownFileLocal ==
  ASSUME TypeOK, NEW i \in Instances, DownFile(i)
  PROVE  Local(i)
<1> DEFINE n == Newest(log[i])
           down == File(n).down
           reach == Reach(schema[i], down)
<1>1. /\ pc' = pc => PcLocal(i)
      /\ mail' = mail => MailLocal(i)
      /\ failed' = failed => FailedLocal(i)
      /\ Stops(i) => PcLocal(i) /\ FailedLocal(i) /\ MailLocal(i)
      /\ UNCHANGED history => HistoryLocal(i)
  BY StillLocal, Zenon
<1>2. n \in Files /\ log[i] \ {n} \in Changelogs
  BY HereFacts DEF DownFile
<1>3. /\ \A k \in 0..reach : After(schema[i], down, k) \in Schemas
      /\ reach \in 0..reach
  BY <1>2, FileType, SectionType DEF TypeOK
<1>4. \E k \in 0..reach : schema' = [schema EXCEPT ![i] = After(@, down, k)]
  BY <1>3, Zenon DEF DownFile
<1>5. SchemaLocal(i)
  BY <1>3, <1>4 DEF SchemaLocal, TypeOK
<1>6. log' = log \/ log' = [log EXCEPT ![i] = @ \ {n}]
  BY Zenon DEF DownFile
<1>7. LogLocal(i)
  BY <1>2, <1>6 DEF LogLocal, TypeOK
<1>8. mem' = mem \/ mem' = [mem EXCEPT ![i].count = @ + 1]
  BY Zenon DEF DownFile
<1>9. MemLocal(i)
  <2>1. mem \in [Instances -> Memories]
    BY DEF TypeOK
  <2>2. mem[i].count \in Nat /\ mem[i].count + 1 \in Nat
    BY <2>1 DEF Memories
  <2> QED  BY <1>8, <2>1, <2>2 DEF MemLocal, Memories
<1>10. Stops(i) \/ (pc' = pc /\ failed' = failed /\ mail' = mail)
  BY Zenon DEF DownFile
<1>11. /\ UNCHANGED history
       /\ project' = project /\ flags' = flags /\ attempt' = attempt
  BY DEF DownFile
<1> QED  BY <1>1, <1>5, <1>7, <1>9, <1>10, <1>11, Zenon DEF Local

LEMMA SnapshotLocal ==
  ASSUME TypeOK, NEW i \in Instances, Snapshot(i)
  PROVE  Local(i)
<1>1. PcLocal(i)
  <2>1. \E stage \in Stages : Goto(i, stage)
    BY StageNames DEF Snapshot
  <2> QED  BY <2>1, StillLocal
<1>2. MemLocal(i)
  <2>1. /\ mem \in [Instances -> Memories] /\ schema[i] \in Schemas
        /\ mem[i] \in Memories
    BY DEF TypeOK
  <2>2. mem' = [mem EXCEPT ![i] =
                  [mem[i] EXCEPT !.count = 0, !.before = schema[i]]]
    BY <2>1 DEF Snapshot
  <2>3. [mem[i] EXCEPT !.count = 0, !.before = schema[i]] \in Memories
    BY <2>1 DEF Memories
  <2>4. mem'[i] = [mem[i] EXCEPT !.count = 0, !.before = schema[i]]
    BY <2>1, <2>2
  <2> QED  BY <2>2, <2>3, <2>4 DEF MemLocal
<1>3. HistoryLocal(i)
  <2>1. log[i] \subseteq Files
    BY HereFacts
  <2> QED  BY <2>1 DEF Snapshot, HistoryLocal, TypeOK
<1>4. SchemaLocal(i) /\ LogLocal(i) /\ MailLocal(i) /\ FailedLocal(i)
  BY StillLocal DEF Snapshot
<1> QED  BY <1>1, <1>2, <1>3, <1>4 DEF Local, Snapshot

(* The branches of SanityFile: the Up fails or is never begun, something   *)
(* else fails, the file is applied, or its post-check rolls it back.       *)
SanityFails(i) ==
  LET f == File(First(Pending(i)))
      runs == f.marker /\ f.check # "pre"
  IN  /\ ~runs \/ Reach(schema[i], f.up) < Len(f.up)
      /\ schema' = IF runs
                   THEN [schema EXCEPT ![i] =
                           After(schema[i], f.up, Reach(schema[i], f.up))]
                   ELSE schema
      /\ Stops(i)
      /\ UNCHANGED <<log, mem, faults>>

SanityFaults(i) ==
  LET n == First(Pending(i))
      f == File(n)
      reach == Reach(schema[i], f.up)
      up == After(schema[i], f.up, reach)
  IN  /\ f.marker /\ f.check # "pre" /\ Fault
      /\ \/ /\ \E k \in 0..reach :
                 schema' = [schema EXCEPT ![i] = After(@, f.up, k)]
            /\ UNCHANGED log
         \/ /\ reach = Len(f.up) /\ f.check = "post"
            /\ \E k \in 0..Reach(up, f.down) :
                 schema' = [schema EXCEPT ![i] = After(up, f.down, k)]
            /\ log' = [log EXCEPT ![i] = @ \cup {n}]
      /\ Stops(i)
      /\ UNCHANGED mem

SanityApplies(i) ==
  LET n == First(Pending(i))
      f == File(n)
  IN  /\ f.marker /\ f.check \notin {"pre", "post"}
      /\ Completes(schema[i], f.up)
      /\ schema' = [schema EXCEPT ![i] =
                      After(schema[i], f.up, Reach(schema[i], f.up))]
      /\ log' = [log EXCEPT ![i] = @ \cup {n}]
      /\ mem' = [mem EXCEPT ![i].count = @ + 1]
      /\ IF f.check = "pass" /\ f.rollback THEN Fails(i) ELSE UNCHANGED failed
      /\ UNCHANGED <<pc, mail, faults>>

SanityRollsBack(i) ==
  LET n == First(Pending(i))
      f == File(n)
      up == After(schema[i], f.up, Reach(schema[i], f.up))
      down == After(up, f.down, Reach(up, f.down))
  IN  /\ f.marker /\ f.check = "post"
      /\ Completes(schema[i], f.up)
      /\ schema' = [schema EXCEPT ![i] = down]
      /\ log' = IF f.down # <<>> /\ Completes(up, f.down) THEN log
                ELSE [log EXCEPT ![i] = @ \cup {n}]
      /\ IF /\ f.rollback /\ log' = log
            /\ mem[i].count > 0 \/ SameSchema(mem[i].before, down)
         THEN UNCHANGED failed ELSE Fails(i)
      /\ Goto(i, "done")
      /\ UNCHANGED <<mem, mail, faults>>

LEMMA SanityFileBranches ==
  ASSUME NEW i, SanityFile(i)
  PROVE  /\ pc[i] = "sanity" /\ Pending(i) # {}
         /\ project' = project /\ flags' = flags /\ attempt' = attempt
         /\ UNCHANGED history
         /\ \/ SanityFails(i) \/ SanityFaults(i)
            \/ SanityApplies(i) \/ SanityRollsBack(i)
<1> DEFINE n == First(Pending(i))
           f == File(n)
           reach == Reach(schema[i], f.up)
           up == After(schema[i], f.up, reach)
           undo == Reach(up, f.down)
           down == After(up, f.down, undo)
           runs == f.marker /\ f.check # "pre"
           recorded == [log EXCEPT ![i] = @ \cup {n}]
           A == /\ ~runs \/ reach < Len(f.up)
                /\ schema' = IF runs THEN [schema EXCEPT ![i] = up]
                             ELSE schema
                /\ Stops(i)
                /\ UNCHANGED <<log, mem, faults>>
           B == /\ runs /\ Fault
                /\ \/ /\ \E k \in 0..reach :
                           schema' = [schema EXCEPT ![i] = After(@, f.up, k)]
                      /\ UNCHANGED log
                   \/ /\ reach = Len(f.up) /\ f.check = "post"
                      /\ \E k \in 0..undo :
                           schema' = [schema EXCEPT ![i] = After(up, f.down, k)]
                      /\ log' = recorded
                /\ Stops(i)
                /\ UNCHANGED mem
           C == /\ runs /\ reach = Len(f.up) /\ f.check # "post"
                /\ schema' = [schema EXCEPT ![i] = up]
                /\ log' = recorded
                /\ mem' = [mem EXCEPT ![i].count = @ + 1]
                /\ IF f.check = "pass" /\ f.rollback THEN Fails(i)
                   ELSE UNCHANGED failed
                /\ UNCHANGED <<pc, mail, faults>>
           D == /\ runs /\ reach = Len(f.up) /\ f.check = "post"
                /\ schema' = [schema EXCEPT ![i] = down]
                /\ log' = IF f.down # <<>> /\ undo = Len(f.down) THEN log
                          ELSE recorded
                /\ IF /\ f.rollback /\ log' = log
                      /\ mem[i].count > 0 \/ SameSchema(mem[i].before, down)
                   THEN UNCHANGED failed ELSE Fails(i)
                /\ Goto(i, "done")
                /\ UNCHANGED <<mem, mail, faults>>
<1>1. A \/ B \/ C \/ D
  BY Zenon DEF SanityFile
<1>2. A => SanityFails(i)
  BY Zenon DEF SanityFails
<1>3. B => SanityFaults(i)
  BY Zenon DEF SanityFaults
<1>4. C => SanityApplies(i)
  BY Zenon DEF SanityApplies, Completes
<1>5. D => SanityRollsBack(i)
  BY Zenon DEF SanityRollsBack, Completes
<1>6. A \/ B \/ C \/ D => \/ SanityFails(i) \/ SanityFaults(i)
                          \/ SanityApplies(i) \/ SanityRollsBack(i)
  <2> HIDE DEF A, B, C, D
  <2> QED  BY <1>2, <1>3, <1>4, <1>5, Zenon
<1>7. /\ pc[i] = "sanity" /\ Pending(i) # {}
      /\ project' = project /\ flags' = flags /\ attempt' = attempt
      /\ UNCHANGED history
  BY DEF SanityFile
<1> QED  BY <1>1, <1>6, <1>7, Zenon

LEMMA SanityFileLocal ==
  ASSUME TypeOK, NEW i \in Instances, SanityFile(i)
  PROVE  Local(i)
<1> DEFINE n == First(Pending(i))
           f == File(n)
           up == After(schema[i], f.up, Reach(schema[i], f.up))
           down == After(up, f.down, Reach(up, f.down))
<1>1. /\ pc' = pc => PcLocal(i)
      /\ schema' = schema => SchemaLocal(i)
      /\ log' = log => LogLocal(i)
      /\ mem' = mem => MemLocal(i)
      /\ mail' = mail => MailLocal(i)
      /\ failed' = failed => FailedLocal(i)
      /\ UNCHANGED history => HistoryLocal(i)
      /\ \A stage \in Stages : Goto(i, stage) => PcLocal(i)
      /\ Fails(i) => FailedLocal(i)
      /\ Stops(i) => PcLocal(i) /\ FailedLocal(i) /\ MailLocal(i)
  BY StillLocal, Zenon
<1>2. /\ pc[i] = "sanity" /\ Pending(i) # {}
      /\ project' = project /\ flags' = flags /\ attempt' = attempt
      /\ HistoryLocal(i)
      /\ \/ SanityFails(i) \/ SanityFaults(i)
         \/ SanityApplies(i) \/ SanityRollsBack(i)
  BY <1>1, SanityFileBranches, Zenon
<1>3. n \in Files /\ log[i] \cup {n} \in Changelogs
  BY <1>2, HereFacts
<1>4. schema[i] \in Schemas
  BY DEF TypeOK
<1>5. /\ \A k \in 0..Reach(schema[i], f.up) :
           After(schema[i], f.up, k) \in Schemas
      /\ up \in Schemas
  BY <1>3, <1>4, FileType, Zenon
<1>6. /\ \A k \in 0..Reach(up, f.down) : After(up, f.down, k) \in Schemas
      /\ down \in Schemas
  <2> HIDE DEF up
  <2> QED  BY <1>3, <1>5, FileType, Zenon
<1>7. log' = [log EXCEPT ![i] = @ \cup {n}] => LogLocal(i)
  BY <1>3 DEF LogLocal, TypeOK
<1>8. \A db \in Schemas : schema' = [schema EXCEPT ![i] = db] => SchemaLocal(i)
  BY DEF SchemaLocal, TypeOK
<1>9. "done" \in Stages
  BY StageNames
<1>10. CASE SanityFails(i)
  <2>1. SchemaLocal(i)
    <3>1. schema' = schema \/ schema' = [schema EXCEPT ![i] = up]
      BY <1>10, Zenon DEF SanityFails
    <3> HIDE DEF up
    <3> QED  BY <1>1, <1>5, <1>8, <3>1, Zenon
  <2>2. Stops(i) /\ log' = log /\ mem' = mem
    BY <1>10 DEF SanityFails
  <2> QED  BY <1>1, <1>2, <2>1, <2>2, Zenon DEF Local
<1>11. CASE SanityFaults(i)
  <2>1. SchemaLocal(i)
    <3>1. \E db \in Schemas : schema' = [schema EXCEPT ![i] = db]
      BY <1>11, <1>5, <1>6, Zenon DEF SanityFaults
    <3> QED  BY <1>8, <3>1, Zenon
  <2>2. Stops(i) /\ mem' = mem
        /\ (log' = log \/ log' = [log EXCEPT ![i] = @ \cup {n}])
    BY <1>11, Zenon DEF SanityFaults
  <2> QED  BY <1>1, <1>2, <1>7, <2>1, <2>2, Zenon DEF Local
<1>12. CASE SanityApplies(i)
  <2>1. SchemaLocal(i)
    BY <1>5, <1>8, <1>12, Zenon DEF SanityApplies
  <2>2. MemLocal(i)
    <3>1. mem \in [Instances -> Memories]
      BY DEF TypeOK
    <3>2. mem[i].count \in Nat /\ mem[i].count + 1 \in Nat
      BY <3>1 DEF Memories
    <3>3. mem' = [mem EXCEPT ![i].count = @ + 1]
      BY <1>12, Zenon DEF SanityApplies
    <3> QED  BY <3>1, <3>2, <3>3 DEF MemLocal, Memories
  <2>3. LogLocal(i) /\ pc' = pc /\ mail' = mail
    BY <1>7, <1>12, Zenon DEF SanityApplies
  <2>4. FailedLocal(i)
    BY <1>1, <1>12, Zenon DEF SanityApplies
  <2> QED  BY <1>1, <1>2, <2>1, <2>2, <2>3, <2>4, Zenon DEF Local
<1>13. CASE SanityRollsBack(i)
  <2>1. SchemaLocal(i)
    BY <1>6, <1>8, <1>13, Zenon DEF SanityRollsBack
  <2>2. log' = log \/ log' = [log EXCEPT ![i] = @ \cup {n}]
    BY <1>13, Zenon DEF SanityRollsBack
  <2>3. Goto(i, "done") /\ mem' = mem /\ mail' = mail
    BY <1>13, Zenon DEF SanityRollsBack
  <2>4. FailedLocal(i)
    BY <1>1, <1>13, Zenon DEF SanityRollsBack
  <2> QED  BY <1>1, <1>2, <1>7, <1>9, <2>1, <2>2, <2>3, <2>4, Zenon DEF Local
<1> QED  BY <1>2, <1>10, <1>11, <1>12, <1>13, Zenon

LEMMA MoveLocal ==
  ASSUME TypeOK, NEW i \in Instances, Move(i)
  PROVE  Local(i)
BY StageLocal, UpFileLocal, UpEndLocal, DownFileLocal, SnapshotLocal,
   SanityFileLocal, Zenon DEF Move

(* RunAgain starts the command over; nothing else changes.                 *)
LEMMA RunAgainType ==
  ASSUME TypeOK, RunAgain
  PROVE  TypeOK'
<1>1. project' = project
  BY DEF RunAgain
<1>2. /\ N' = N /\ Files' = Files /\ Instances' = Instances
      /\ Changelogs' = Changelogs /\ Memories' = Memories /\ Mails' = Mails
  BY <1>1 DEF N, Files, Instances, Changelogs, Memories, Mails
<1>3. pc' \in [Instances -> Stages]
  BY DEF RunAgain, Stages
<1>4. failed' \subseteq Instances /\ attempt' \in {1, 2}
  BY DEF RunAgain
<1>5. /\ schema' = schema /\ log' = log /\ mem' = mem /\ mail' = mail
      /\ ran' = ran /\ lost' = lost /\ stuck' = stuck /\ reached' = reached
      /\ kept' = kept /\ hints' = hints
  BY DEF RunAgain, history
<1> QED  BY <1>1, <1>2, <1>3, <1>4, <1>5, Zenon DEF TypeOK

LEMMA TypeStep ==
  ASSUME TypeOK, [Next]_vars
  PROVE  TypeOK'
<1>1. CASE RunAgain
  BY <1>1, RunAgainType
<1>2. ASSUME NEW i \in Instances, Move(i)
      PROVE  TypeOK'
  BY <1>2, MoveLocal, LocalType
<1>3. CASE UNCHANGED vars
  <2>1. /\ project' = project /\ attempt' = attempt /\ pc' = pc
        /\ schema' = schema /\ log' = log /\ mem' = mem /\ failed' = failed
        /\ mail' = mail
        /\ ran' = ran /\ lost' = lost /\ stuck' = stuck /\ reached' = reached
        /\ kept' = kept /\ hints' = hints
    BY <1>3 DEF vars
  <2>2. /\ N' = N /\ Files' = Files /\ Instances' = Instances
        /\ Changelogs' = Changelogs /\ Memories' = Memories /\ Mails' = Mails
    BY <2>1 DEF N, Files, Instances, Changelogs, Memories, Mails
  <2> QED  BY <2>1, <2>2, Zenon DEF TypeOK
<1> QED  BY <1>1, <1>2, <1>3, Zenon DEF Next, Move

(* What Applied() computes, file by file.                                  *)
LEMMA AppliedSteps ==
  ASSUME NEW p
  PROVE  /\ Applied(p, 0) = [Empty EXCEPT !.tables = p.base]
         /\ \A n \in Nat :
              Applied(p, n + 1) = After(Applied(p, n), p.files[n + 1].up,
                                        Len(p.files[n + 1].up))
<1> DEFINE start == [Empty EXCEPT !.tables = p.base]
           Step(db, k) == After(db, p.files[k].up, Len(p.files[k].up))
           Body(g, m) ==
             [k \in 0..m |-> IF k = 0 THEN start ELSE Step(g[k - 1], k)]
           Graph(g, m) == g = Body(g, m)
<1>0. ASSUME NEW m
      PROVE  Applied(p, m) = (CHOOSE g : Graph(g, m))[m]
  BY DEF Applied
<1> HIDE DEF start, Step
<1>1. ASSUME NEW g, NEW m \in Nat, Graph(g, m)
      PROVE  /\ g[0] = start
             /\ \A k \in 0..m : k # 0 => g[k] = Step(g[k - 1], k)
  BY <1>1
<1>2. ASSUME NEW g, NEW h, NEW m \in Nat, NEW l \in Nat,
             Graph(g, m), Graph(h, l)
      PROVE  \A k \in Nat : k <= m /\ k <= l => g[k] = h[k]
  <2> DEFINE Bad == {k \in Nat : k <= m /\ k <= l /\ g[k] # h[k]}
  <2>0. /\ g[0] = start /\ h[0] = start
        /\ \A k \in 0..m : k # 0 => g[k] = Step(g[k - 1], k)
        /\ \A k \in 0..l : k # 0 => h[k] = Step(h[k - 1], k)
    BY <1>1, <1>2
  <2>1. SUFFICES ASSUME Bad # {} PROVE FALSE
    OBVIOUS
  <2>2. PICK x \in Bad : \A y \in Bad : x <= y
    BY <2>1, NatMinimum
  <2>3. x # 0
    BY <2>0, <2>2
  <2>4. x - 1 \in Nat /\ x - 1 \notin Bad /\ x \in 0..m /\ x \in 0..l
    BY <2>2, <2>3
  <2>5. g[x - 1] = h[x - 1]
    <3>1. x - 1 \in Nat /\ x - 1 <= m /\ x - 1 <= l
      BY <2>4
    <3>2. x - 1 \notin Bad
      BY <2>4
    <3> QED  BY <3>1, <3>2
  <2>6. g[x] = Step(g[x - 1], x) /\ h[x] = Step(h[x - 1], x)
    BY <2>0, <2>3, <2>4
  <2> QED  BY <2>2, <2>5, <2>6
<1>3. \A m \in Nat : \E g : Graph(g, m)
  <2> DEFINE Bad == {m \in Nat : ~ \E g : Graph(g, m)}
  <2>1. SUFFICES ASSUME Bad # {} PROVE FALSE
    OBVIOUS
  <2>2. PICK x \in Bad : \A y \in Bad : x <= y
    BY <2>1, NatMinimum
  <2>3. CASE x = 0
    <3>1. Graph([k \in 0..0 |-> start], 0)
      OBVIOUS
    <3> QED  BY <2>2, <2>3, <3>1
  <2>4. CASE x # 0
    <3>1. x - 1 \in Nat /\ x - 1 \notin Bad
      <4>1. x \in Nat
        BY <2>2
      <4>2. x - 1 \in Nat /\ ~(x <= x - 1)
        BY <4>1, <2>4
      <4> HIDE DEF Bad
      <4> QED  BY <4>2, <2>2
    <3>2. PICK g : Graph(g, x - 1)
      BY <3>1
    <3> DEFINE h == [k \in 0..x |-> IF k < x THEN g[k] ELSE Step(g[x - 1], x)]
    <3>3. /\ g[0] = start
          /\ \A k \in 0..x - 1 : k # 0 => g[k] = Step(g[k - 1], k)
      BY <3>1, <3>2, <1>1
    <3>4. ASSUME NEW k \in 0..x
          PROVE  h[k] = IF k = 0 THEN start ELSE Step(h[k - 1], k)
      <4>1. CASE k = 0  BY <4>1, <3>3, <2>4
      <4>2. CASE k # 0 /\ k < x
        <5>1. k - 1 \in 0..x /\ k - 1 < x /\ k \in 0..x - 1
          BY <4>2, <2>2
        <5> QED  BY <4>2, <3>3, <5>1
      <4>3. CASE k = x
        <5>1. k - 1 \in 0..x /\ k - 1 < x
          BY <4>3, <2>4, <2>2
        <5> QED  BY <4>3, <2>4, <5>1
      <4> QED  BY <4>1, <4>2, <4>3, <2>2
    <3>5. Graph(h, x)
      BY <3>4
    <3> QED  BY <3>5, <2>2
  <2> QED  BY <2>3, <2>4
<1>4. ASSUME NEW m \in Nat
      PROVE  \E g : Graph(g, m) /\ Applied(p, m) = g[m]
  <2>1. Graph(CHOOSE g : Graph(g, m), m)
    BY <1>3
  <2> QED  BY <1>0, <2>1
<1>5. Applied(p, 0) = start
  <2>1. PICK g : Graph(g, 0) /\ Applied(p, 0) = g[0]
    BY <1>4
  <2> QED  BY <2>1, <1>1
<1>6. ASSUME NEW n \in Nat
      PROVE  Applied(p, n + 1) = Step(Applied(p, n), n + 1)
  <2>1. PICK g : Graph(g, n) /\ Applied(p, n) = g[n]
    BY <1>4
  <2>2. /\ n + 1 \in Nat /\ n <= n + 1 /\ n + 1 \in 0..n + 1 /\ n + 1 # 0
        /\ (n + 1) - 1 = n
    OBVIOUS
  <2>3. PICK h : Graph(h, n + 1) /\ Applied(p, n + 1) = h[n + 1]
    BY <1>4, <2>2
  <2>4. h[n + 1] = Step(h[n], n + 1)
    BY <2>2, <2>3, <1>1
  <2>5. g[n] = h[n]
    BY <1>2, <2>1, <2>2, <2>3, SMTT(30)
  <2> QED  BY <2>1, <2>3, <2>4, <2>5
<1> QED  BY <1>5, <1>6 DEF start, Step

(* The files of a project and what they leave behind, whatever is applied. *)
IsProject(p) == \E family \in Families : p \in family

LEMMA FilesOf ==
  ASSUME NEW p, IsProject(p)
  PROVE  /\ Len(p.files) \in Nat /\ p.base \subseteq Tables
         /\ \A n \in 1..Len(p.files) :
              /\ p.files[n] \in Migrations
              /\ p.files[n].up \in Seq(Statements)
              /\ p.files[n].down \in Seq(Statements)
              /\ Len(p.files[n].up) \in 0..Len(p.files[n].up)
<1>1. p.files \in Seq(Migrations) /\ p.base \subseteq Tables
  BY ProjectAssumption, Zenon DEF IsProject
<1>2. \A f \in Migrations : /\ f.up \in Seq(Statements)
                            /\ f.down \in Seq(Statements)
                            /\ Len(f.up) \in 0..Len(f.up)
  BY DEF Migrations
<1> QED  BY <1>1, <1>2

LEMMA AppliedType ==
  ASSUME NEW p, IsProject(p)
  PROVE  \A n \in 0..Len(p.files) : Applied(p, n) \in Schemas
<1> DEFINE Bad == {n \in 0..Len(p.files) : Applied(p, n) \notin Schemas}
<1>0. Len(p.files) \in Nat
  BY FilesOf
<1>1. SUFFICES ASSUME Bad # {} PROVE FALSE
  OBVIOUS
<1>2. PICK x \in Bad : \A y \in Bad : x <= y
  <2>1. Bad \subseteq Nat
    BY <1>0
  <2> QED  BY <1>1, <2>1, NatMinimum
<1>3. x # 0
  <2>1. Applied(p, 0) = [Empty EXCEPT !.tables = p.base]
    BY AppliedSteps
  <2>2. [Empty EXCEPT !.tables = p.base] \in Schemas
    BY FilesOf DEF Empty, Schemas
  <2> QED  BY <1>2, <2>1, <2>2
<1>4. /\ x - 1 \in 0..Len(p.files) /\ x - 1 \notin Bad
      /\ x \in 1..Len(p.files) /\ (x - 1) + 1 = x /\ x - 1 \in Nat
  BY <1>0, <1>2, <1>3
<1>5. Applied(p, x - 1) \in Schemas
  BY <1>4
<1>6. Applied(p, (x - 1) + 1)
        = After(Applied(p, x - 1), p.files[(x - 1) + 1].up,
                Len(p.files[(x - 1) + 1].up))
  BY <1>4, AppliedSteps
<1>7. Applied(p, x) = After(Applied(p, x - 1), p.files[x].up,
                            Len(p.files[x].up))
  BY <1>4, <1>6
<1>8. p.files[x].up \in Seq(Statements)
      /\ Len(p.files[x].up) \in 0..Len(p.files[x].up)
  BY <1>4, FilesOf
<1>9. Applied(p, x) \in Schemas
  BY <1>5, <1>7, <1>8, AfterType
<1> QED  BY <1>2, <1>9

LEMMA InitType ==
  ASSUME Init
  PROVE  TypeOK
<1>1. IsProject(project)
  BY DEF Init, IsProject
<1>2. /\ N \in Nat /\ \A i \in Instances : project.applied[i] \in 0..N
      /\ \A n \in 0..N : Applied(project, n) \in Schemas
  <2>1. \A i \in 1..project.instances :
          project.applied[i] \in 0..Len(project.files)
    BY <1>1, ProjectAssumption, Zenon DEF IsProject
  <2> QED  BY <1>1, <2>1, FilesOf, AppliedType DEF N, Instances
<1>3. log \in [Instances -> Changelogs] /\ schema \in [Instances -> Schemas]
  BY <1>2 DEF Init, Changelogs
<1>4. /\ pc \in [Instances -> Stages] /\ mem \in [Instances -> Memories]
      /\ mail \in [Instances -> Mails]
  BY DEF Init, Stages, Memories, NoMemory, Mails, NoMail, Empty, Schemas
<1>5. /\ attempt \in {1, 2} /\ failed \subseteq Instances
      /\ ran \in [Instances -> SUBSET Files]
      /\ lost \in [Instances -> SUBSET (Files \X Tables)]
      /\ stuck \in [Instances -> SUBSET (Files \X Statements)]
      /\ reached \in [Instances -> SUBSET Tables]
      /\ kept \in [Instances -> SUBSET Files]
      /\ hints = [i \in Instances |-> hints[i]]
  BY DEF Init
<1> QED  BY <1>1, <1>3, <1>4, <1>5, Zenon DEF TypeOK, IsProject

(* The variables keep their types, and a changelog holds an initial        *)
(* segment of the files: no command leaves a gap.                          *)
THEOREM TypeCorrect == Spec => []TypeOK
<1>1. Init => TypeOK
  BY InitType
<1>2. TypeOK /\ [Next]_vars => TypeOK'
  BY TypeStep
<1> QED  BY <1>1, <1>2, PTL DEF Spec

-----------------------------------------------------------------------------
(* Nothing unreviewed runs: the properties of a project and its flags that *)
(* the invariant is made of.                                               *)

SimpleIn(p, n) ==
  LET up == p.files[n].up
  IN  \A j, k \in DOMAIN up :
        j # k => Mentions(up[j]) \cap Mentions(up[k]) = {}

CodesOfLoss(s) ==
  CASE s.op = "drop" -> {"DROP_TABLE", "ORPHAN_DROP_UP"}
    [] s.op = "empty" -> {"TRUNCATE_TABLE"}
    [] s.op = "rename" -> {"RENAME_TABLE"}
    [] OTHER -> {}

LossCodesIn(p, n, t) ==
  UNION {CodesOfLoss(s) : s \in {x \in In(p.files[n].up) : x.table = t}}

LossOk(p, fl, n, t) ==
  SimpleIn(p, n) =>
    \/ \E code \in LossCodesIn(p, n, t) : DecidedIn(p, fl, n, code)
    \/ /\ t \in Created(p.files[n].down)
       /\ "TRUNCATE_TABLE" \notin LossCodesIn(p, n, t)

UseOk(p, fl, n) ==
  (\E s \in In(p.files[n].up) : s.op = "global") =>
    /\ DecidedIn(p, fl, n, "SET_GLOBAL")
    /\ \/ ~p.config.requireApprover
       \/ Releases(p, fl, n).approver
       \/ SetAside(p, "SET_GLOBAL")

LEMMA ReviewedIs ==
  /\ \A n, code : Decided(n, code) <=> DecidedIn(project, flags, n, code)
  /\ \A n : Simple(n) <=> SimpleIn(project, n)
  /\ \A n, t : LossCodes(n, t) = LossCodesIn(project, n, t)
  /\ NothingUnreviewedRuns <=>
       \A i \in Instances :
         /\ \A e \in lost[i] : LossOk(project, flags, e[1], e[2])
         /\ \A n \in ran[i] : UseOk(project, flags, n)
<1>1. ASSUME NEW n, NEW code
      PROVE  Decided(n, code) <=> DecidedIn(project, flags, n, code)
  BY Zenon DEF Decided, DecidedIn, SetAside
<1>2. ASSUME NEW n
      PROVE  Simple(n) <=> SimpleIn(project, n)
  BY Zenon DEF Simple, SimpleIn, File
<1>3. ASSUME NEW n, NEW t
      PROVE  LossCodes(n, t) = LossCodesIn(project, n, t)
  BY Zenon DEF LossCodes, LossCodesIn, CodesOfLoss, File
<1>4. ASSUME NEW n, NEW t
      PROVE  LossOk(project, flags, n, t) <=>
               (Simple(n) =>
                  \/ \E code \in LossCodes(n, t) : Decided(n, code)
                  \/ /\ t \in Created(File(n).down)
                     /\ "TRUNCATE_TABLE" \notin LossCodes(n, t))
  BY <1>1, <1>2, <1>3, Zenon DEF LossOk, File
<1>5. ASSUME NEW n
      PROVE  UseOk(project, flags, n) <=>
               ((\E s \in In(File(n).up) : s.op = "global") =>
                  /\ Decided(n, "SET_GLOBAL")
                  /\ \/ ~project.config.requireApprover
                     \/ Releases(project, flags, n).approver
                     \/ Setting(project.config, "SET_GLOBAL")
                          \in {"off", "warn"})
  BY <1>1, Zenon DEF UseOk, File, SetAside
<1> QED  BY <1>1, <1>2, <1>3, <1>4, <1>5, Zenon DEF NothingUnreviewedRuns

(* A file that the server works on has the marker, and something in Up.    *)
LEMMA ScriptIs ==
  ASSUME NEW f, f.marker, NEW l \in DOMAIN f.up
  PROVE  Up(f) = f.up /\ UpOrAll(f) = f.up /\ f.up[l] \in In(f.up)
<1>1. Up(f) = f.up
  BY DEF Up
<1>2. f.up # <<>>
  OBVIOUS
<1> QED  BY <1>1, <1>2 DEF UpOrAll, In

(* Where order does not matter, the statement that mentions a table is the *)
(* only one.                                                               *)
LEMMA OnlyMention ==
  ASSUME NEW p, NEW n, SimpleIn(p, n), NEW l \in DOMAIN p.files[n].up, NEW t,
         t \in Mentions(p.files[n].up[l]),
         NEW x \in In(p.files[n].up), t \in Mentions(x)
  PROVE  x = p.files[n].up[l]
<1>1. PICK k \in DOMAIN p.files[n].up : x = p.files[n].up[k]
  BY DEF In
<1>2. k # l => FALSE
  BY <1>1 DEF SimpleIn
<1> QED  BY <1>1, <1>2

LEMMA LossReviewed ==
  ASSUME NEW p, IsProject(p), NEW n \in 1..Len(p.files), NEW fl,
         Passes(p, fl, n), p.files[n].marker, NEW db \in Schemas,
         NEW k \in 0..Len(p.files[n].up), NEW t,
         \/ t \in db.tables /\ t \notin After(db, p.files[n].up, k).tables
         \/ \E l \in 1..k : /\ p.files[n].up[l].op = "empty"
                            /\ p.files[n].up[l].table = t
  PROVE  LossOk(p, fl, n, t)
<1> DEFINE f == p.files[n]
           up == f.up
<1>0. up \in Seq(Statements) /\ Len(up) \in Nat
  BY FilesOf
<1>1. PICK l \in 1..k : /\ up[l].op \in {"drop", "rename", "empty"}
                        /\ up[l].table = t
  <2>1. CASE t \in db.tables /\ t \notin After(db, up, k).tables
    <3>1. \E l \in 1..k : Takes(up[l], t)
      BY <1>0, <2>1, GoneWasTaken
    <3> QED  BY <3>1 DEF Takes
  <2>2. CASE \E l \in 1..k : up[l].op = "empty" /\ up[l].table = t
    BY <2>2
  <2> QED  BY <2>1, <2>2
<1> DEFINE s == up[l]
<1>2. l \in DOMAIN up
  BY <1>0, <1>1
<1>3. Up(f) = up /\ UpOrAll(f) = up /\ s \in In(up)
  BY <1>2, ScriptIs
<1>4. CodesOfLoss(s) \subseteq LossCodesIn(p, n, t)
  <2>1. s \in {x \in In(up) : x.table = t}
    BY <1>1, <1>3
  <2> HIDE DEF s
  <2> QED  BY <2>1, Zenon DEF LossCodesIn
<1>5. CASE s.op \in {"empty", "rename"}
  <2>1. DecidedIn(p, fl, n, DangerCode(s))
    BY <1>3, <1>5, DangerDecided
  <2>2. DangerCode(s) \in CodesOfLoss(s)
    BY <1>5 DEF DangerCode, CodesOfLoss
  <2> QED  BY <2>1, <2>2, <1>4 DEF LossOk
<1>6. CASE s.op = "drop"
  <2>0. SUFFICES ASSUME SimpleIn(p, n) PROVE LossOk(p, fl, n, t)
    BY Zenon DEF LossOk
  <2>1. t \in Mentions(s)
    BY <1>1, <1>6 DEF Mentions
  <2>2. ASSUME NEW x \in In(up), t \in Mentions(x)
        PROVE  x = s
    BY <1>2, <2>0, <2>1, <2>2, OnlyMention
  <2>3. t \in Dropped(Up(f)) \ Created(Up(f))
    <3>1. t \in Dropped(up)
      BY <1>1, <1>3, <1>6 DEF Dropped
    <3>2. ASSUME NEW x \in In(up), Creates(x) \/ x.op = "rename",
                 t \in {x.table, x.other},
                 Creates(x) => t = x.table
          PROVE  FALSE
      <4>1. t \in Mentions(x)
        BY <3>2 DEF Mentions, Creates
      <4>2. x = s
        BY <2>2, <4>1
      <4> QED  BY <1>6, <3>2, <4>2 DEF Creates
    <3>3. t \notin Created(up)
      BY <3>2 DEF Created, Creates
    <3> QED  BY <1>3, <3>1, <3>3
  <2>4. {"DROP_TABLE", "ORPHAN_DROP_UP"} \subseteq LossCodesIn(p, n, t)
    BY <1>4, <1>6 DEF CodesOfLoss
  <2>5. CASE t \notin Created(f.down)
    <3>1. DecidedIn(p, fl, n, "DROP_TABLE")
          \/ DecidedIn(p, fl, n, "ORPHAN_DROP_UP")
      BY <2>3, <2>5, DropDecided
    <3> QED  BY <2>4, <3>1 DEF LossOk
  <2>6. CASE t \in Created(f.down)
    <3>1. ASSUME NEW x \in In(up), x.table = t
          PROVE  "TRUNCATE_TABLE" \notin CodesOfLoss(x)
      <4>1. CASE x.op = "global"
        BY <4>1 DEF CodesOfLoss
      <4>2. CASE x.op # "global"
        <5>1. t \in Mentions(x)
          BY <3>1, <4>2 DEF Mentions
        <5>2. x = s
          BY <2>2, <5>1
        <5> QED  BY <1>6, <5>2 DEF CodesOfLoss
      <4> QED  BY <4>1, <4>2
    <3>2. "TRUNCATE_TABLE" \notin LossCodesIn(p, n, t)
      BY <3>1 DEF LossCodesIn
    <3> QED  BY <2>6, <3>2 DEF LossOk
  <2> QED  BY <2>5, <2>6
<1> QED  BY <1>1, <1>5, <1>6

(* More codes are allowed, and nothing else is different.                  *)
AllowsMore(fl, more) ==
  /\ more.dangerous = fl.dangerous /\ more.forbidden = fl.forbidden
  /\ more.approver = fl.approver /\ fl.codes \subseteq more.codes

LEMMA DecidedMonotone ==
  ASSUME NEW p, NEW n, NEW fl, NEW more, AllowsMore(fl, more)
  PROVE  /\ \A code : DecidedIn(p, fl, n, code) => DecidedIn(p, more, n, code)
         /\ \A t : LossOk(p, fl, n, t) => LossOk(p, more, n, t)
         /\ UseOk(p, fl, n) => UseOk(p, more, n)
<1> DEFINE rel == Releases(p, fl, n)
           wide == Releases(p, more, n)
<1>1. /\ rel.dangerous => wide.dangerous
      /\ rel.forbidden => wide.forbidden
      /\ rel.approver => wide.approver
  BY Zenon DEF AllowsMore, Releases
<1>2. rel.codes \subseteq wide.codes
  BY DEF AllowsMore, Releases
<1>3. \A code : DecidedIn(p, fl, n, code) => DecidedIn(p, more, n, code)
  BY <1>1, <1>2, Zenon DEF DecidedIn
<1> QED  BY <1>1, <1>3, Zenon DEF LossOk, UseOk

-----------------------------------------------------------------------------
(* The stages that a command goes through with an instance.                *)

Tests == {"test", "test-instances", "test-all"}
TestStages == {"validate", "up1", "up2", "snapshot", "sanity"} \cup DownStages

StagesFit(i) ==
  /\ pc[i] \in {"gate", "before", "up", "after"} =>
       project.command \in {"up-all", "sync"}
  /\ pc[i] \in {"before", "after"} => project.command = "sync"
  /\ pc[i] \in {"before", "up", "after"} => ~project.dryRun
  /\ pc[i] = "judge" => project.command \in {"validate", "validate-all"}
  /\ pc[i] \in TestStages => project.command \in Tests
  /\ pc[i] = "validate" => project.command # "test"
  /\ pc[i] \in {"clear", "snapshot", "sanity"} => project.sanity

(* Where a step for an instance leads, stage by stage.                     *)
LEMMA StagesFitMove ==
  ASSUME TypeOK, NEW i \in Instances, StagesFit(i), Move(i)
  PROVE  StagesFit(i)'
<1>0. /\ project' = project /\ pc \in [Instances -> Stages]
      /\ project.command \in Commands
  BY MoveLocal, ProjectFacts DEF Local, TypeOK
<1>1. \A stage : Goto(i, stage) => pc'[i] = stage
  BY <1>0 DEF Goto
<1>2. pc'[i] \in {pc[i], "done"} => StagesFit(i)'
  BY <1>0 DEF StagesFit, TestStages, DownStages
<1>3. /\ pc'[i] = "cleanup" /\ project.command \in Tests => StagesFit(i)'
      /\ pc'[i] = AfterTest /\ project.command \in Tests => StagesFit(i)'
      /\ pc'[i] \in {"snapshot", "sanity"} /\ project.command \in Tests
           /\ project.sanity => StagesFit(i)'
  BY <1>0 DEF StagesFit, AfterTest, TestStages, DownStages
<1>4. Stops(i) => StagesFit(i)'
  BY <1>2, <1>3, StopsFacts DEF StagesFit, TestStages, DownStages
<1>5. CASE Connect(i)
  <2>1. pc'[i] \in {Begins, "done"}
    BY <1>1, <1>5 DEF Connect
  <2>2. pc'[i] = Begins => StagesFit(i)'
    BY <1>0 DEF StagesFit, Begins, Commands, Tests, TestStages, DownStages
  <2> QED  BY <1>2, <2>1, <2>2
<1>6. CASE QueryFails(i)
  <2>1. Stops(i) \/ pc'[i] = "done"
    BY <1>1, <1>6 DEF QueryFails
  <2> QED  BY <1>2, <1>4, <2>1
<1>7. CASE \/ Judge(i) \/ NothingIsAnError(i) \/ Report(i) \/ SanityEnd(i)
  <2>1. pc'[i] = "done"
    BY <1>1, <1>7 DEF Judge, NothingIsAnError, Report, SanityEnd
  <2> QED  BY <1>2, <2>1
<1>8. CASE Validate(i)
  <2>1. pc[i] = "validate" /\ pc'[i] \in {"done", "up1"}
    BY <1>1, <1>8 DEF Validate
  <2> QED  BY <1>0, <1>2, <2>1 DEF StagesFit, TestStages, DownStages
<1>9. CASE Gate(i)
  <2>1. /\ pc[i] = "gate"
        /\ \/ pc'[i] = "done"
           \/ pc'[i] = "before" /\ project.command = "sync" /\ ~project.dryRun
           \/ pc'[i] = "up" /\ project.command # "sync" /\ ~project.dryRun
    BY <1>1, <1>9, Zenon DEF Gate
  <2> QED  BY <1>0, <1>2, <2>1 DEF StagesFit, TestStages, DownStages
<1>10. CASE LookBefore(i)
  <2>1. pc[i] = "before" /\ pc'[i] = "up"
    BY <1>1, <1>10 DEF LookBefore
  <2> QED  BY <1>0, <2>1 DEF StagesFit, TestStages, DownStages
<1>11. CASE UpFile(i) \/ UpRejects(i) \/ DownFile(i)
  <2>1. Stops(i) \/ pc' = pc
    BY <1>11, Zenon DEF UpFile, UpRejects, DownFile
  <2> QED  BY <1>2, <1>4, <2>1
<1>12. CASE UpEnd(i)
  <2>1. \/ pc[i] = "up" /\ project.command = "sync" /\ pc'[i] = "after"
        \/ pc'[i] = "done"
        \/ pc[i] \in {"up1", "up2"} /\ pc'[i] \in {"down1", AfterTest, "cleanup"}
    BY <1>1, <1>12, StageNames DEF UpEnd, UpStages
  <2> QED  BY <1>0, <1>2, <1>3, <2>1 DEF StagesFit, TestStages, DownStages
<1>13. CASE DownEnd(i)
  <2>1. \/ pc[i] = "down1" /\ pc'[i] = "up2"
        \/ pc[i] = "cleanup" /\ pc'[i] = AfterTest
        \/ pc[i] = "clear" /\ pc'[i] = "snapshot"
    BY <1>1, <1>13 DEF DownEnd, DownStages
  <2> QED  BY <1>0, <1>2, <1>3, <2>1 DEF StagesFit, TestStages, DownStages
<1>14. CASE Snapshot(i)
  <2>1. pc[i] = "snapshot" /\ pc'[i] = "sanity"
    BY <1>1, <1>14 DEF Snapshot
  <2> QED  BY <1>0, <1>3, <2>1 DEF StagesFit, TestStages
<1>15. CASE SanityFile(i)
  <2>1. Stops(i) \/ pc' = pc \/ pc'[i] = "done"
    BY <1>1, <1>15, SanityFileBranches, Zenon
    DEF SanityFails, SanityFaults, SanityApplies, SanityRollsBack
  <2> QED  BY <1>2, <1>4, <2>1
<1> QED
  BY <1>5, <1>6, <1>7, <1>8, <1>9, <1>10, <1>11, <1>12, <1>13, <1>14, <1>15
  DEF Move

-----------------------------------------------------------------------------
(* Nothing unreviewed runs.                                                *)

(* Whatever is still to be executed has passed the gate.                   *)
Reviewed(i) ==
  pc[i] \in {"before", "up"} =>
    \A n \in Pending(i) : Passes(project, flags, n)

HistoryReviewed(i) ==
  /\ \A e \in lost[i] : LossOk(project, flags, e[1], e[2])
  /\ \A n \in ran[i] : UseOk(project, flags, n)

(* What the steps other than those of up() do to the history and to pc.    *)
LEMMA OtherMoves ==
  ASSUME TypeOK, NEW i \in Instances, Move(i), ~UpFile(i)
  PROVE  /\ ran' = ran /\ lost' = lost /\ stuck' = stuck
         /\ pc'[i] = "before" => Gate(i)
         /\ pc'[i] = "up" => \/ Gate(i)
                             \/ pc[i] = "before" /\ log' = log
<1>0. pc \in [Instances -> Stages]
  BY DEF TypeOK
<1>1. \A stage : Goto(i, stage) => pc'[i] = stage
  BY <1>0 DEF Goto
<1>2. Stops(i) => pc'[i] \notin {"before", "up"}
  BY StopsFacts DEF AfterTest
<1>3. CASE Gate(i)
  BY <1>3 DEF Gate
<1>4. CASE Connect(i)
  <2>1. pc'[i] \in {Begins, "done"} /\ Begins \notin {"before", "up"}
    BY <1>1, <1>4, ProjectFacts DEF Connect, Begins, Commands
  <2> QED  BY <2>1, <1>4 DEF Connect, history
<1>5. CASE QueryFails(i)
  <2>1. pc'[i] \notin {"before", "up"}
    BY <1>1, <1>2, <1>5 DEF QueryFails
  <2> QED  BY <2>1, <1>5 DEF QueryFails, history
<1>6. CASE \/ Judge(i) \/ NothingIsAnError(i) \/ Report(i) \/ SanityEnd(i)
  <2>1. pc'[i] = "done"
    BY <1>1, <1>6 DEF Judge, NothingIsAnError, Report, SanityEnd
  <2> QED  BY <2>1, <1>6
           DEF Judge, NothingIsAnError, Report, SanityEnd, history
<1>7. CASE Validate(i)
  <2>1. pc'[i] \in {"done", "up1"}
    BY <1>1, <1>7 DEF Validate
  <2> QED  BY <2>1, <1>7 DEF Validate, history
<1>8. CASE LookBefore(i)
  BY <1>1, <1>8 DEF LookBefore, history
<1>9. CASE UpRejects(i)
  BY <1>2, <1>9 DEF UpRejects, history
<1>10. CASE UpEnd(i)
  <2>1. pc'[i] \in {"after", "done", "down1", AfterTest, "cleanup"}
    BY <1>1, <1>10 DEF UpEnd
  <2> QED  BY <2>1, <1>10 DEF UpEnd, AfterTest
<1>11. CASE DownFile(i)
  <2>1. Stops(i) \/ pc' = pc
    BY <1>11, Zenon DEF DownFile
  <2>2. pc'[i] \notin {"before", "up"}
    BY <1>2, <1>11, <2>1 DEF DownFile, DownStages
  <2> QED  BY <2>2, <1>11 DEF DownFile, history
<1>12. CASE DownEnd(i)
  <2>1. pc'[i] \in {"up2", AfterTest, "snapshot"}
    BY <1>1, <1>12 DEF DownEnd, DownStages
  <2> QED  BY <2>1, <1>12 DEF DownEnd, AfterTest, history
<1>13. CASE Snapshot(i)
  BY <1>1, <1>13 DEF Snapshot
<1>14. CASE SanityFile(i)
  <2>1. Stops(i) \/ pc' = pc \/ pc'[i] = "done"
    BY <1>1, <1>14, SanityFileBranches, Zenon
    DEF SanityFails, SanityFaults, SanityApplies, SanityRollsBack
  <2>2. pc[i] = "sanity" /\ UNCHANGED history
    BY <1>14, SanityFileBranches
  <2> QED  BY <1>2, <2>1, <2>2 DEF history
<1> QED
  BY <1>3, <1>4, <1>5, <1>6, <1>7, <1>8, <1>9, <1>10, <1>11, <1>12, <1>13,
     <1>14 DEF Move

(* What up() does for up-all and sync, file by file.                       *)
LEMMA UpFileFacts ==
  ASSUME TypeOK, NEW i \in Instances, UpFile(i), NEW n,
         n = First(Pending(i))
  PROVE  /\ n \in Files /\ n \in Pending(i) /\ File(n).marker
         /\ pc[i] \in UpStages
         /\ \E k \in 0..Reach(schema[i], File(n).up) :
              /\ schema'[i] = After(schema[i], File(n).up, k)
              /\ Remember(i, n, k)
         /\ \/ /\ pc' = pc /\ failed' = failed /\ mail' = mail
               /\ stuck' = stuck
               /\ log' = [log EXCEPT ![i] = @ \cup {n}]
               /\ Completes(schema[i], File(n).up)
               /\ Remember(i, n, Reach(schema[i], File(n).up))
               /\ schema'[i] = After(schema[i], File(n).up,
                                     Len(File(n).up))
               /\ mem' = IF pc[i] = "up"
                         THEN [mem EXCEPT ![i].applied = @ \cup {n}]
                         ELSE mem
            \/ /\ Stops(i) /\ log' = log /\ mem' = mem
               /\ \/ stuck' = stuck
                  \/ /\ pc[i] = "up"
                     /\ Reach(schema[i], File(n).up) < Len(File(n).up)
                     /\ schema'[i] = After(schema[i], File(n).up,
                                           Reach(schema[i], File(n).up))
                     /\ Remember(i, n, Reach(schema[i], File(n).up))
                     /\ stuck' = [stuck EXCEPT ![i] =
                          {<<n, File(n).up[Reach(schema[i], File(n).up) + 1]>>}]
<1> DEFINE up == File(n).up
           reach == Reach(schema[i], up)
<1>1. n \in Files /\ n \in Pending(i)
  BY HereFacts DEF UpFile
<1>2. reach \in 0..reach
  <2>1. up \in Seq(Statements) /\ schema[i] \in Schemas
    BY <1>1, ProjectFacts DEF TypeOK
  <2>2. reach \in 0..Len(up) /\ Len(up) \in Nat
    BY <2>1, SectionType
  <2> QED  BY <2>2
<1>3. /\ pc[i] \in UpStages /\ File(n).marker
      /\ \/ /\ reach = Len(up)
            /\ log' = [log EXCEPT ![i] = @ \cup {n}]
            /\ schema' = [schema EXCEPT ![i] = After(@, up, reach)]
            /\ mem' = IF pc[i] = "up" THEN [mem EXCEPT ![i].applied =
                                              @ \cup {n}]
                      ELSE mem
            /\ Remember(i, n, reach)
            /\ UNCHANGED <<pc, failed, mail, faults, stuck>>
         \/ /\ reach < Len(up)
            /\ schema' = [schema EXCEPT ![i] = After(@, up, reach)]
            /\ Remember(i, n, reach)
            /\ stuck' = IF pc[i] # "up" THEN stuck
                        ELSE [stuck EXCEPT ![i] = {<<n, up[reach + 1]>>}]
            /\ Stops(i)
            /\ UNCHANGED <<log, mem, faults>>
         \/ /\ Fault
            /\ \E k \in 0..reach :
                 /\ schema' = [schema EXCEPT ![i] = After(@, up, k)]
                 /\ Remember(i, n, k)
            /\ Stops(i)
            /\ UNCHANGED <<log, mem, stuck>>
  BY Zenon DEF UpFile
<1>4. \A db : schema' = [schema EXCEPT ![i] = db] => schema'[i] = db
  BY DEF TypeOK
<1>5. \E k \in 0..reach :
        schema'[i] = After(schema[i], up, k) /\ Remember(i, n, k)
  BY <1>2, <1>3, <1>4, Zenon
<1> HIDE DEF up, reach
<1>6. \/ /\ pc' = pc /\ failed' = failed /\ mail' = mail /\ stuck' = stuck
         /\ log' = [log EXCEPT ![i] = @ \cup {n}]
         /\ reach = Len(up)
         /\ Remember(i, n, reach)
         /\ schema'[i] = After(schema[i], up, Len(up))
         /\ mem' = IF pc[i] = "up" THEN [mem EXCEPT ![i].applied = @ \cup {n}]
                   ELSE mem
      \/ /\ Stops(i) /\ log' = log /\ mem' = mem
         /\ \/ stuck' = stuck
            \/ /\ pc[i] = "up" /\ reach < Len(up)
               /\ schema'[i] = After(schema[i], up, reach)
               /\ Remember(i, n, reach)
               /\ stuck' = [stuck EXCEPT ![i] = {<<n, up[reach + 1]>>}]
  BY <1>3, <1>4, Zenon
<1> QED  BY <1>1, <1>3, <1>5, <1>6, Zenon DEF up, reach, Completes

LEMMA LocalKept ==
  ASSUME TypeOK, NEW i \in Instances, Move(i)
  PROVE  /\ project' = project /\ flags' = flags /\ attempt' = attempt
         /\ N' = N /\ Files' = Files /\ Instances' = Instances
         /\ \A n : File(n)' = File(n)
         /\ OthersKept(i) /\ TypeOK'
         /\ pc \in [Instances -> Stages] /\ pc' \in [Instances -> Stages]
         /\ log \in [Instances -> Changelogs]
<1>1. Local(i)
  BY MoveLocal
<1>2. project' = project /\ flags' = flags /\ attempt' = attempt
  BY <1>1 DEF Local
<1>3. OthersKept(i) /\ TypeOK'
  BY <1>1, LocalType
<1>4. pc' \in [Instances -> Stages]
  BY <1>2, <1>3 DEF TypeOK, Instances
<1> QED  BY <1>2, <1>3, <1>4 DEF N, Files, Instances, File, TypeOK

LEMMA ReviewedMove ==
  ASSUME TypeOK, NEW i \in Instances, Reviewed(i), HistoryReviewed(i), Move(i)
  PROVE  Reviewed(i)' /\ HistoryReviewed(i)'
<1>0. /\ project' = project /\ flags' = flags /\ Files' = Files
      /\ pc \in [Instances -> Stages] /\ log \in [Instances -> Changelogs]
  BY LocalKept
<1>p. log'[i] = log[i] => Pending(i)' = Pending(i)
  BY <1>0 DEF Pending
<1>1. CASE ~UpFile(i)
  <2>1. /\ ran' = ran /\ lost' = lost
        /\ pc'[i] = "before" => Gate(i)
        /\ pc'[i] = "up" => \/ Gate(i)
                            \/ pc[i] = "before" /\ log' = log
    BY <1>1, OtherMoves
  <2>2. HistoryReviewed(i)'
    BY <1>0, <2>1, Zenon DEF HistoryReviewed
  <2>3. ASSUME Gate(i), pc'[i] \in {"before", "up"}
        PROVE  \A n \in Pending(i)' : Passes(project, flags, n)'
    <3>1. log' = log /\ pc'[i] # "done"
      BY <2>3 DEF Gate
    <3>2. \A n \in Pending(i) : Passes(project, flags, n)
      <4> DEFINE failing == {n \in Pending(i) : ~Passes(project, flags, n)}
      <4>1. failing # {} => Goto(i, "done")
        BY <2>3, Zenon DEF Gate
      <4>2. Goto(i, "done") => pc'[i] = "done"
        BY <1>0 DEF Goto
      <4>3. failing = {}
        BY <3>1, <4>1, <4>2
      <4> QED  BY <4>3
    <3> QED  BY <1>0, <1>p, <3>1, <3>2
  <2>4. ASSUME pc[i] = "before", log' = log
        PROVE  \A n \in Pending(i)' : Passes(project, flags, n)'
    BY <1>0, <1>p, <2>4 DEF Reviewed
  <2>5. Reviewed(i)'
    BY <2>1, <2>3, <2>4, Zenon DEF Reviewed
  <2> QED  BY <2>2, <2>5
<1>2. CASE UpFile(i)
  <2> DEFINE n == First(Pending(i))
             up == File(n).up
  <2>1. /\ n \in Files /\ n \in Pending(i) /\ File(n).marker
        /\ pc[i] \in UpStages
        /\ \E k \in 0..Reach(schema[i], up) :
             schema'[i] = After(schema[i], up, k) /\ Remember(i, n, k)
        /\ \/ pc' = pc /\ log' = [log EXCEPT ![i] = @ \cup {n}]
           \/ Stops(i)
    BY <1>2, UpFileFacts
  <2>2. Reviewed(i)'
    <3>1. CASE Stops(i)
      <4>1. pc'[i] \notin {"before", "up"}
        BY <3>1, <2>1, StopsFacts DEF UpStages
      <4> QED  BY <4>1 DEF Reviewed
    <3>2. CASE pc' = pc /\ log' = [log EXCEPT ![i] = @ \cup {n}]
      <4>1. Pending(i)' \subseteq Pending(i)
        BY <1>0, <3>2 DEF Pending
      <4> QED  BY <1>0, <3>2, <4>1 DEF Reviewed
    <3> QED  BY <2>1, <3>1, <3>2
  <2>3. CASE pc[i] # "up"
    <3>1. ran' = ran /\ lost' = lost
      BY <2>1, <2>3 DEF Remember
    <3>2. HistoryReviewed(i)'
      BY <1>0, <3>1, Zenon DEF HistoryReviewed
    <3> QED  BY <2>2, <3>2
  <2>4. CASE pc[i] = "up"
    <3>1. PICK k \in 0..Reach(schema[i], up) :
            schema'[i] = After(schema[i], up, k) /\ Remember(i, n, k)
      BY <2>1
    <3> DEFINE gone == schema[i].tables \ schema'[i].tables
               emptied == {up[l].table :
                             l \in {x \in 1..k : up[x].op = "empty"}}
               more == {<<n, t>> : t \in gone \cup emptied}
    <3>2. /\ ran' = [ran EXCEPT ![i] = @ \cup {n}]
          /\ lost' = [lost EXCEPT ![i] = @ \cup more]
      BY <2>4, <3>1, Zenon DEF Remember
    <3>3. ran'[i] = ran[i] \cup {n} /\ lost'[i] = lost[i] \cup more
      <4> HIDE DEF more
      <4> QED  BY <3>2 DEF TypeOK
    <3>4. /\ IsProject(project) /\ n \in 1..Len(project.files)
          /\ Passes(project, flags, n) /\ project.files[n].marker
          /\ schema[i] \in Schemas
      BY <2>1, <2>4 DEF IsProject, TypeOK, Reviewed, Files, N, File
    <3>5. k \in 0..Len(project.files[n].up)
      <4>1. up \in Seq(Statements)
        BY <2>1, ProjectFacts
      <4>2. Reach(schema[i], up) \in 0..Len(up) /\ Len(up) \in Nat
        BY <3>4, <4>1, SectionType
      <4> QED  BY <4>2, <3>1 DEF File
    <3>6. ASSUME NEW t \in gone \cup emptied
          PROVE  LossOk(project, flags, n, t)
      <4>1. \/ t \in schema[i].tables
               /\ t \notin After(schema[i], project.files[n].up, k).tables
            \/ \E l \in 1..k : /\ project.files[n].up[l].op = "empty"
                               /\ project.files[n].up[l].table = t
        BY <3>1, <3>6 DEF File
      <4> HIDE DEF n
      <4> QED  BY <3>4, <3>5, <4>1, LossReviewed
    <3>7. UseOk(project, flags, n)
      <4>1. ASSUME NEW s \in In(project.files[n].up)
            PROVE  s \in In(Contents(project.files[n]))
        <5>1. PICK l \in DOMAIN up : s = up[l]
          BY <4>1 DEF In, File
        <5>2. up \in Seq(Statements) /\ File(n).down \in Seq(Statements)
          BY <2>1, ProjectFacts
        <5>3. l \in DOMAIN (up \o File(n).down) /\ (up \o File(n).down)[l] = s
          <6> HIDE DEF up
          <6> QED  BY <5>1, <5>2
        <5> QED  BY <5>3 DEF In, Contents, File
      <4> QED  BY <3>4, <4>1, ForbiddenDecided DEF UseOk
    <3>8. /\ \A e \in lost'[i] : LossOk(project, flags, e[1], e[2])
          /\ \A m \in ran'[i] : UseOk(project, flags, m)
      BY <3>3, <3>6, <3>7 DEF HistoryReviewed
    <3>9. HistoryReviewed(i)'
      BY <1>0, <3>8, Zenon DEF HistoryReviewed
    <3> QED  BY <2>2, <3>9
  <2> QED  BY <2>3, <2>4
<1> QED  BY <1>1, <1>2

-----------------------------------------------------------------------------
(* The flags of each attempt, and the stages of every instance.            *)

HintedCodes == UNION {hints[i].codes : i \in Instances}

FlagsFit ==
  /\ attempt = 1 => flags = project.flags
  /\ attempt = 2 =>
       /\ flags = [project.flags EXCEPT !.codes = @ \cup HintedCodes]
       /\ project.command = "up-all"

Core == TypeOK /\ FlagsFit /\ \A i \in Instances : StagesFit(i)

LEMMA HintsKept ==
  ASSUME NEW i \in Instances, Move(i), ~(Gate(i) /\ attempt = 1)
  PROVE  hints' = hints
<1>1. CASE SanityFile(i)
  BY <1>1, SanityFileBranches DEF history
<1> QED
  BY <1>1 DEF Move, Connect, QueryFails, Judge, Validate, Gate,
     NothingIsAnError, LookBefore, Report, UpFile, UpRejects, UpEnd,
     DownFile, DownEnd, Snapshot, SanityEnd, history

LEMMA CoreInit ==
  ASSUME Init
  PROVE  Core
<1>1. TypeOK
  BY InitType
<1>2. FlagsFit
  BY DEF Init, FlagsFit
<1>3. \A i \in Instances : StagesFit(i)
  BY DEF Init, StagesFit, TestStages, DownStages
<1> QED  BY <1>1, <1>2, <1>3 DEF Core

(* RunAgain gives all instances back to the start, with more codes.        *)
LEMMA RunAgainFacts ==
  ASSUME Core, RunAgain
  PROVE  /\ project' = project /\ Files' = Files /\ Instances' = Instances
         /\ N' = N /\ \A n : File(n)' = File(n)
         /\ pc' = [i \in Instances |-> "connect"]
         /\ attempt = 1 /\ attempt' = 2 /\ FlagsFit'
         /\ AllowsMore(flags, flags')
         /\ project.command = "up-all"
         /\ schema' = schema /\ log' = log /\ mem' = mem /\ mail' = mail
         /\ failed' = {}
         /\ ran' = ran /\ lost' = lost /\ stuck' = stuck
         /\ reached' = reached /\ kept' = kept /\ hints' = hints
<1>1. /\ project' = project /\ attempt = 1 /\ attempt' = 2
      /\ flags = project.flags /\ project.command = "up-all"
      /\ flags' = [flags EXCEPT !.codes = @ \cup HintedCodes]
      /\ pc' = [i \in Instances |-> "connect"] /\ failed' = {}
      /\ schema' = schema /\ log' = log /\ mem' = mem /\ mail' = mail
  BY DEF RunAgain, Core, FlagsFit, HintedCodes
<1>2. /\ ran' = ran /\ lost' = lost /\ stuck' = stuck
      /\ reached' = reached /\ kept' = kept /\ hints' = hints
  BY DEF RunAgain, history
<1>3. /\ Files' = Files /\ Instances' = Instances /\ N' = N
      /\ \A n : File(n)' = File(n)
  BY <1>1 DEF Files, Instances, N, File
<1>4. HintedCodes' = HintedCodes
  BY <1>2, <1>3 DEF HintedCodes
<1>5. FlagsFit'
  BY <1>1, <1>4 DEF FlagsFit
<1>6. AllowsMore(flags, flags')
  <2>1. flags \in ReleaseFlags
    BY <1>1, ProjectFacts DEF Core
  <2> HIDE DEF HintedCodes
  <2> QED  BY <1>1, <2>1 DEF AllowsMore, ReleaseFlags
<1> QED  BY <1>1, <1>2, <1>3, <1>5, <1>6

LEMMA CoreMove ==
  ASSUME Core, NEW i \in Instances, Move(i)
  PROVE  Core'
<1>0. /\ project' = project /\ flags' = flags /\ attempt' = attempt
      /\ Instances' = Instances /\ OthersKept(i) /\ TypeOK'
  BY LocalKept DEF Core
<1>1. FlagsFit'
  <2>1. CASE attempt = 1
    BY <1>0, <2>1 DEF FlagsFit, Core
  <2>2. CASE attempt # 1
    <3>1. HintedCodes' = HintedCodes
      BY <1>0, <2>2, HintsKept DEF HintedCodes
    <3> QED  BY <1>0, <2>2, <3>1 DEF FlagsFit, Core
  <2> QED  BY <2>1, <2>2
<1>2. ASSUME NEW j \in Instances
      PROVE  StagesFit(j)'
  <2>1. CASE j = i
    BY <2>1, StagesFitMove DEF Core
  <2>2. CASE j # i
    <3>1. pc'[j] = pc[j]
      BY <1>0, <2>2 DEF OthersKept
    <3> QED  BY <1>0, <3>1 DEF StagesFit, Core
  <2> QED  BY <2>1, <2>2
<1> QED  BY <1>0, <1>1, <1>2 DEF Core

LEMMA CoreAgain ==
  ASSUME Core, RunAgain
  PROVE  Core'
<1>1. TypeOK' /\ FlagsFit'
  BY RunAgainType, RunAgainFacts DEF Core
<1>2. Instances' = Instances /\ pc' = [i \in Instances |-> "connect"]
  BY RunAgainFacts
<1>3. \A i \in Instances : StagesFit(i)'
  BY <1>2 DEF StagesFit, TestStages, DownStages
<1> QED  BY <1>1, <1>2, <1>3 DEF Core

LEMMA SameValues ==
  ASSUME UNCHANGED vars
  PROVE  /\ project' = project /\ flags' = flags /\ attempt' = attempt
         /\ pc' = pc /\ schema' = schema /\ log' = log /\ mem' = mem
         /\ failed' = failed /\ mail' = mail /\ faults' = faults
         /\ ran' = ran /\ lost' = lost /\ stuck' = stuck
         /\ reached' = reached /\ kept' = kept /\ hints' = hints
         /\ Instances' = Instances /\ Files' = Files /\ N' = N
         /\ \A n : File(n)' = File(n)
BY DEF vars, Instances, Files, N, File

LEMMA CoreStep ==
  ASSUME Core, [Next]_vars
  PROVE  Core'
<1>1. CASE UNCHANGED vars
  <2>1. TypeOK'
    BY <1>1, TypeStep DEF Core
  <2>2. FlagsFit' /\ \A i \in Instances' : StagesFit(i)'
    BY <1>1, SameValues DEF Core, FlagsFit, HintedCodes, StagesFit
  <2> QED  BY <2>1, <2>2 DEF Core
<1> QED  BY <1>1, CoreAgain, CoreMove, Zenon DEF Next, Move

-----------------------------------------------------------------------------
(* Nothing unreviewed runs: the invariant.                                 *)

ReviewInv ==
  Core /\ \A i \in Instances : Reviewed(i) /\ HistoryReviewed(i)

LEMMA ReviewInit ==
  ASSUME Init
  PROVE  ReviewInv
<1>1. Core
  BY CoreInit
<1>2. \A i \in Instances : Reviewed(i) /\ HistoryReviewed(i)
  BY DEF Init, Reviewed, HistoryReviewed
<1> QED  BY <1>1, <1>2 DEF ReviewInv

LEMMA ReviewStep ==
  ASSUME ReviewInv, [Next]_vars
  PROVE  ReviewInv'
<1>0. Core /\ Core' /\ TypeOK
  BY CoreStep DEF ReviewInv, Core
<1>1. ASSUME NEW i \in Instances, Move(i)
      PROVE  ReviewInv'
  <2>0. /\ project' = project /\ flags' = flags /\ Instances' = Instances
        /\ Files' = Files /\ OthersKept(i)
    BY <1>0, <1>1, LocalKept
  <2>1. ASSUME NEW j \in Instances
        PROVE  Reviewed(j)' /\ HistoryReviewed(j)'
    <3>1. CASE j = i
      BY <1>0, <1>1, <3>1, ReviewedMove DEF ReviewInv
    <3>2. CASE j # i
      <4>1. /\ pc'[j] = pc[j] /\ log'[j] = log[j]
            /\ ran'[j] = ran[j] /\ lost'[j] = lost[j]
        BY <3>2, <2>0 DEF OthersKept
      <4>2. Pending(j)' = Pending(j)
        BY <2>0, <4>1 DEF Pending
      <4>3. Reviewed(j)'
        BY <2>0, <4>1, <4>2, Zenon DEF Reviewed, ReviewInv
      <4>4. HistoryReviewed(j)'
        BY <2>0, <4>1, Zenon DEF HistoryReviewed, ReviewInv
      <4> QED  BY <4>3, <4>4
    <3> QED  BY <3>1, <3>2
  <2> QED  BY <1>0, <2>0, <2>1 DEF ReviewInv
<1>2. CASE RunAgain
  <2>1. /\ project' = project /\ Instances' = Instances
        /\ pc' = [i \in Instances |-> "connect"]
        /\ AllowsMore(flags, flags') /\ ran' = ran /\ lost' = lost
    BY <1>0, <1>2, RunAgainFacts
  <2>2. \A n, t : LossOk(project, flags, n, t) => LossOk(project, flags', n, t)
    BY <2>1, DecidedMonotone
  <2>3. \A n : UseOk(project, flags, n) => UseOk(project, flags', n)
    BY <2>1, DecidedMonotone
  <2>4. \A i \in Instances : HistoryReviewed(i)'
    BY <2>1, <2>2, <2>3, Zenon DEF HistoryReviewed, ReviewInv
  <2>5. \A i \in Instances : Reviewed(i)'
    BY <2>1 DEF Reviewed
  <2> QED  BY <1>0, <2>1, <2>4, <2>5 DEF ReviewInv
<1>3. CASE UNCHANGED vars
  BY <1>0, <1>3, SameValues, Zenon
  DEF ReviewInv, Reviewed, HistoryReviewed, Pending
<1> QED  BY <1>1, <1>2, <1>3, Zenon DEF Next, Move

(* up-all and sync take no table away, empty none and set no global        *)
(* variable unless somebody decided so, with a name where the project      *)
(* wants one, whatever is applied where and wherever the run stops.        *)
THEOREM ReviewedRuns == Spec => []NothingUnreviewedRuns
<1>1. Init => ReviewInv
  BY ReviewInit
<1>2. ReviewInv /\ [Next]_vars => ReviewInv'
  BY ReviewStep
<1>3. ReviewInv => NothingUnreviewedRuns
  BY ReviewedIs, Zenon DEF ReviewInv, HistoryReviewed
<1> QED  BY <1>1, <1>2, <1>3, PTL DEF Spec

-----------------------------------------------------------------------------
(* What is known of the tables across files.                               *)

(* What KnownBefore() computes, file by file.                              *)
LEMMA KnownSteps ==
  ASSUME NEW p
  PROVE  /\ KnownBefore(p, 1) = p.config.existing
         /\ \A n \in Nat \ {0} :
              KnownBefore(p, n + 1)
                = LET script == UpOrAll(p.files[n])
                  IN  (KnownBefore(p, n)
                          \ (Dropped(script) \cup RenamedAway(script)))
                         \cup Created(script)
<1> DEFINE start == p.config.existing
           Step(S, k) == LET script == UpOrAll(p.files[k - 1])
                         IN  (S \ (Dropped(script) \cup RenamedAway(script)))
                               \cup Created(script)
           Body(g, m) ==
             [k \in 1..m |-> IF k = 1 THEN start ELSE Step(g[k - 1], k)]
           Graph(g, m) == g = Body(g, m)
           Pos == Nat \ {0}
<1>0. ASSUME NEW m
      PROVE  KnownBefore(p, m) = (CHOOSE g : Graph(g, m))[m]
  BY DEF KnownBefore
<1> HIDE DEF start, Step
<1>1. ASSUME NEW g, NEW m \in Pos, Graph(g, m)
      PROVE  /\ g[1] = start
             /\ \A k \in 1..m : k # 1 => g[k] = Step(g[k - 1], k)
  BY <1>1
<1>2. ASSUME NEW g, NEW h, NEW m \in Pos, NEW l \in Pos,
             Graph(g, m), Graph(h, l)
      PROVE  \A k \in Pos : k <= m /\ k <= l => g[k] = h[k]
  <2> DEFINE Bad == {k \in Pos : k <= m /\ k <= l /\ g[k] # h[k]}
  <2>0. /\ g[1] = start /\ h[1] = start
        /\ \A k \in 1..m : k # 1 => g[k] = Step(g[k - 1], k)
        /\ \A k \in 1..l : k # 1 => h[k] = Step(h[k - 1], k)
    BY <1>1, <1>2
  <2>1. SUFFICES ASSUME Bad # {} PROVE FALSE
    OBVIOUS
  <2>2. PICK x \in Bad : \A y \in Bad : x <= y
    BY <2>1, NatMinimum
  <2>3. x # 1
    BY <2>0, <2>2
  <2>4. x - 1 \in Pos /\ x \in 1..m /\ x \in 1..l /\ ~(x <= x - 1)
    BY <2>2, <2>3
  <2>5. g[x - 1] = h[x - 1]
    <3>1. x - 1 \in Pos /\ x - 1 <= m /\ x - 1 <= l
      BY <2>4
    <3>2. x - 1 \notin Bad
      <4> HIDE DEF Bad
      <4> QED  BY <2>2, <2>4
    <3> QED  BY <3>1, <3>2
  <2>6. g[x] = Step(g[x - 1], x) /\ h[x] = Step(h[x - 1], x)
    BY <2>0, <2>3, <2>4
  <2> QED  BY <2>2, <2>5, <2>6
<1>3. \A m \in Pos : \E g : Graph(g, m)
  <2> DEFINE Bad == {m \in Pos : ~ \E g : Graph(g, m)}
  <2>1. SUFFICES ASSUME Bad # {} PROVE FALSE
    OBVIOUS
  <2>2. PICK x \in Bad : \A y \in Bad : x <= y
    BY <2>1, NatMinimum
  <2>3. CASE x = 1
    <3>1. Graph([k \in 1..1 |-> start], 1)
      OBVIOUS
    <3> QED  BY <2>2, <2>3, <3>1
  <2>4. CASE x # 1
    <3>1. x - 1 \in Pos /\ x - 1 \notin Bad
      <4>1. x \in Pos
        BY <2>2
      <4>2. x - 1 \in Pos /\ ~(x <= x - 1)
        BY <4>1, <2>4
      <4> HIDE DEF Bad
      <4> QED  BY <4>2, <2>2
    <3>2. PICK g : Graph(g, x - 1)
      BY <3>1
    <3> DEFINE h == [k \in 1..x |-> IF k < x THEN g[k] ELSE Step(g[x - 1], x)]
    <3>3. /\ g[1] = start
          /\ \A k \in 1..x - 1 : k # 1 => g[k] = Step(g[k - 1], k)
      BY <3>1, <3>2, <1>1
    <3>4. ASSUME NEW k \in 1..x
          PROVE  h[k] = IF k = 1 THEN start ELSE Step(h[k - 1], k)
      <4>1. CASE k = 1  BY <4>1, <3>3, <2>4, <2>2
      <4>2. CASE k # 1 /\ k < x
        <5>1. k - 1 \in 1..x /\ k - 1 < x /\ k \in 1..x - 1
          BY <4>2, <2>2
        <5> QED  BY <4>2, <3>3, <5>1
      <4>3. CASE k = x
        <5>1. k - 1 \in 1..x /\ k - 1 < x
          BY <4>3, <2>4, <2>2
        <5> QED  BY <4>3, <2>4, <5>1
      <4> QED  BY <4>1, <4>2, <4>3, <2>2
    <3>5. Graph(h, x)
      BY <3>4
    <3> QED  BY <3>5, <2>2
  <2> QED  BY <2>3, <2>4
<1>4. ASSUME NEW m \in Pos
      PROVE  \E g : Graph(g, m) /\ KnownBefore(p, m) = g[m]
  <2>1. Graph(CHOOSE g : Graph(g, m), m)
    BY <1>3
  <2> QED  BY <1>0, <2>1
<1>5. KnownBefore(p, 1) = start
  <2>0. 1 \in Pos
    OBVIOUS
  <2>1. PICK g : Graph(g, 1) /\ KnownBefore(p, 1) = g[1]
    <3> HIDE DEF Pos
    <3> QED  BY <1>4, <2>0
  <2> QED  BY <2>0, <2>1, <1>1
<1>6. ASSUME NEW n \in Pos
      PROVE  KnownBefore(p, n + 1) = Step(KnownBefore(p, n), n + 1)
  <2>1. PICK g : Graph(g, n) /\ KnownBefore(p, n) = g[n]
    BY <1>4
  <2>2. /\ n + 1 \in Pos /\ n <= n + 1 /\ n + 1 \in 1..n + 1
        /\ n + 1 # 1 /\ (n + 1) - 1 = n
    OBVIOUS
  <2>3. PICK h : Graph(h, n + 1) /\ KnownBefore(p, n + 1) = h[n + 1]
    BY <1>4, <2>2
  <2>4. h[n + 1] = Step(h[n], n + 1)
    BY <2>2, <2>3, <1>1
  <2>5. g[n] = h[n]
    BY <1>2, <2>1, <2>2, <2>3, SMTT(30)
  <2> QED  BY <2>1, <2>3, <2>4, <2>5
<1>7. ASSUME NEW n \in Pos, NEW S
      PROVE  Step(S, n + 1) = LET script == UpOrAll(p.files[n])
                              IN  (S \ (Dropped(script) \cup RenamedAway(script)))
                                    \cup Created(script)
  <2>1. (n + 1) - 1 = n
    OBVIOUS
  <2> QED  BY <2>1 DEF Step
<1> QED  BY <1>5, <1>6, <1>7, Zenon DEF start

(* What AvailableBefore() computes, file by file.                          *)
LEMMA AvailableSteps ==
  ASSUME NEW p
  PROVE  /\ AvailableBefore(p, 1) = p.config.existing
         /\ \A n \in Nat \ {0} :
              AvailableBefore(p, n + 1)
                = LET script == UpOrAll(p.files[n])
                  IN  (AvailableBefore(p, n) \cup Created(script))
                        \ (Dropped(script) \cup RenamedAway(script))
<1> DEFINE start == p.config.existing
           Step(S, k) == LET script == UpOrAll(p.files[k - 1])
                         IN  (S \cup Created(script))
                               \ (Dropped(script) \cup RenamedAway(script))
           Body(g, m) ==
             [k \in 1..m |-> IF k = 1 THEN start ELSE Step(g[k - 1], k)]
           Graph(g, m) == g = Body(g, m)
           Pos == Nat \ {0}
<1>0. ASSUME NEW m
      PROVE  AvailableBefore(p, m) = (CHOOSE g : Graph(g, m))[m]
  BY DEF AvailableBefore
<1> HIDE DEF start, Step
<1>1. ASSUME NEW g, NEW m \in Pos, Graph(g, m)
      PROVE  /\ g[1] = start
             /\ \A k \in 1..m : k # 1 => g[k] = Step(g[k - 1], k)
  BY <1>1
<1>2. ASSUME NEW g, NEW h, NEW m \in Pos, NEW l \in Pos,
             Graph(g, m), Graph(h, l)
      PROVE  \A k \in Pos : k <= m /\ k <= l => g[k] = h[k]
  <2> DEFINE Bad == {k \in Pos : k <= m /\ k <= l /\ g[k] # h[k]}
  <2>0. /\ g[1] = start /\ h[1] = start
        /\ \A k \in 1..m : k # 1 => g[k] = Step(g[k - 1], k)
        /\ \A k \in 1..l : k # 1 => h[k] = Step(h[k - 1], k)
    BY <1>1, <1>2
  <2>1. SUFFICES ASSUME Bad # {} PROVE FALSE
    OBVIOUS
  <2>2. PICK x \in Bad : \A y \in Bad : x <= y
    BY <2>1, NatMinimum
  <2>3. x # 1
    BY <2>0, <2>2
  <2>4. x - 1 \in Pos /\ x \in 1..m /\ x \in 1..l /\ ~(x <= x - 1)
    BY <2>2, <2>3
  <2>5. g[x - 1] = h[x - 1]
    <3>1. x - 1 \in Pos /\ x - 1 <= m /\ x - 1 <= l
      BY <2>4
    <3>2. x - 1 \notin Bad
      <4> HIDE DEF Bad
      <4> QED  BY <2>2, <2>4
    <3> QED  BY <3>1, <3>2
  <2>6. g[x] = Step(g[x - 1], x) /\ h[x] = Step(h[x - 1], x)
    BY <2>0, <2>3, <2>4
  <2> QED  BY <2>2, <2>5, <2>6
<1>3. \A m \in Pos : \E g : Graph(g, m)
  <2> DEFINE Bad == {m \in Pos : ~ \E g : Graph(g, m)}
  <2>1. SUFFICES ASSUME Bad # {} PROVE FALSE
    OBVIOUS
  <2>2. PICK x \in Bad : \A y \in Bad : x <= y
    BY <2>1, NatMinimum
  <2>3. CASE x = 1
    <3>1. Graph([k \in 1..1 |-> start], 1)
      OBVIOUS
    <3> QED  BY <2>2, <2>3, <3>1
  <2>4. CASE x # 1
    <3>1. x - 1 \in Pos /\ x - 1 \notin Bad
      <4>1. x \in Pos
        BY <2>2
      <4>2. x - 1 \in Pos /\ ~(x <= x - 1)
        BY <4>1, <2>4
      <4> HIDE DEF Bad
      <4> QED  BY <4>2, <2>2
    <3>2. PICK g : Graph(g, x - 1)
      BY <3>1
    <3> DEFINE h == [k \in 1..x |-> IF k < x THEN g[k] ELSE Step(g[x - 1], x)]
    <3>3. /\ g[1] = start
          /\ \A k \in 1..x - 1 : k # 1 => g[k] = Step(g[k - 1], k)
      BY <3>1, <3>2, <1>1
    <3>4. ASSUME NEW k \in 1..x
          PROVE  h[k] = IF k = 1 THEN start ELSE Step(h[k - 1], k)
      <4>1. CASE k = 1  BY <4>1, <3>3, <2>4, <2>2
      <4>2. CASE k # 1 /\ k < x
        <5>1. k - 1 \in 1..x /\ k - 1 < x /\ k \in 1..x - 1
          BY <4>2, <2>2
        <5> QED  BY <4>2, <3>3, <5>1
      <4>3. CASE k = x
        <5>1. k - 1 \in 1..x /\ k - 1 < x
          BY <4>3, <2>4, <2>2
        <5> QED  BY <4>3, <2>4, <5>1
      <4> QED  BY <4>1, <4>2, <4>3, <2>2
    <3>5. Graph(h, x)
      BY <3>4
    <3> QED  BY <3>5, <2>2
  <2> QED  BY <2>3, <2>4
<1>4. ASSUME NEW m \in Pos
      PROVE  \E g : Graph(g, m) /\ AvailableBefore(p, m) = g[m]
  <2>1. Graph(CHOOSE g : Graph(g, m), m)
    BY <1>3
  <2> QED  BY <1>0, <2>1
<1>5. AvailableBefore(p, 1) = start
  <2>0. 1 \in Pos
    OBVIOUS
  <2>1. PICK g : Graph(g, 1) /\ AvailableBefore(p, 1) = g[1]
    <3> HIDE DEF Pos
    <3> QED  BY <1>4, <2>0
  <2> QED  BY <2>0, <2>1, <1>1
<1>6. ASSUME NEW n \in Pos
      PROVE  AvailableBefore(p, n + 1) = Step(AvailableBefore(p, n), n + 1)
  <2>1. PICK g : Graph(g, n) /\ AvailableBefore(p, n) = g[n]
    BY <1>4
  <2>2. /\ n + 1 \in Pos /\ n <= n + 1 /\ n + 1 \in 1..n + 1
        /\ n + 1 # 1 /\ (n + 1) - 1 = n
    OBVIOUS
  <2>3. PICK h : Graph(h, n + 1) /\ AvailableBefore(p, n + 1) = h[n + 1]
    BY <1>4, <2>2
  <2>4. h[n + 1] = Step(h[n], n + 1)
    BY <2>2, <2>3, <1>1
  <2>5. g[n] = h[n]
    BY <1>2, <2>1, <2>2, <2>3, SMTT(30)
  <2> QED  BY <2>1, <2>3, <2>4, <2>5
<1>7. ASSUME NEW n \in Pos, NEW S
      PROVE  Step(S, n + 1) = LET script == UpOrAll(p.files[n])
                              IN  (S \cup Created(script))
                                    \ (Dropped(script) \cup RenamedAway(script))
  <2>1. (n + 1) - 1 = n
    OBVIOUS
  <2> QED  BY <2>1 DEF Step
<1> QED  BY <1>5, <1>6, <1>7, Zenon DEF start

-----------------------------------------------------------------------------
(* The verdict is sound: what is known across files is there.              *)

OrderlyIn(p) ==
  /\ p.config.existing \subseteq p.base
  /\ \A n \in 1..Len(p.files) : SimpleIn(p, n) /\ p.files[n].up # <<>>

StrictIn(p, fl) ==
  /\ OrderlyIn(p)
  /\ \A n \in 1..Len(p.files) :
       /\ ~DecidedIn(p, fl, n, "ORPHAN_DROP_UP")
       /\ ~DecidedIn(p, fl, n, "FK_UNRESOLVED_REFERENCE")

(* The tables that the two checks take to be there before file n.          *)
KnownHolds(p, n, db) ==
  KnownBefore(p, n) \subseteq db.tables /\ AvailableBefore(p, n) \subseteq db.tables

VerdictOk(p, fl, n, s, tables) ==
  StrictIn(p, fl) =>
    /\ s.op = "drop" => s.table \in tables \/ s.table \in Created(p.files[n].down)
    /\ s.op = "child" => s.other \in tables \/ s.other = s.table

(* A file whose Up completes leaves what it creates and what it does not   *)
(* take away, if order does not matter in it.                              *)
LEMMA SectionLeaves ==
  ASSUME NEW p, NEW n, SimpleIn(p, n), NEW up, up = p.files[n].up,
         up \in Seq(Statements), NEW db \in Schemas, Completes(db, up), NEW t
  PROVE  /\ t \in Created(up) => t \in After(db, up, Len(up)).tables
         /\ t \in db.tables /\ t \notin Dropped(up) \cup RenamedAway(up) =>
              t \in After(db, up, Len(up)).tables
<1>0. /\ Reach(db, up) = Len(up) /\ Len(up) \in Nat
      /\ \A k \in 1..Len(up) : ~Refuses(After(db, up, k - 1), up[k])
  BY ReachFacts DEF Completes
<1>1. ASSUME t \in Created(up)
      PROVE  t \in After(db, up, Len(up)).tables
  <2>1. PICK x \in In(up) : Gives(x, t)
    BY <1>1 DEF Created, Gives
  <2>2. PICK l \in 1..Len(up) : x = up[l]
    BY <2>1 DEF In
  <2>3. /\ up[l] \in Statements /\ After(db, up, l - 1) \in Schemas
        /\ After(db, up, l) = Effect(After(db, up, l - 1), up[l])
    BY SectionStep
  <2>4. t \in After(db, up, l).tables
    BY <1>0, <2>1, <2>2, <2>3, OneStatement
  <2>5. ASSUME NEW k \in l + 1..Len(up), Takes(up[k], t)
        PROVE  FALSE
    <3>1. k \in DOMAIN up /\ l \in DOMAIN up /\ k # l
      BY <1>0, <2>5
    <3>2. t \in Mentions(up[k])
      BY <2>5 DEF Takes, Mentions
    <3>3. t \in Mentions(up[l])
      BY <2>1, <2>2 DEF Gives, Creates, Mentions
    <3> QED  BY <3>1, <3>2, <3>3 DEF SimpleIn
  <2>6. l \in 0..Len(up) /\ Len(up) \in l..Len(up)
    BY <1>0
  <2> QED  BY <2>4, <2>5, <2>6, Stays
<1>2. ASSUME t \in db.tables, t \notin Dropped(up) \cup RenamedAway(up)
      PROVE  t \in After(db, up, Len(up)).tables
  <2>1. ASSUME NEW k \in 1..Len(up), Takes(up[k], t)
        PROVE  FALSE
    <3>1. up[k] \in In(up)
      BY DEF In
    <3> QED  BY <1>2, <2>1, <3>1 DEF Takes, Dropped, RenamedAway
  <2>2. Len(up) \in 0..Len(up)
    BY <1>0
  <2> QED  BY <1>2, <2>1, <2>2, GoneWasTaken
<1> QED  BY <1>1, <1>2

LEMMA KnownStep ==
  ASSUME NEW p, IsProject(p), OrderlyIn(p), NEW n \in 1..Len(p.files),
         p.files[n].marker, NEW db \in Schemas,
         Completes(db, p.files[n].up), KnownHolds(p, n, db)
  PROVE  KnownHolds(p, n + 1,
                    After(db, p.files[n].up, Len(p.files[n].up)))
<1> DEFINE up == p.files[n].up
           there == After(db, up, Len(up)).tables
           gone == Dropped(up) \cup RenamedAway(up)
<1>1. UpOrAll(p.files[n]) = up
  BY DEF UpOrAll, Up, OrderlyIn
<1>2. up \in Seq(Statements) /\ n \in Nat \ {0} /\ SimpleIn(p, n)
  BY FilesOf DEF OrderlyIn
<1>3. \A t : /\ t \in Created(up) => t \in there
             /\ t \in db.tables /\ t \notin gone => t \in there
  <2> HIDE DEF up
  <2> QED  BY <1>2, SectionLeaves DEF up
<1>4. KnownBefore(p, n + 1) = (KnownBefore(p, n) \ gone) \cup Created(up)
  BY <1>1, <1>2, KnownSteps
<1>5. AvailableBefore(p, n + 1)
        = (AvailableBefore(p, n) \cup Created(up)) \ gone
  BY <1>1, <1>2, AvailableSteps
<1> HIDE DEF up, there, gone
<1>6. /\ KnownBefore(p, n + 1) \subseteq there
      /\ AvailableBefore(p, n + 1) \subseteq there
  BY <1>3, <1>4, <1>5 DEF KnownHolds
<1> QED  BY <1>6 DEF KnownHolds, there, up

(* Before the first file that is not applied, on an instance where the     *)
(* others completed.                                                       *)
LEMMA KnownAtStart ==
  ASSUME NEW p, IsProject(p), OrderlyIn(p), NEW m \in 0..Len(p.files),
         \A n \in 1..m : /\ p.files[n].marker
                         /\ Completes(Applied(p, n - 1), p.files[n].up)
  PROVE  KnownHolds(p, m + 1, Applied(p, m))
<1> DEFINE Bad == {k \in 0..m : ~KnownHolds(p, k + 1, Applied(p, k))}
<1>0. Len(p.files) \in Nat /\ m \in 0..m
  BY FilesOf
<1>1. SUFFICES ASSUME Bad # {} PROVE FALSE
  BY <1>0
<1>2. PICK x \in Bad : \A y \in Bad : x <= y
  <2>1. Bad \subseteq Nat
    BY <1>0
  <2> HIDE DEF Bad
  <2> QED  BY <1>1, <2>1, NatMinimum
<1>3. x # 0
  <2>1. KnownBefore(p, 1) = p.config.existing
        /\ AvailableBefore(p, 1) = p.config.existing
    BY KnownSteps, AvailableSteps
  <2>2. Applied(p, 0).tables = p.base
    BY AppliedSteps DEF Empty
  <2>3. KnownHolds(p, 0 + 1, Applied(p, 0))
    BY <2>1, <2>2 DEF KnownHolds, OrderlyIn
  <2> QED  BY <1>2, <2>3
<1>4. /\ x - 1 \in 0..m /\ x \in 1..m /\ x \in 1..Len(p.files) /\ x - 1 \in Nat
      /\ (x - 1) + 1 = x /\ ~(x <= x - 1) /\ x - 1 \in 0..Len(p.files)
  BY <1>0, <1>2, <1>3
<1>5. KnownHolds(p, x, Applied(p, x - 1))
  <2>1. x - 1 \notin Bad
    <3> HIDE DEF Bad
    <3> QED  BY <1>2, <1>4
  <2> QED  BY <1>4, <2>1
<1>6. /\ p.files[x].marker /\ Completes(Applied(p, x - 1), p.files[x].up)
      /\ Applied(p, x - 1) \in Schemas
  BY <1>4, AppliedType
<1>7. KnownHolds(p, x + 1, After(Applied(p, x - 1), p.files[x].up,
                                 Len(p.files[x].up)))
  BY <1>4, <1>5, <1>6, KnownStep
<1>8. Applied(p, (x - 1) + 1)
        = After(Applied(p, x - 1), p.files[(x - 1) + 1].up,
                Len(p.files[(x - 1) + 1].up))
  BY <1>4, AppliedSteps
<1>9. KnownHolds(p, x + 1, Applied(p, x))
  BY <1>4, <1>7, <1>8
<1> QED  BY <1>2, <1>9

(* A statement of a file in which order does not matter neither takes nor  *)
(* gives what another one mentions.                                        *)
LEMMA NotTaken ==
  ASSUME NEW p, NEW n, SimpleIn(p, n), NEW up, up = p.files[n].up,
         NEW l \in DOMAIN up, NEW k \in DOMAIN up, l # k,
         NEW t, t \in Mentions(up[k])
  PROVE  ~Takes(up[l], t) /\ ~Gives(up[l], t)
<1>1. t \notin Mentions(up[l])
  BY DEF SimpleIn
<1>2. Takes(up[l], t) \/ Gives(up[l], t) => t \in Mentions(up[l])
  BY DEF Takes, Gives, Creates, Mentions
<1> QED  BY <1>1, <1>2

(* What the server refuses of a file that passes: nothing for a table that *)
(* earlier files must have left.                                           *)
LEMMA VerdictReviewed ==
  ASSUME NEW p, IsProject(p), NEW fl, NEW n \in 1..Len(p.files),
         Passes(p, fl, n), p.files[n].marker, NEW db \in Schemas,
         OrderlyIn(p) => KnownHolds(p, n, db), NEW up, up = p.files[n].up,
         NEW r, r = Reach(db, up), r < Len(up)
  PROVE  VerdictOk(p, fl, n, up[r + 1], After(db, up, r).tables)
<1> DEFINE s == up[r + 1]
           there == After(db, up, r).tables
<1>0. /\ up \in Seq(Statements) /\ Len(up) \in Nat /\ r \in 0..Len(up)
      /\ r + 1 \in 1..Len(up) /\ r + 1 \in DOMAIN up /\ up # <<>>
  <2>1. up \in Seq(Statements)
    BY FilesOf
  <2>2. r \in 0..Len(up) /\ Len(up) \in Nat
    BY <2>1, ReachFacts
  <2> QED  BY <2>1, <2>2
<1>1. SUFFICES ASSUME StrictIn(p, fl)
      PROVE  /\ s.op = "drop" => \/ s.table \in there
                                 \/ s.table \in Created(p.files[n].down)
             /\ s.op = "child" => s.other \in there \/ s.other = s.table
  BY Zenon DEF VerdictOk
<1>2. /\ SimpleIn(p, n) /\ KnownHolds(p, n, db)
      /\ ~DecidedIn(p, fl, n, "ORPHAN_DROP_UP")
      /\ ~DecidedIn(p, fl, n, "FK_UNRESOLVED_REFERENCE")
  BY <1>1, Zenon DEF StrictIn, OrderlyIn
<1>3. Up(p.files[n]) = up /\ UpOrAll(p.files[n]) = up /\ s \in In(up)
  BY <1>0, ScriptIs
<1>4. ASSUME NEW t \in db.tables, t \in Mentions(s)
      PROVE  t \in there
  <2>1. ASSUME NEW l \in 1..r, Takes(up[l], t)
        PROVE  FALSE
    <3>1. l \in DOMAIN up /\ l # r + 1
      BY <1>0, <2>1
    <3> HIDE DEF s
    <3> QED  BY <1>0, <1>2, <1>4, <2>1, <3>1, NotTaken DEF s
  <2> QED  BY <1>0, <2>1, GoneWasTaken
<1>5. ASSUME s.op = "drop", s.table \notin Created(p.files[n].down)
      PROVE  s.table \in there
  <2> DEFINE t == s.table
  <2>1. t \in Mentions(s)
    BY <1>5 DEF Mentions
  <2>2. t \in Dropped(up)
    BY <1>3, <1>5 DEF Dropped
  <2>3. t \notin Created(up)
    <3>1. SUFFICES ASSUME NEW x \in In(up), Gives(x, t) PROVE FALSE
      BY DEF Created, Gives
    <3>2. PICK l \in DOMAIN up : x = up[l]
      BY DEF In
    <3>3. ~Gives(s, t)
      BY <1>5 DEF Gives, Creates
    <3> HIDE DEF t
    <3> QED  BY <1>0, <1>2, <2>1, <3>1, <3>2, <3>3, NotTaken
  <2>4. t \in KnownBefore(p, n)
    <3> HIDE DEF t
    <3> QED  BY <1>2, <1>3, <1>5, <2>2, <2>3, DropDecided DEF t
  <2> QED  BY <1>2, <1>4, <2>1, <2>4 DEF KnownHolds
<1>6. ASSUME s.op = "child", s.other # s.table
      PROVE  s.other \in there
  <2> DEFINE t == s.other
             gone == Dropped(up) \cup RenamedAway(up)
  <2>1. t \in Mentions(s)
    BY <1>6 DEF Mentions
  <2>2. t \in References(up)
    BY <1>3, <1>6 DEF References
  <2>3. t \notin Created(up)
    <3>1. SUFFICES ASSUME NEW x \in In(up), Gives(x, t) PROVE FALSE
      BY DEF Created, Gives
    <3>2. PICK l \in DOMAIN up : x = up[l]
      BY DEF In
    <3>3. ~Gives(s, t)
      BY <1>6 DEF Gives, Creates
    <3> HIDE DEF t
    <3> QED  BY <1>0, <1>2, <2>1, <3>1, <3>2, <3>3, NotTaken
  <2>4. t \in (AvailableBefore(p, n) \ gone) \cup Created(up)
    <3> HIDE DEF t
    <3> QED  BY <1>2, <1>3, <2>2, KeyDecided
  <2> QED  BY <1>2, <1>4, <2>1, <2>3, <2>4 DEF KnownHolds
<1> QED  BY <1>5, <1>6

-----------------------------------------------------------------------------
(* What the server refuses of files that pass: the invariant.              *)

LEMMA VerdictIs ==
  SoundVerdict <=>
    \A i \in Instances : \A e \in stuck[i] :
      VerdictOk(project, flags, e[1], e[2], schema[i].tables)
<1>1. Strict <=> StrictIn(project, flags)
  BY ReviewedIs, Zenon DEF Strict, StrictIn, OrderlyIn, Files, N, File
<1> QED  BY <1>1, Zenon DEF SoundVerdict, VerdictOk, File

LEMMA DoneIsDone ==
  ASSUME NEW i \in Instances, Move(i)
  PROVE  pc[i] # "done"
<1>1. CASE SanityFile(i)
  BY <1>1, SanityFileBranches
<1>2. CASE UpFile(i)
  BY <1>2 DEF UpFile, UpStages
<1>3. CASE DownFile(i)
  BY <1>3 DEF DownFile, DownStages
<1> QED
  BY <1>1, <1>2, <1>3 DEF Move, Connect, QueryFails, Judge, Validate, Gate,
     NothingIsAnError, LookBefore, Report, UpRejects, UpEnd, DownEnd,
     Snapshot, SanityEnd, UpStages, DownStages

(* Outside the tests, only up() changes a schema and a changelog.          *)
LEMMA PlainMoves ==
  ASSUME TypeOK, NEW i \in Instances, StagesFit(i), Move(i), ~UpFile(i),
         project.command \notin Tests
  PROVE  schema' = schema /\ log' = log
<1>1. pc[i] \notin TestStages
  BY DEF StagesFit
<1>2. ~DownFile(i) /\ ~Snapshot(i)
  BY <1>1 DEF DownFile, Snapshot, TestStages
<1>3. ~SanityFile(i)
  BY <1>1, SanityFileBranches DEF TestStages
<1>4. UpEnd(i) => schema' = schema /\ log' = log
  BY DEF UpEnd
<1> QED  BY <1>2, <1>3, <1>4, StageLocal, Zenon DEF Move

(* What was begun is complete, unless the run has stopped there.           *)
Clean(i) ==
  /\ pc[i] # "done" => ran[i] \subseteq log[i]
  /\ project.command \in Tests => ran[i] = {}

(* Then the schema has the tables that the next file may count on.         *)
Behind(i) ==
  OrderlyIn(project) /\ project.command \notin Tests /\ ran[i] \subseteq log[i]
    => \A n \in 1..N + 1 :
         log[i] = 1..(n - 1) => KnownHolds(project, n, schema[i])

StuckOk(i) ==
  \A e \in stuck[i] :
    /\ pc[i] = "done" /\ ~ (ran[i] \subseteq log[i])
    /\ VerdictOk(project, flags, e[1], e[2], schema[i].tables)

Verdicts(i) == Clean(i) /\ Behind(i) /\ StuckOk(i)

LEMMA VerdictsUp ==
  ASSUME Core, NEW i \in Instances, Reviewed(i), Verdicts(i), UpFile(i),
         pc[i] = "up"
  PROVE  Verdicts(i)'
<1> DEFINE n == First(Pending(i))
           up == File(n).up
           r == Reach(schema[i], up)
<1>0. TypeOK /\ Move(i)
  BY DEF Core, Move
<1>1. /\ project' = project /\ flags' = flags /\ N' = N
      /\ pc \in [Instances -> Stages] /\ log \in [Instances -> Changelogs]
  BY <1>0, LocalKept
<1>2. project.command \notin Tests
  BY DEF Core, StagesFit, Tests
<1>3. /\ n \in Files /\ n \in Pending(i) /\ n \notin log[i]
      /\ log[i] = 1..(n - 1) /\ n \in Nat /\ N \in Nat
  <2>1. Pending(i) # {}
    BY DEF UpFile
  <2>2. n \in Files /\ n \in Pending(i) /\ log[i] = 1..(n - 1)
    BY <1>0, <2>1, HereFacts
  <2>3. N \in Nat
    BY <1>0, ProjectFacts
  <2> HIDE DEF n
  <2> QED  BY <2>2, <2>3 DEF Pending, Files
<1>4. /\ IsProject(project) /\ n \in 1..Len(project.files)
      /\ Passes(project, flags, n) /\ schema[i] \in Schemas
      /\ up = project.files[n].up /\ up \in Seq(Statements)
  <2> HIDE DEF n
  <2> QED  BY <1>0, <1>3, FilesOf
           DEF IsProject, TypeOK, Reviewed, Files, N, File
<1>5. /\ project.files[n].marker
      /\ \E k \in 0..r : Remember(i, n, k)
      /\ \/ /\ pc' = pc /\ stuck' = stuck
            /\ log' = [log EXCEPT ![i] = @ \cup {n}]
            /\ Completes(schema[i], up)
            /\ schema'[i] = After(schema[i], up, Len(up))
         \/ /\ Stops(i) /\ log' = log
            /\ \/ stuck' = stuck
               \/ /\ r < Len(up) /\ schema'[i] = After(schema[i], up, r)
                  /\ stuck' = [stuck EXCEPT ![i] = {<<n, up[r + 1]>>}]
  BY <1>0, UpFileFacts, Zenon DEF File
<1>6. ran'[i] = ran[i] \cup {n}
  <2>1. PICK k \in 0..r : Remember(i, n, k)
    BY <1>5
  <2>2. ran' = [ran EXCEPT ![i] = @ \cup {n}]
    BY <2>1, Zenon DEF Remember
  <2> HIDE DEF n
  <2> QED  BY <1>0, <2>2 DEF TypeOK
<1>7. ran[i] \subseteq log[i] /\ stuck[i] = {}
  BY DEF Verdicts, Clean, StuckOk
<1>8. OrderlyIn(project) => KnownHolds(project, n, schema[i])
  <2>1. n \in 1..N + 1
    BY <1>3 DEF Files
  <2> HIDE DEF n
  <2> QED  BY <1>2, <1>3, <1>7, <2>1, Zenon DEF Verdicts, Behind
<1> HIDE DEF n, up
<1>9. CASE /\ pc' = pc /\ stuck' = stuck
           /\ log' = [log EXCEPT ![i] = @ \cup {n}]
           /\ Completes(schema[i], up)
           /\ schema'[i] = After(schema[i], up, Len(up))
  <2>1. log'[i] = log[i] \cup {n}
    BY <1>1, <1>9
  <2>2. Clean(i)'
    BY <1>1, <1>2, <1>6, <1>7, <2>1 DEF Clean
  <2>3. StuckOk(i)'
    BY <1>7, <1>9 DEF StuckOk
  <2>4. ASSUME OrderlyIn(project), NEW m \in 1..N + 1, log'[i] = 1..(m - 1)
        PROVE  KnownHolds(project, m, schema'[i])
    <3>1. 1..n = 1..(m - 1)
      <4>1. (1..(n - 1)) \cup {n} = 1..n
        BY <1>3 DEF Files
      <4> QED  BY <1>3, <2>1, <2>4, <4>1
    <3>2. m = n + 1
      <4>1. n \in 1..(m - 1)
        BY <1>3, <3>1 DEF Files
      <4>2. m - 1 \in 1..n
        BY <1>3, <3>1, <4>1
      <4> QED  BY <1>3, <4>1, <4>2
    <3>3. KnownHolds(project, n + 1, After(schema[i], up, Len(up)))
      BY <1>4, <1>5, <1>8, <1>9, <2>4, KnownStep
    <3> QED  BY <1>9, <3>2, <3>3
  <2>5. Behind(i)'
    BY <1>1, <2>4, Zenon DEF Behind
  <2> QED  BY <2>2, <2>3, <2>5 DEF Verdicts
<1>10. CASE /\ Stops(i) /\ log' = log
            /\ \/ stuck' = stuck
               \/ /\ r < Len(up) /\ schema'[i] = After(schema[i], up, r)
                  /\ stuck' = [stuck EXCEPT ![i] = {<<n, up[r + 1]>>}]
  <2>1. pc'[i] = "done"
    BY <1>0, <1>10, StopsFacts
  <2>2. ~ (ran'[i] \subseteq log'[i])
    BY <1>3, <1>6, <1>10
  <2>3. Clean(i)'
    BY <1>1, <1>2, <2>1 DEF Clean
  <2>4. Behind(i)'
    BY <2>2 DEF Behind
  <2>5. ASSUME NEW e \in stuck'[i]
        PROVE  VerdictOk(project, flags, e[1], e[2], schema'[i].tables)
    <3>1. /\ r < Len(up) /\ schema'[i] = After(schema[i], up, r)
          /\ e = <<n, up[r + 1]>>
      BY <1>0, <1>7, <1>10, <2>5 DEF TypeOK
    <3>2. VerdictOk(project, flags, n, up[r + 1], After(schema[i], up, r).tables)
      BY <1>4, <1>5, <1>8, <3>1, VerdictReviewed
    <3> QED  BY <3>1, <3>2
  <2>6. StuckOk(i)'
    BY <1>1, <2>1, <2>2, <2>5, Zenon DEF StuckOk
  <2> QED  BY <2>3, <2>4, <2>6 DEF Verdicts
<1> QED  BY <1>5, <1>9, <1>10

LEMMA VerdictsMove ==
  ASSUME Core, NEW i \in Instances, Reviewed(i), Verdicts(i), Move(i)
  PROVE  Verdicts(i)'
<1>0. TypeOK /\ StagesFit(i) /\ pc[i] # "done"
  BY DoneIsDone DEF Core
<1>1. project' = project /\ flags' = flags /\ N' = N
  BY <1>0, LocalKept
<1>2. ran[i] \subseteq log[i] /\ stuck[i] = {}
  BY <1>0 DEF Verdicts, Clean, StuckOk
<1>3. CASE UpFile(i) /\ pc[i] = "up"
  BY <1>3, VerdictsUp
<1>4. CASE project.command \in Tests /\ ~ (UpFile(i) /\ pc[i] = "up")
  <2>1. ran'[i] = ran[i] /\ stuck'[i] = stuck[i]
    <3>1. CASE ~UpFile(i)
      BY <1>0, <3>1, OtherMoves
    <3>2. CASE UpFile(i)
      <4>1. PICK n : n = First(Pending(i))
        OBVIOUS
      <4>2. pc[i] # "up" => stuck' = stuck
        BY <1>0, <3>2, <4>1, UpFileFacts
      <4>3. \E k \in 0..Reach(schema[i], File(n).up) : Remember(i, n, k)
        BY <1>0, <3>2, <4>1, UpFileFacts
      <4>4. ran' = ran
        BY <1>4, <3>2, <4>3 DEF Remember
      <4> QED  BY <1>4, <3>2, <4>2, <4>4
    <3> QED  BY <3>1, <3>2
  <2>2. ran[i] = {}
    BY <1>4 DEF Verdicts, Clean
  <2>3. Clean(i)' /\ Behind(i)' /\ StuckOk(i)'
    BY <1>1, <1>2, <1>4, <2>1, <2>2 DEF Clean, Behind, StuckOk
  <2> QED  BY <2>3 DEF Verdicts
<1>5. CASE project.command \notin Tests /\ ~UpFile(i)
  <2>1. schema' = schema /\ log' = log
    BY <1>0, <1>5, PlainMoves
  <2>2. ran' = ran /\ stuck' = stuck
    BY <1>0, <1>5, OtherMoves
  <2>3. Clean(i)'
    BY <1>1, <1>2, <1>5, <2>1, <2>2 DEF Clean
  <2>4. Behind(i)'
    BY <1>1, <2>1, <2>2, Zenon DEF Verdicts, Behind
  <2>5. StuckOk(i)'
    BY <1>2, <2>2 DEF StuckOk
  <2> QED  BY <2>3, <2>4, <2>5 DEF Verdicts
<1>6. UpFile(i) /\ pc[i] # "up" => project.command \in Tests
  BY <1>0 DEF UpFile, UpStages, StagesFit, TestStages
<1> QED  BY <1>3, <1>4, <1>5, <1>6

VerdictInv == ReviewInv /\ \A i \in Instances : Verdicts(i)

LEMMA VerdictInit ==
  ASSUME Init
  PROVE  VerdictInv
<1>0. ReviewInv /\ TypeOK
  BY ReviewInit DEF ReviewInv, Core
<1>1. ASSUME NEW i \in Instances
      PROVE  Verdicts(i)
  <2>1. ran[i] = {} /\ stuck[i] = {}
    BY <1>1 DEF Init
  <2>2. ASSUME OrderlyIn(project), NEW n \in 1..N + 1, log[i] = 1..(n - 1)
        PROVE  KnownHolds(project, n, schema[i])
    <3> DEFINE m == project.applied[i]
    <3>1. /\ m \in 0..N /\ N \in Nat /\ IsProject(project)
          /\ log[i] = 1..m /\ schema[i] = Applied(project, m)
          /\ \A k \in 1..m :
               /\ File(k).marker
               /\ Completes(Applied(project, k - 1), File(k).up)
      BY <1>0, <1>1, ProjectFacts DEF Init, IsProject
    <3>2. n = m + 1
      <4> HIDE DEF m
      <4>1. 1..m = 1..(n - 1) /\ m \in Nat /\ n - 1 \in Nat
        BY <2>2, <3>1
      <4>2. m # 0 => m \in 1..(n - 1)
        BY <4>1
      <4>3. n - 1 # 0 => n - 1 \in 1..m
        BY <4>1
      <4> QED  BY <2>2, <4>1, <4>2, <4>3
    <3>3. KnownHolds(project, m + 1, Applied(project, m))
      <4> HIDE DEF m
      <4> QED  BY <2>2, <3>1, KnownAtStart DEF N, File
    <3> QED  BY <3>1, <3>2, <3>3
  <2>3. Behind(i)
    BY <2>2, Zenon DEF Behind
  <2> QED  BY <2>1, <2>3 DEF Verdicts, Clean, StuckOk
<1> QED  BY <1>0, <1>1 DEF VerdictInv

LEMMA VerdictStep ==
  ASSUME VerdictInv, [Next]_vars
  PROVE  VerdictInv'
<1>0. ReviewInv' /\ Core /\ TypeOK
  BY ReviewStep DEF VerdictInv, ReviewInv, Core
<1>1. ASSUME NEW i \in Instances, Move(i)
      PROVE  VerdictInv'
  <2>0. /\ project' = project /\ flags' = flags /\ Instances' = Instances
        /\ N' = N /\ OthersKept(i)
    BY <1>0, <1>1, LocalKept
  <2>1. ASSUME NEW j \in Instances
        PROVE  Verdicts(j)'
    <3>1. CASE j = i
      BY <1>0, <1>1, <3>1, VerdictsMove DEF VerdictInv, ReviewInv
    <3>2. CASE j # i
      <4>1. /\ pc'[j] = pc[j] /\ log'[j] = log[j] /\ schema'[j] = schema[j]
            /\ ran'[j] = ran[j] /\ stuck'[j] = stuck[j]
        BY <3>2, <2>0 DEF OthersKept
      <4>2. Verdicts(j)
        BY DEF VerdictInv
      <4> QED  BY <2>0, <4>1, <4>2, Zenon
               DEF Verdicts, Clean, Behind, StuckOk
    <3> QED  BY <3>1, <3>2
  <2> QED  BY <1>0, <2>0, <2>1 DEF VerdictInv
<1>2. CASE RunAgain
  <2>1. /\ project' = project /\ Instances' = Instances /\ N' = N
        /\ schema' = schema /\ log' = log
        /\ ran' = ran /\ stuck' = stuck
    BY <1>0, <1>2, RunAgainFacts
  <2>2. ASSUME NEW i \in Instances
        PROVE  Verdicts(i)'
    <3>1. ran[i] \subseteq log[i] /\ Verdicts(i)
      BY <1>2 DEF RunAgain, VerdictInv
    <3>2. stuck[i] = {}
      BY <3>1 DEF Verdicts, StuckOk
    <3>3. Behind(i)'
      BY <2>1, <3>1, Zenon DEF Verdicts, Behind
    <3> QED  BY <2>1, <3>1, <3>2, <3>3 DEF Verdicts, Clean, StuckOk
  <2> QED  BY <1>0, <2>1, <2>2 DEF VerdictInv
<1>3. CASE UNCHANGED vars
  BY <1>0, <1>3, SameValues, Zenon
  DEF VerdictInv, Verdicts, Clean, Behind, StuckOk
<1> QED  BY <1>1, <1>2, <1>3, Zenon DEF Next, Move

(* What passes the gate is not refused by the server for dropping, or for  *)
(* referencing, a table that is not there, on no instance, whatever was    *)
(* applied there before.                                                   *)
THEOREM VerdictsAreSound == Spec => []SoundVerdict
<1>1. Init => VerdictInv
  BY VerdictInit
<1>2. VerdictInv /\ [Next]_vars => VerdictInv'
  BY VerdictStep
<1>3. VerdictInv => SoundVerdict
  BY VerdictIs, Zenon DEF VerdictInv, Verdicts, StuckOk
<1> QED  BY <1>1, <1>2, <1>3, PTL DEF Spec

-----------------------------------------------------------------------------
(* What the advice of a refusal releases.                                  *)

(* Errors that no --allow releases.                                        *)
Unreleasable ==
  {"FK_REFERENCES_DROPPED_TABLE", "MISSING_UP_MARKER", "MISSING_DOWN"}

Unambiguous(p) == \A rule \in p.config.custom : rule.code \notin Structural

NoErrorRules(p) ==
  \A code \in DOMAIN p.config.rules : p.config.rules[code] # "error"

(* A finding that blocks tells by its kind whether a code releases it.     *)
Sorted(rel, x) ==
  /\ x.kind \in {"error", "forbidden", "dangerous"}
  /\ x.how # "approver-required"
  /\ x.kind # "error" => x.code \notin Structural
  /\ x.kind = "error" => x.code \in Structural
  /\ ~ (x.kind = "error" /\ x.code \in Unreleasable) => x.code \notin rel.codes

LEMMA UnlessShrinks ==
  ASSUME NEW rel, NEW more, rel.codes \subseteq more.codes, NEW by,
         NEW code, NEW allowed, NEW finding, allowed.kind = "warning",
         NEW x, x \in Unless(by \/ code \in more.codes, allowed, finding),
         x.kind # "warning"
  PROVE  /\ x = finding /\ code \notin more.codes
         /\ x \in Unless(by \/ code \in rel.codes, allowed, finding)
BY DEF Unless

(* With more codes there is nothing new, and what blocks is Sorted.        *)
LEMMA FoundShrinks ==
  ASSUME NEW p, Unambiguous(p), NEW n, NEW fl, NEW more, AllowsMore(fl, more),
         NEW x \in Found(p, more, n), x.kind # "warning"
  PROVE  x \in Found(p, fl, n) /\ Sorted(Releases(p, more, n), x)
<1> DEFINE f == p.files[n]
           rel == Releases(p, fl, n)
           mre == Releases(p, more, n)
           known == KnownBefore(p, n)
           config == p.config
<1>1. /\ mre.dangerous = rel.dangerous /\ mre.forbidden = rel.forbidden
      /\ rel.codes \subseteq mre.codes
  BY DEF AllowsMore, Releases
<1>2. \A y : y \in Found(p, fl, n) <=>
        \/ y \in DropsInDown(f, rel) \/ y \in DropsInUp(f, rel, known)
        \/ y \in KeysToDropped(f) \/ y \in ForbiddenStatements(f, rel)
        \/ y \in DangerousStatements(f, rel) \/ y \in MissingSections(f)
        \/ y \in CustomFindings(config, f, rel)
  BY DEF Found
<1>3. \/ x \in DropsInDown(f, mre) \/ x \in DropsInUp(f, mre, known)
      \/ x \in KeysToDropped(f) \/ x \in ForbiddenStatements(f, mre)
      \/ x \in DangerousStatements(f, mre) \/ x \in MissingSections(f)
      \/ x \in CustomFindings(config, f, mre)
  BY DEF Found
<1>4. \A rule \in config.custom : rule.code \notin Structural
  BY DEF Unambiguous
<1> HIDE DEF f, rel, mre, known, config
<1>5. CASE x \in DropsInDown(f, mre)
  <2>1. /\ x = Error("ORPHAN_DROP_DOWN") /\ x.code \notin mre.codes
        /\ x \in DropsInDown(f, rel)
    BY <1>1, <1>5 DEF DropsInDown, Unless, Warning, Error
  <2> QED  BY <1>2, <2>1 DEF Sorted, Error, Structural, mre
<1>6. CASE x \in DropsInUp(f, mre, known)
  <2>1. /\ x \in {Error("ORPHAN_DROP_UP"), Dangerous("dangerous", "DROP_TABLE")}
        /\ x.code \notin mre.codes
        /\ x \in DropsInUp(f, rel, known)
    BY <1>1, <1>6 DEF DropsInUp, Unless, Warning, Error, Dangerous
  <2> QED  BY <1>2, <2>1 DEF Sorted, Error, Dangerous, Structural, mre
<1>7. CASE x \in KeysToDropped(f)
  <2>1. x = Error("FK_REFERENCES_DROPPED_TABLE")
    BY <1>7 DEF KeysToDropped
  <2> QED  BY <1>2, <1>7, <2>1 DEF Sorted, Error, Structural, Unreleasable
<1>8. CASE x \in ForbiddenStatements(f, mre)
  <2>1. /\ x = Forbidden("forbidden", "SET_GLOBAL") /\ x.code \notin mre.codes
        /\ x \in ForbiddenStatements(f, rel)
    BY <1>1, <1>8 DEF ForbiddenStatements, Unless, Warning, Forbidden
  <2> QED  BY <1>2, <2>1 DEF Sorted, Forbidden, Structural, mre
<1>9. CASE x \in DangerousStatements(f, mre)
  <2>1. /\ \E s : x = Dangerous("dangerous", DangerCode(s))
        /\ x.code \notin mre.codes
        /\ x \in DangerousStatements(f, rel)
    BY <1>1, <1>9 DEF DangerousStatements, Unless, Warning, Dangerous
  <2> QED  BY <1>2, <2>1 DEF Sorted, Dangerous, DangerCode, Structural, mre
<1>10. CASE x \in MissingSections(f)
  <2>1. x \in {Error("MISSING_UP_MARKER"), Error("MISSING_DOWN")}
    BY <1>10 DEF MissingSections, Warning
  <2> QED  BY <1>2, <1>10, <2>1 DEF Sorted, Error, Structural, Unreleasable
<1>11. CASE x \in CustomFindings(config, f, mre)
  <2>1. PICK rule \in config.custom :
          /\ rule.level # "warning"
          /\ \E s \in In(UpOrAll(f)) : s.op = rule.op
          /\ x \in Unless(\/ rule.level = "forbidden" /\ mre.forbidden
                          \/ rule.level = "dangerous" /\ mre.dangerous
                          \/ rule.code \in mre.codes,
                          Warning(IF rule.level = "forbidden"
                                  THEN "forbidden-allowed"
                                  ELSE "dangerous-allowed", rule.code),
                          IF rule.level = "forbidden"
                          THEN Forbidden("custom", rule.code)
                          ELSE Dangerous("custom", rule.code))
    <3>1. x \notin {Warning("warning", rule.code) :
                     rule \in {r \in config.custom :
                                 /\ r.level = "warning"
                                 /\ \E s \in In(UpOrAll(f)) : s.op = r.op}}
      BY DEF Warning
    <3> QED  BY <1>11, <3>1, Zenon DEF CustomFindings
  <2>2. /\ x \in {Forbidden("custom", rule.code),
                  Dangerous("custom", rule.code)}
        /\ x.code \notin mre.codes
        /\ x \in Unless(\/ rule.level = "forbidden" /\ rel.forbidden
                        \/ rule.level = "dangerous" /\ rel.dangerous
                        \/ rule.code \in rel.codes,
                        Warning(IF rule.level = "forbidden"
                                THEN "forbidden-allowed"
                                ELSE "dangerous-allowed", rule.code),
                        IF rule.level = "forbidden"
                        THEN Forbidden("custom", rule.code)
                        ELSE Dangerous("custom", rule.code))
    BY <1>1, <2>1 DEF Unless, Warning, Forbidden, Dangerous
  <2>3. x \in CustomFindings(config, f, rel)
    BY <2>1, <2>2 DEF CustomFindings
  <2> QED  BY <1>2, <1>4, <2>2, <2>3 DEF Sorted, Forbidden, Dangerous, mre
<1> QED  BY <1>3, <1>5, <1>6, <1>7, <1>8, <1>9, <1>10, <1>11

(* No rule set to 'error', no name asked for: what blocks was found as it  *)
(* is, and its rule was not set aside.                                     *)
LEMMA ContentBlocks ==
  ASSUME NEW p, NEW fl, NEW n, ~p.config.requireApprover, NoErrorRules(p)
  PROVE  \A x : x \in Blocking(ContentFindings(p, fl, n)) <=>
           x \in Blocking(Found(p, fl, n)) /\ ~SetAside(p, x.code)
<1> DEFINE found == Found(p, fl, n)
<1>1. \A code : Setting(p.config, code) # "error"
  BY DEF Setting, NoErrorRules
<1>2. ContentFindings(p, fl, n) = ApplyRulePolicy(p.config, found)
  BY ContentIs DEF ApplyApproval
<1> HIDE DEF found
<1>3. \A x : x \in Blocking(ApplyRulePolicy(p.config, found)) <=>
        x \in Blocking(found) /\ ~SetAside(p, x.code)
  BY <1>1 DEF ApplyRulePolicy, Blocking, SetAside, Warning, Dangerous
<1> QED  BY <1>2, <1>3 DEF found

LEMMA KeysShrink ==
  ASSUME NEW p, NEW n, NEW fl, NEW more, AllowsMore(fl, more),
         NEW x \in UnresolvedKeys(p, more, n), x.kind # "warning"
  PROVE  /\ x = Error("FK_UNRESOLVED_REFERENCE")
         /\ x.code \notin Releases(p, more, n).codes
         /\ x \in UnresolvedKeys(p, fl, n)
<1> DEFINE rel == Releases(p, fl, n)
           mre == Releases(p, more, n)
<1>1. mre.dangerous = rel.dangerous /\ rel.codes \subseteq mre.codes
  BY DEF AllowsMore, Releases
<1> HIDE DEF rel, mre
<1>2. /\ x = Error("FK_UNRESOLVED_REFERENCE") /\ x.code \notin mre.codes
      /\ ~mre.dangerous
  BY DEF UnresolvedKeys, Unless, Warning, Error, mre
<1>3. x \in UnresolvedKeys(p, fl, n)
  BY <1>1, <1>2 DEF UnresolvedKeys, Unless, Warning, Error, rel
<1> QED  BY <1>2, <1>3 DEF mre

(* If a refusal says that no file needs fixing, the codes that it names    *)
(* are enough.                                                             *)
LEMMA HintIsGood ==
  ASSUME NEW p, NEW fl, NEW more, AllowsMore(fl, more),
         ~p.config.requireApprover, NoErrorRules(p), Unambiguous(p),
         NEW pending, NEW n \in pending, NEW hint,
         hint = Hint(p, fl, {m \in pending : ~Passes(p, fl, m)}),
         ~hint.needsFix, hint.codes \subseteq more.codes
  PROVE  Passes(p, more, n)
<1> DEFINE failing == {m \in pending : ~Passes(p, fl, m)}
           found == Blocking(Findings(p, fl, n))
           allowable == {x.code : x \in {y \in found : CanRelease(y)}}
           mre == Releases(p, more, n)
<1>1. SUFFICES ASSUME NEW x \in Blocking(Findings(p, more, n)) PROVE FALSE
  BY DEF Passes
<1>2. x.kind # "warning"
  BY DEF Blocking
<1>3. x \in found /\ (\/ x.code \notin mre.codes
                      \/ x.kind = "error" /\ x.code \in Unreleasable)
  <2>1. CASE x \in ContentFindings(p, more, n)
    <3>1. x \in Blocking(Found(p, more, n)) /\ ~SetAside(p, x.code)
      BY <1>2, <2>1, ContentBlocks DEF Blocking
    <3>2. x \in Found(p, fl, n) /\ Sorted(mre, x)
      BY <1>2, <3>1, FoundShrinks DEF Blocking
    <3>3. x \in Blocking(Found(p, fl, n))
      BY <1>2, <3>2 DEF Blocking
    <3>4. x \in Blocking(ContentFindings(p, fl, n))
      BY <3>1, <3>3, ContentBlocks
    <3>5. x \in found
      BY <3>4 DEF Blocking, Findings
    <3> QED  BY <3>2, <3>5 DEF Sorted
  <2>2. CASE x \in UnresolvedKeys(p, more, n)
    <3>1. x \in UnresolvedKeys(p, fl, n) /\ x.code \notin mre.codes
      BY <1>2, <2>2, KeysShrink
    <3> QED  BY <1>2, <3>1 DEF Blocking, Findings
  <2> QED  BY <2>1, <2>2 DEF Blocking, Findings
<1>4. n \in failing
  BY <1>3 DEF Passes
<1>5. CodesOf(found) \subseteq allowable /\ allowable \subseteq hint.codes
  <2> HIDE DEF failing
  <2>1. /\ hint.codes = UNION {{x1.code : x1 \in {y \in
                            Blocking(Findings(p, fl, m)) : CanRelease(y)}} :
                                 m \in failing}
        /\ hint.needsFix = \E m \in failing :
             ~ (CodesOf(Blocking(Findings(p, fl, m)))
                  \subseteq {x1.code : x1 \in {y \in
                            Blocking(Findings(p, fl, m)) : CanRelease(y)}})
    BY DEF Hint, failing
  <2> QED  BY <1>4, <2>1
<1>6. x.code \in allowable
  <2>1. x.code \in CodesOf(found)
    BY <1>2, <1>3 DEF CodesOf, Blocking
  <2> QED  BY <1>5, <2>1
<1>7. x.kind = "error" /\ x.code \in Unreleasable
  <2>1. more.codes \subseteq mre.codes
    BY DEF Releases
  <2> HIDE DEF allowable, mre
  <2> QED  BY <1>3, <1>5, <1>6, <2>1
<1>8. PICK y \in found : CanRelease(y) /\ y.code = x.code
  BY <1>6
<1>9. y.kind # "warning"
  BY <1>8 DEF Blocking
<1>10. CASE y \in ContentFindings(p, fl, n)
  <2>1. y \in Found(p, fl, n)
    BY <1>9, <1>10, ContentBlocks DEF Blocking
  <2>2. AllowsMore(fl, fl)
    BY DEF AllowsMore
  <2>3. Sorted(Releases(p, fl, n), y)
    BY <1>9, <2>1, <2>2, FoundShrinks
  <2>4. y.kind = "error"
    BY <1>7, <1>8, <2>3 DEF Sorted, Unreleasable, Structural
  <2> QED  BY <1>7, <1>8, <2>4 DEF CanRelease, Unreleasable
<1>11. CASE y \in UnresolvedKeys(p, fl, n)
  <2>1. AllowsMore(fl, fl)
    BY DEF AllowsMore
  <2>2. y.code = "FK_UNRESOLVED_REFERENCE"
    BY <1>9, <1>11, <2>1, KeysShrink DEF Error
  <2> QED  BY <1>7, <1>8, <2>2 DEF Unreleasable
<1> QED  BY <1>8, <1>10, <1>11 DEF Blocking, Findings

(* up-all is at the gate, or in front of it, only from the start.          *)
LEMMA ToGate ==
  ASSUME TypeOK, NEW i \in Instances, Move(i), pc'[i] \in {"connect", "gate"}
  PROVE  pc[i] = "connect" /\ log' = log
<1>0. pc \in [Instances -> Stages]
  BY DEF TypeOK
<1>1. \A stage : Goto(i, stage) => pc'[i] = stage
  BY <1>0 DEF Goto
<1>2. ~Stops(i)
  BY StopsFacts DEF AfterTest
<1>3. ~Gate(i)
  BY <1>1 DEF Gate
<1>4. Connect(i) => pc[i] = "connect" /\ log' = log
  BY DEF Connect
<1>5. ~QueryFails(i)
  BY <1>1, <1>2 DEF QueryFails
<1>6. ~Judge(i) /\ ~NothingIsAnError(i) /\ ~Report(i) /\ ~SanityEnd(i)
  BY <1>1 DEF Judge, NothingIsAnError, Report, SanityEnd
<1>7. ~Validate(i) /\ ~LookBefore(i) /\ ~Snapshot(i)
  BY <1>1 DEF Validate, LookBefore, Snapshot
<1>8. ~UpRejects(i)
  BY <1>2 DEF UpRejects
<1>9. ~UpEnd(i)
  BY <1>1 DEF UpEnd, AfterTest
<1>10. ~DownEnd(i)
  BY <1>1 DEF DownEnd, AfterTest, DownStages
<1>11. ~UpFile(i)
  <2>1. SUFFICES ASSUME UpFile(i) PROVE FALSE
    OBVIOUS
  <2>2. PICK n : n = First(Pending(i))
    OBVIOUS
  <2>3. pc' = pc /\ pc[i] \in UpStages
    BY <1>2, <2>1, <2>2, UpFileFacts
  <2> QED  BY <2>3 DEF UpStages
<1>12. ~DownFile(i)
  <2>1. DownFile(i) => Stops(i) \/ pc' = pc
    BY Zenon DEF DownFile
  <2>2. DownFile(i) => pc[i] \in DownStages
    BY DEF DownFile
  <2> QED  BY <1>2, <2>1, <2>2 DEF DownStages
<1>13. ~SanityFile(i)
  <2>1. SUFFICES ASSUME SanityFile(i) PROVE FALSE
    OBVIOUS
  <2>2. Stops(i) \/ pc' = pc \/ pc'[i] = "done"
    BY <1>1, <2>1, SanityFileBranches, Zenon
    DEF SanityFails, SanityFaults, SanityApplies, SanityRollsBack
  <2>3. pc[i] = "sanity"
    BY <2>1, SanityFileBranches
  <2> QED  BY <1>2, <2>2, <2>3
<1> QED
  BY <1>3, <1>4, <1>5, <1>6, <1>7, <1>8, <1>9, <1>10, <1>11, <1>12, <1>13
  DEF Move

Refused(i) == {n \in Pending(i) : ~Passes(project, project.flags, n)}

(* A hint is what the first attempt was refused for, as long as the second *)
(* has not passed the gate.                                                *)
HintFits(i) ==
  hints[i].codes # {} =>
    /\ attempt = 1 => pc[i] = "done"
    /\ attempt = 1 \/ pc[i] \in {"connect", "gate"} =>
         hints[i] = Hint(project, project.flags, Refused(i))

LEMMA HintFitsMove ==
  ASSUME Core, NEW i \in Instances, HintFits(i), Move(i)
  PROVE  HintFits(i)'
<1>0. TypeOK /\ pc[i] # "done"
  BY DoneIsDone DEF Core
<1>1. /\ project' = project /\ attempt' = attempt /\ Files' = Files
      /\ pc \in [Instances -> Stages] /\ attempt \in {1, 2}
      /\ hints = [j \in Instances |-> hints[j]]
  BY <1>0, LocalKept DEF TypeOK
<1>2. log'[i] = log[i] => Refused(i)' = Refused(i)
  BY <1>1 DEF Refused, Pending
<1>3. attempt = 1 => hints[i].codes = {} /\ flags = project.flags
  BY <1>0 DEF HintFits, Core, FlagsFit
<1>4. CASE attempt = 1 /\ Gate(i)
  <2> DEFINE failing == {n \in Pending(i) : ~Passes(project, flags, n)}
  <2>1. failing = Refused(i)
    BY <1>3, <1>4 DEF Refused
  <2>2. /\ log' = log
        /\ failing # {} => Goto(i, "done")
        /\ hints' = IF failing # {}
                    THEN [hints EXCEPT ![i] = Hint(project, flags, failing)]
                    ELSE hints
    BY <1>4, Zenon DEF Gate
  <2>3. CASE failing = {}
    BY <1>3, <1>4, <2>2, <2>3 DEF HintFits
  <2>4. CASE failing # {}
    <3>1. pc'[i] = "done"
      BY <1>1, <2>2, <2>4 DEF Goto
    <3>2. hints'[i] = Hint(project, flags, failing)
      <4> HIDE DEF failing
      <4> QED  BY <1>1, <2>2, <2>4
    <3>3. hints'[i] = Hint(project', project'.flags, Refused(i)')
      BY <1>1, <1>2, <1>3, <1>4, <2>1, <2>2, <3>2
    <3> QED  BY <3>1, <3>3 DEF HintFits
  <2> QED  BY <2>3, <2>4
<1>5. CASE ~ (attempt = 1 /\ Gate(i))
  <2>1. hints' = hints
    BY <1>5, HintsKept
  <2>2. CASE attempt = 1
    BY <1>3, <2>1, <2>2 DEF HintFits
  <2>3. CASE attempt = 2
    <3>1. pc'[i] \in {"connect", "gate"} => pc[i] = "connect" /\ log' = log
      BY <1>0, ToGate
    <3> QED  BY <1>1, <1>2, <2>1, <2>3, <3>1 DEF HintFits
  <2> QED  BY <1>1, <2>2, <2>3
<1> QED  BY <1>4, <1>5

HintInv == Core /\ \A i \in Instances : HintFits(i)

LEMMA HintStep ==
  ASSUME HintInv, [Next]_vars
  PROVE  HintInv'
<1>0. Core /\ Core' /\ TypeOK
  BY CoreStep DEF HintInv, Core
<1>1. ASSUME NEW i \in Instances, Move(i)
      PROVE  HintInv'
  <2>0. /\ project' = project /\ attempt' = attempt /\ Instances' = Instances
        /\ Files' = Files /\ OthersKept(i)
    BY <1>0, <1>1, LocalKept
  <2>1. ASSUME NEW j \in Instances
        PROVE  HintFits(j)'
    <3>1. CASE j = i
      BY <1>0, <1>1, <3>1, HintFitsMove DEF HintInv
    <3>2. CASE j # i
      <4>1. pc'[j] = pc[j] /\ log'[j] = log[j] /\ hints'[j] = hints[j]
        BY <3>2, <2>0 DEF OthersKept
      <4>2. Refused(j)' = Refused(j)
        BY <2>0, <4>1 DEF Refused, Pending
      <4> QED  BY <2>0, <4>1, <4>2, Zenon DEF HintFits, HintInv
    <3> QED  BY <3>1, <3>2
  <2> QED  BY <1>0, <2>0, <2>1 DEF HintInv
<1>2. CASE RunAgain
  <2>1. /\ project' = project /\ Instances' = Instances /\ Files' = Files
        /\ log' = log /\ hints' = hints /\ attempt = 1 /\ attempt' = 2
    BY <1>0, <1>2, RunAgainFacts
  <2>2. \A i : Refused(i)' = Refused(i)
    BY <2>1 DEF Refused, Pending
  <2>3. \A i \in Instances : HintFits(i)'
    BY <2>1, <2>2 DEF HintFits, HintInv
  <2> QED  BY <1>0, <2>1, <2>3 DEF HintInv
<1>3. CASE UNCHANGED vars
  <2>1. \A i : Refused(i)' = Refused(i)
    BY <1>3, SameValues DEF Refused, Pending
  <2> QED  BY <1>0, <1>3, <2>1, SameValues, Zenon DEF HintInv, HintFits
<1> QED  BY <1>1, <1>2, <1>3, Zenon DEF Next, Move

(* The advice of a refusal is good: if it says that no file needs fixing,  *)
(* up-all with the --allow that it printed passes validation, but for the  *)
(* exceptions that HintReleases names.                                     *)
THEOREM HintsRelease == Spec => []HintReleases
<1>1. Init => HintInv
  BY CoreInit DEF HintInv, HintFits, Init, NoHint
<1>2. HintInv /\ [Next]_vars => HintInv'
  BY HintStep
<1>3. ASSUME HintInv
      PROVE  HintReleases
  <2>1. SUFFICES ASSUME attempt = 2, ~project.config.requireApprover,
                        ~Ambiguous, NoErrorRules(project),
                        NEW i \in Instances, pc[i] = "gate",
                        hints[i].codes # {}, ~hints[i].needsFix,
                        NEW n \in Pending(i)
                 PROVE  Passes(project, flags, n)
    BY Zenon DEF HintReleases, NoErrorRules
  <2>2. hints[i] = Hint(project, project.flags, Refused(i))
    BY <1>3, <2>1, Zenon DEF HintInv, HintFits
  <2>3. Unambiguous(project)
    BY <2>1 DEF Ambiguous, Unambiguous
  <2>4. /\ project.flags \in ReleaseFlags
        /\ flags = [project.flags EXCEPT !.codes = @ \cup HintedCodes]
    BY <1>3, <2>1, ProjectFacts DEF HintInv, Core, FlagsFit
  <2>5. AllowsMore(project.flags, flags) /\ HintedCodes \subseteq flags.codes
    <3> HIDE DEF HintedCodes
    <3> QED  BY <2>4 DEF AllowsMore, ReleaseFlags
  <2>6. hints[i].codes \subseteq flags.codes
    BY <2>1, <2>5 DEF HintedCodes
  <2> QED  BY <2>1, <2>2, <2>3, <2>5, <2>6, HintIsGood, Zenon DEF Refused
<1> QED  BY <1>1, <1>2, <1>3, PTL DEF Spec

-----------------------------------------------------------------------------
(* What complete runs of the same files have in common.                    *)

LEMMA StaysAway ==
  ASSUME NEW db \in Schemas, NEW s \in Seq(Statements), NEW t,
         NEW j \in 0..Len(s), NEW k \in j..Len(s),
         t \notin After(db, s, j).tables,
         \A l \in j + 1..k : ~Gives(s[l], t)
  PROVE  t \notin After(db, s, k).tables
<1> DEFINE Bad == {n \in j..k : t \in After(db, s, n).tables}
<1>1. SUFFICES ASSUME Bad # {} PROVE FALSE
  OBVIOUS
<1>2. PICK x \in Bad : \A y \in Bad : x <= y
  <2>1. Bad \subseteq Nat
    OBVIOUS
  <2> QED  BY <1>1, <2>1, NatMinimum
<1>3. x # j
  BY <1>2
<1>4. /\ x - 1 \in j..k /\ x - 1 \notin Bad /\ x \in j + 1..k
      /\ x \in 1..Len(s)
  BY <1>2, <1>3
<1>5. t \notin After(db, s, x - 1).tables
  BY <1>4
<1>6. /\ s[x] \in Statements /\ After(db, s, x - 1) \in Schemas
      /\ After(db, s, x) = Effect(After(db, s, x - 1), s[x])
  BY <1>4, SectionStep
<1>7. ~Gives(s[x], t)
  BY <1>4
<1>8. t \notin After(db, s, x).tables
  BY <1>5, <1>6, <1>7, OneStatement
<1> QED  BY <1>2, <1>8

Touches(s, t) == \E l \in 1..Len(s) : Takes(s[l], t) \/ Gives(s[l], t)

LEMMA UntouchedStays ==
  ASSUME NEW db \in Schemas, NEW s \in Seq(Statements), NEW t,
         ~Touches(s, t), NEW k \in 0..Len(s)
  PROVE  t \in After(db, s, k).tables <=> t \in db.tables
<1>1. \A l \in 0 + 1..k : ~Takes(s[l], t) /\ ~Gives(s[l], t)
  BY DEF Touches
<1>2. 0 \in 0..Len(s) /\ After(db, s, 0) = db /\ k \in 0..Len(s)
  BY AfterSteps
<1>3. t \in db.tables => t \in After(db, s, k).tables
  BY <1>1, <1>2, Stays
<1>4. t \notin db.tables => t \notin After(db, s, k).tables
  BY <1>1, <1>2, StaysAway
<1> QED  BY <1>3, <1>4

(* The last statement that touches a table decides whether it is there,    *)
(* whatever the schema was, if the server accepts them all.                *)
LEMMA TouchDecides ==
  ASSUME NEW db \in Schemas, NEW other \in Schemas, NEW s \in Seq(Statements),
         NEW t, Touches(s, t), Completes(db, s), Completes(other, s),
         t \in After(db, s, Len(s)).tables
  PROVE  t \in After(other, s, Len(s)).tables
<1> DEFINE Last == {l \in 1..Len(s) : Takes(s[l], t) \/ Gives(s[l], t)}
<1>0. /\ Len(s) \in Nat /\ Len(s) \in 0..Len(s)
      /\ \A k \in 1..Len(s) : ~Refuses(After(db, s, k - 1), s[k])
      /\ \A k \in 1..Len(s) : ~Refuses(After(other, s, k - 1), s[k])
  BY ReachFacts DEF Completes
<1>1. PICK l \in Last : \A k \in Last : k <= l
  <2>1. Last # {} /\ Last \subseteq Nat /\ Len(s) \in Nat
        /\ \A k \in Last : k <= Len(s)
    BY <1>0 DEF Touches
  <2> HIDE DEF Last
  <2> QED  BY <2>1, NatMaximum
<1>2. /\ l \in 1..Len(s) /\ l \in 0..Len(s) /\ Len(s) \in l..Len(s)
      /\ Takes(s[l], t) \/ Gives(s[l], t)
  BY <1>0, <1>1
<1>3. ASSUME NEW k \in l + 1..Len(s)
      PROVE  ~Takes(s[k], t) /\ ~Gives(s[k], t)
  <2>1. k \in 1..Len(s) /\ ~ (k <= l)
    BY <1>0, <1>2, <1>3
  <2>2. k \notin Last
    <3> HIDE DEF Last
    <3> QED  BY <1>1, <2>1
  <2> QED  BY <2>1, <2>2
<1>4. /\ s[l] \in Statements
      /\ After(db, s, l - 1) \in Schemas
      /\ After(db, s, l) = Effect(After(db, s, l - 1), s[l])
      /\ After(other, s, l - 1) \in Schemas
      /\ After(other, s, l) = Effect(After(other, s, l - 1), s[l])
  BY <1>2, SectionStep
<1>5. ~Takes(s[l], t)
  <2>1. SUFFICES ASSUME Takes(s[l], t) PROVE FALSE
    OBVIOUS
  <2>2. t \notin After(db, s, l).tables
    BY <1>0, <1>2, <1>4, <2>1, OneStatement
  <2> QED  BY <1>2, <1>3, <2>2, StaysAway
<1>6. t \in After(other, s, l).tables
  BY <1>0, <1>2, <1>4, <1>5, OneStatement
<1> QED  BY <1>2, <1>3, <1>6, Stays

(* One of the first m files touches t.                                     *)
TouchedIn(p, m, t) == \E k \in 1..m : Touches(p.files[k].up, t)

CompleteIn(p, m) ==
  \A k \in 1..m : Completes(Applied(p, k - 1), p.files[k].up)

(* Downs take only what their Ups created.                                 *)
DownsFit(p) ==
  \A n \in 1..Len(p.files) :
    Dropped(p.files[n].down) \cup RenamedAway(p.files[n].down)
      \subseteq Created(p.files[n].up)

(* The tables that no file touches are all there.                          *)
LeavesBase(p, db) ==
  \A t \in p.base : ~TouchedIn(p, Len(p.files), t) => t \in db.tables

(* So are those that the first m files leave, as far as they or none of    *)
(* the files touch them.                                                   *)
Repeats(p, m, db) ==
  \A t \in Applied(p, m).tables :
    TouchedIn(p, m, t) \/ ~TouchedIn(p, Len(p.files), t) => t \in db.tables

LEMMA RepeatsStart ==
  ASSUME NEW p, NEW db, LeavesBase(p, db)
  PROVE  Repeats(p, 0, db)
<1>1. Applied(p, 0).tables = p.base
  BY AppliedSteps DEF Empty
<1>2. \A t : ~TouchedIn(p, 0, t)
  BY DEF TouchedIn
<1> QED  BY <1>1, <1>2, Zenon DEF Repeats, LeavesBase

LEMMA RepeatsStep ==
  ASSUME NEW p, IsProject(p), NEW n \in 1..Len(p.files), NEW db \in Schemas,
         Completes(Applied(p, n - 1), p.files[n].up),
         Completes(db, p.files[n].up), Repeats(p, n - 1, db)
  PROVE  Repeats(p, n, After(db, p.files[n].up, Len(p.files[n].up)))
<1> DEFINE up == p.files[n].up
           first == Applied(p, n - 1)
<1>0. /\ up \in Seq(Statements) /\ Len(up) \in 0..Len(up)
      /\ Len(p.files) \in Nat
  BY FilesOf
<1>1. /\ n - 1 \in Nat /\ n - 1 \in 0..Len(p.files) /\ (n - 1) + 1 = n
  BY <1>0
<1>2. first \in Schemas
  BY <1>1, AppliedType
<1>3. Applied(p, n) = After(first, up, Len(up))
  <2>1. Applied(p, (n - 1) + 1)
          = After(Applied(p, n - 1), p.files[(n - 1) + 1].up,
                  Len(p.files[(n - 1) + 1].up))
    BY <1>1, AppliedSteps
  <2> QED  BY <1>1, <2>1
<1> HIDE DEF up, first
<1>4. SUFFICES ASSUME NEW t \in After(first, up, Len(up)).tables,
                      TouchedIn(p, n, t) \/ ~TouchedIn(p, Len(p.files), t)
               PROVE  t \in After(db, up, Len(up)).tables
  BY <1>3, Zenon DEF Repeats, up
<1>5. CASE Touches(up, t)
  BY <1>0, <1>2, <1>4, <1>5, TouchDecides DEF up, first
<1>6. CASE ~Touches(up, t)
  <2>1. t \in first.tables
    BY <1>0, <1>2, <1>4, <1>6, UntouchedStays
  <2>2. TouchedIn(p, n, t) => TouchedIn(p, n - 1, t)
    <3>1. SUFFICES ASSUME NEW k \in 1..n, Touches(p.files[k].up, t)
                   PROVE  TouchedIn(p, n - 1, t)
      BY DEF TouchedIn
    <3>2. k # n
      BY <1>6, <3>1 DEF up
    <3>3. k \in 1..(n - 1)
      BY <1>1, <3>2
    <3> QED  BY <3>1, <3>3 DEF TouchedIn
  <2>3. t \in db.tables
    BY <1>4, <2>1, <2>2, Zenon DEF Repeats, first
  <2> QED  BY <1>0, <1>6, <2>3, UntouchedStays
<1> QED  BY <1>5, <1>6

LEMMA RepeatsAll ==
  ASSUME NEW p, NEW db, Repeats(p, Len(p.files), db)
  PROVE  Applied(p, Len(p.files)).tables \subseteq db.tables
BY DEF Repeats

(* No Up costs a table that no file touches, not even one that stops half  *)
(* way; nor does a Down that takes only what its Up created.               *)
LEMMA LeavesUp ==
  ASSUME NEW p, IsProject(p), NEW n \in 1..Len(p.files), NEW db \in Schemas,
         NEW k \in 0..Len(p.files[n].up), LeavesBase(p, db)
  PROVE  LeavesBase(p, After(db, p.files[n].up, k))
<1> DEFINE up == p.files[n].up
<1>0. up \in Seq(Statements)
  BY FilesOf
<1> SUFFICES ASSUME NEW t \in p.base, ~TouchedIn(p, Len(p.files), t)
             PROVE  t \in After(db, up, k).tables
  BY Zenon DEF LeavesBase
<1>1. t \in db.tables
  BY Zenon DEF LeavesBase
<1>2. ~Touches(up, t)
  BY DEF TouchedIn
<1> HIDE DEF up
<1>3. k \in 0..Len(up)
  BY DEF up
<1> QED  BY <1>0, <1>1, <1>2, <1>3, UntouchedStays

LEMMA LeavesDown ==
  ASSUME NEW p, IsProject(p), DownsFit(p), NEW n \in 1..Len(p.files),
         NEW db \in Schemas, NEW k \in 0..Len(p.files[n].down),
         LeavesBase(p, db)
  PROVE  LeavesBase(p, After(db, p.files[n].down, k))
<1> DEFINE up == p.files[n].up
           down == p.files[n].down
<1>0. /\ up \in Seq(Statements) /\ down \in Seq(Statements)
      /\ Len(down) \in Nat
  <2>1. up \in Seq(Statements) /\ down \in Seq(Statements)
    BY FilesOf
  <2> HIDE DEF up, down
  <2> QED  BY <2>1
<1> SUFFICES ASSUME NEW t \in p.base, ~TouchedIn(p, Len(p.files), t)
             PROVE  t \in After(db, down, k).tables
  BY Zenon DEF LeavesBase
<1>1. t \in db.tables
  BY Zenon DEF LeavesBase
<1>2. ~Touches(up, t)
  BY DEF TouchedIn
<1>3. Dropped(down) \cup RenamedAway(down) \subseteq Created(up)
  BY DEF DownsFit
<1> HIDE DEF up, down
<1>4. ASSUME NEW l \in 1..k, Takes(down[l], t)
      PROVE  FALSE
  <2>1. l \in DOMAIN down
    BY <1>0, <1>4 DEF down
  <2>2. t \in Dropped(down) \cup RenamedAway(down)
    BY <1>4, <2>1 DEF Takes, Dropped, RenamedAway, In
  <2>3. t \in Created(up)
    BY <1>3, <2>2
  <2>4. PICK x \in In(up) : Gives(x, t)
    BY <2>3 DEF Created, Gives
  <2>5. PICK j \in DOMAIN up : x = up[j]
    BY <2>4 DEF In
  <2>6. j \in 1..Len(up)
    BY <1>0, <2>5
  <2> QED  BY <1>2, <2>4, <2>5, <2>6 DEF Touches
<1>5. k \in 0..Len(down)
  BY DEF down
<1> QED  BY <1>0, <1>1, <1>4, <1>5, GoneWasTaken

LEMMA LeavesApplied ==
  ASSUME NEW p, IsProject(p)
  PROVE  \A m \in 0..Len(p.files) : LeavesBase(p, Applied(p, m))
<1> DEFINE Bad == {m \in 0..Len(p.files) : ~LeavesBase(p, Applied(p, m))}
<1>0. Len(p.files) \in Nat
  BY FilesOf
<1>1. SUFFICES ASSUME Bad # {} PROVE FALSE
  OBVIOUS
<1>2. PICK x \in Bad : \A y \in Bad : x <= y
  <2>1. Bad \subseteq Nat
    BY <1>0
  <2> HIDE DEF Bad
  <2> QED  BY <1>1, <2>1, NatMinimum
<1>3. x # 0
  <2>1. Applied(p, 0).tables = p.base
    BY AppliedSteps DEF Empty
  <2>2. LeavesBase(p, Applied(p, 0))
    BY <2>1, Zenon DEF LeavesBase
  <2> QED  BY <1>2, <2>2
<1>4. /\ x - 1 \in 0..Len(p.files) /\ ~(x <= x - 1)
      /\ x \in 1..Len(p.files) /\ (x - 1) + 1 = x /\ x - 1 \in Nat
  BY <1>0, <1>2, <1>3
<1>5. LeavesBase(p, Applied(p, x - 1))
  <2>1. x - 1 \notin Bad
    <3> HIDE DEF Bad
    <3> QED  BY <1>2, <1>4
  <2> QED  BY <1>4, <2>1
<1>6. Applied(p, (x - 1) + 1)
        = After(Applied(p, x - 1), p.files[(x - 1) + 1].up,
                Len(p.files[(x - 1) + 1].up))
  BY <1>4, AppliedSteps
<1>7. /\ Applied(p, x - 1) \in Schemas
      /\ Len(p.files[x].up) \in 0..Len(p.files[x].up)
  BY <1>4, AppliedType, FilesOf
<1>8. LeavesBase(p, After(Applied(p, x - 1), p.files[x].up,
                          Len(p.files[x].up)))
  BY <1>4, <1>5, <1>7, LeavesUp
<1> QED  BY <1>2, <1>4, <1>6, <1>8

(* If validation passes without any release, Downs take tables of others   *)
(* only as TakesOthers says.                                               *)
LEMMA PassesFit ==
  ASSUME \A n \in Files : Passes(project, NoRelease, n), ~TakesOthers
  PROVE  DownsFit(project)
<1> SUFFICES ASSUME NEW n \in Files
             PROVE  Dropped(File(n).down) \cup RenamedAway(File(n).down)
                      \subseteq Created(File(n).up)
  BY DEF DownsFit, Files, N, File
<1>1. RenamedAway(File(n).down) \subseteq Created(File(n).up)
  BY DEF TakesOthers
<1>2. ASSUME NEW t \in Dropped(File(n).down), t \notin Created(File(n).up)
      PROVE  FALSE
  <2>1. t \notin Created(Up(File(n)))
    BY <1>2 DEF Up, Created, In
  <2>2. DecidedIn(project, NoRelease, n, "ORPHAN_DROP_DOWN")
    BY <1>2, <2>1, DownDecided DEF File
  <2>3. Decided(n, "ORPHAN_DROP_DOWN")
    <3>1. /\ Releases(project, NoRelease, n).codes
               \subseteq Releases(project, flags, n).codes
          /\ Releases(project, NoRelease, n).dangerous =>
               Releases(project, flags, n).dangerous
      BY DEF Releases, NoRelease
    <3>2. DecidedIn(project, flags, n, "ORPHAN_DROP_DOWN")
      BY <2>2, <3>1 DEF DecidedIn
    <3> QED  BY <3>2, ReviewedIs
  <2> QED  BY <2>3 DEF TakesOthers
<1> QED  BY <1>1, <1>2

-----------------------------------------------------------------------------
(* Exit code 0 means applied: what each step does to one schema.           *)

LEMMA DownFileFacts ==
  ASSUME TypeOK, NEW i \in Instances, DownFile(i), NEW n, n = Newest(log[i])
  PROVE  /\ n \in Files /\ pc[i] \in DownStages
         /\ project' = project /\ flags' = flags
         /\ ran' = ran /\ reached' = reached /\ kept' = kept
         /\ \E k \in 0..Len(File(n).down) :
              schema'[i] = After(schema[i], File(n).down, k)
         /\ \/ Stops(i)
            \/ pc' = pc /\ failed' = failed /\ mail' = mail
<1> DEFINE down == File(n).down
           reach == Reach(schema[i], down)
<1>1. n \in Files
  BY HereFacts DEF DownFile
<1>2. reach \in 0..Len(down) /\ Len(down) \in Nat
  <2>1. down \in Seq(Statements) /\ schema[i] \in Schemas
    BY <1>1, ProjectFacts DEF TypeOK
  <2> HIDE DEF down
  <2> QED  BY <2>1, SectionType
<1>3. /\ pc[i] \in DownStages
      /\ project' = project /\ flags' = flags /\ UNCHANGED history
      /\ \/ schema' = [schema EXCEPT ![i] = After(@, down, reach)]
         \/ \E k \in 0..reach :
              schema' = [schema EXCEPT ![i] = After(@, down, k)]
      /\ \/ Stops(i)
         \/ pc' = pc /\ failed' = failed /\ mail' = mail
  BY Zenon DEF DownFile
<1>4. \A db : schema' = [schema EXCEPT ![i] = db] => schema'[i] = db
  BY DEF TypeOK
<1>5. \E k \in 0..reach : schema'[i] = After(schema[i], down, k)
  <2>1. reach \in 0..reach
    BY <1>2
  <2> HIDE DEF reach, down
  <2> QED  BY <1>3, <1>4, <2>1, Zenon
<1>6. \E k \in 0..Len(down) : schema'[i] = After(schema[i], down, k)
  <2> HIDE DEF reach, down
  <2> QED  BY <1>2, <1>5
<1> QED  BY <1>1, <1>3, <1>6 DEF history

LEMMA SanityFileFacts ==
  ASSUME TypeOK, NEW i \in Instances, SanityFile(i),
         NEW n, n = First(Pending(i)), NEW up, up = File(n).up,
         NEW down, down = File(n).down
  PROVE  /\ n \in Files /\ up \in Seq(Statements) /\ schema[i] \in Schemas
         /\ Reach(schema[i], up) \in 0..Len(up)
         /\ \/ \E k \in 0..Len(up) : schema'[i] = After(schema[i], up, k)
            \/ \E k \in 0..Len(down) :
                 schema'[i] = After(After(schema[i], up,
                                          Reach(schema[i], up)), down, k)
<1> DEFINE reach == Reach(schema[i], up)
           there == After(schema[i], up, reach)
           undo == Reach(there, down)
<1>1. n \in Files /\ schema[i] \in Schemas
  <2>1. Pending(i) # {}
    BY SanityFileBranches
  <2> QED  BY <2>1, HereFacts DEF TypeOK
<1>2. up \in Seq(Statements) /\ down \in Seq(Statements)
  BY <1>1, ProjectFacts
<1>3. reach \in 0..Len(up) /\ Len(up) \in Nat /\ there \in Schemas
  BY <1>1, <1>2, SectionType
<1>4. undo \in 0..Len(down) /\ Len(down) \in Nat
  <2> HIDE DEF there
  <2> QED  BY <1>2, <1>3, SectionType
<1>5. \A db : schema' = [schema EXCEPT ![i] = db] => schema'[i] = db
  BY DEF TypeOK
<1>6. After(schema[i], up, 0) = schema[i]
  BY AfterSteps
<1>7. ASSUME SanityFails(i)
      PROVE  schema'[i] \in {there, schema[i]}
  <2>1. \/ schema' = [schema EXCEPT ![i] = there]
        \/ schema' = schema
    BY <1>7, Zenon DEF SanityFails
  <2> HIDE DEF there
  <2> QED  BY <1>5, <2>1
<1>8. ASSUME SanityFaults(i)
      PROVE  \/ \E k \in 0..reach : schema'[i] = After(schema[i], up, k)
             \/ \E k \in 0..undo : schema'[i] = After(there, down, k)
  <2>1. \/ \E k \in 0..reach :
             schema' = [schema EXCEPT ![i] = After(@, up, k)]
        \/ \E k \in 0..undo :
             schema' = [schema EXCEPT ![i] = After(there, down, k)]
    BY <1>8, Zenon DEF SanityFaults
  <2> HIDE DEF there, reach, undo
  <2> QED  BY <1>5, <2>1, Zenon
<1>9. ASSUME SanityApplies(i)
      PROVE  schema'[i] = there
  <2>1. schema' = [schema EXCEPT ![i] = there]
    BY <1>9, Zenon DEF SanityApplies
  <2> HIDE DEF there
  <2> QED  BY <1>5, <2>1
<1>10. ASSUME SanityRollsBack(i)
       PROVE  schema'[i] = After(there, down, undo)
  <2>1. schema' = [schema EXCEPT ![i] = After(there, down, undo)]
    BY <1>10, Zenon DEF SanityRollsBack
  <2> HIDE DEF there, undo
  <2> QED  BY <1>5, <2>1
<1>11. \/ SanityFails(i) \/ SanityFaults(i)
       \/ SanityApplies(i) \/ SanityRollsBack(i)
  BY SanityFileBranches
<1>12. 0 \in 0..Len(up) /\ there = After(schema[i], up, reach)
  BY <1>3
<1> HIDE DEF there, reach, undo
<1>13. \/ \E k \in 0..Len(up) : schema'[i] = After(schema[i], up, k)
       \/ \E k \in 0..Len(down) : schema'[i] = After(there, down, k)
  BY <1>3, <1>4, <1>6, <1>7, <1>8, <1>9, <1>10, <1>11, <1>12
<1> QED  BY <1>1, <1>2, <1>3, <1>13 DEF there, reach

(* Tables that no file touches are never lost.                             *)
Untouched(i) == DownsFit(project) => LeavesBase(project, schema[i])

LEMMA UntouchedMove ==
  ASSUME TypeOK, NEW i \in Instances, Untouched(i), Move(i)
  PROVE  Untouched(i)'
<1>0. project' = project
  BY LocalKept
<1>1. SUFFICES ASSUME DownsFit(project), LeavesBase(project, schema[i])
               PROVE  LeavesBase(project, schema'[i])
  BY <1>0, Zenon DEF Untouched
<1>2. IsProject(project) /\ schema[i] \in Schemas
  BY DEF TypeOK, IsProject
<1>3. Files = 1..Len(project.files) /\ \A n : File(n) = project.files[n]
  BY DEF Files, N, File
<1>4. CASE UpFile(i)
  <2>1. PICK n : n = First(Pending(i))
    OBVIOUS
  <2>2. /\ n \in Files
        /\ \E k \in 0..Reach(schema[i], File(n).up) :
             schema'[i] = After(schema[i], File(n).up, k)
    BY <1>4, <2>1, UpFileFacts
  <2>3. File(n).up \in Seq(Statements)
    BY <2>2, ProjectFacts
  <2>4. /\ Reach(schema[i], File(n).up) \in 0..Len(File(n).up)
        /\ Len(File(n).up) \in Nat
    BY <1>2, <2>3, SectionType
  <2>5. PICK k \in 0..Len(File(n).up) :
          schema'[i] = After(schema[i], File(n).up, k)
    BY <2>2, <2>4
  <2> QED  BY <1>1, <1>2, <1>3, <2>2, <2>5, LeavesUp
<1>5. CASE DownFile(i)
  <2>1. PICK n : n = Newest(log[i])
    OBVIOUS
  <2>2. n \in Files
    BY <1>5, <2>1, DownFileFacts
  <2>3. PICK k \in 0..Len(File(n).down) :
          schema'[i] = After(schema[i], File(n).down, k)
    BY <1>5, <2>1, DownFileFacts
  <2> QED  BY <1>1, <1>2, <1>3, <2>2, <2>3, LeavesDown
<1>6. CASE SanityFile(i)
  <2>1. PICK n : n = First(Pending(i))
    OBVIOUS
  <2> DEFINE up == File(n).up
             down == File(n).down
             reach == Reach(schema[i], up)
             there == After(schema[i], up, reach)
  <2>2. /\ n \in Files /\ up \in Seq(Statements) /\ reach \in 0..Len(up)
        /\ \/ \E k \in 0..Len(up) : schema'[i] = After(schema[i], up, k)
           \/ \E k \in 0..Len(down) : schema'[i] = After(there, down, k)
    BY <1>6, <2>1, SanityFileFacts
  <2>3. ASSUME NEW k \in 0..Len(up)
        PROVE  LeavesBase(project, After(schema[i], up, k))
    BY <1>1, <1>2, <1>3, <2>2, <2>3, LeavesUp
  <2>4. there \in Schemas
    <3> HIDE DEF up
    <3> QED  BY <1>2, <2>2, SectionType
  <2>5. LeavesBase(project, there)
    <3> HIDE DEF up
    <3> QED  BY <2>2, <2>3
  <2>6. ASSUME NEW k \in 0..Len(down)
        PROVE  LeavesBase(project, After(there, down, k))
    <3> HIDE DEF there
    <3> QED  BY <1>1, <1>2, <1>3, <2>2, <2>4, <2>5, <2>6, LeavesDown
  <2> HIDE DEF there, up, down
  <2> QED  BY <2>2, <2>3, <2>6
<1>7. CASE ~UpFile(i) /\ ~DownFile(i) /\ ~SanityFile(i)
  <2>1. UpEnd(i) \/ Snapshot(i) => schema' = schema
    BY DEF UpEnd, Snapshot
  <2>2. schema' = schema
    BY <1>7, <2>1, StageLocal, Zenon DEF Move
  <2> QED  BY <1>1, <2>2
<1> QED  BY <1>4, <1>5, <1>6, <1>7

-----------------------------------------------------------------------------
(* Exit code 0 means applied: the invariant.                               *)

(* Before the first up of a test, and in it: nothing but complete files.   *)
FirstUp(i) ==
  \A m \in 0..N : log[i] = 1..m =>
    schema[i] = Applied(project, m) /\ CompleteIn(project, m)

(* The first up went through.                                              *)
Reached(i) ==
  CompleteIn(project, N) /\ reached[i] = Applied(project, N).tables

(* Everything was rolled back before, and files are applied again.         *)
Again(i) ==
  DownsFit(project) =>
    \A m \in 0..N : log[i] = 1..m => Repeats(project, m, schema[i])

AllPass == \A n \in Files : Passes(project, NoRelease, n)

(* What ExitZeroMeansApplied says of one instance.                         *)
Result(i) ==
  /\ \/ log[i] = Files
     \/ ~Executes
     \/ project.command = "test-all" /\ ExpectsRejections
     \/ project.sanity /\ \E n \in Files : File(n).rollback
  /\ project.command = "sync" =>
       mail[i] = [status |-> "applied", applied |-> ran[i]]
  /\ ~Executes => \A n \in Judged(i) : Passes(project, flags, n)
  /\ \/ ~Tested \/ project.command = "test"
     \/ reached[i] \subseteq schema[i].tables
     \/ TakesOthers \/ RollBackUnnoticed(i)
     \/ project.sanity /\ \E n \in Files : File(n).rollback
  /\ ShownRolledBack(i) =>
       log[i] = {} /\ SameSchema(mem[i].before, schema[i])

(* What holds as long as no error and no failed result is recorded.        *)
SoFar(i) ==
  /\ pc[i] \in {"clear", "snapshot", "sanity"} => Reached(i)
  /\ pc[i] \in {"up1", "down1", "up2", "clear", "snapshot", "sanity"}
       /\ project.command # "test" /\ Tested => AllPass
  /\ pc[i] = "sanity" /\ kept[i] = {} => Again(i)
  /\ pc[i] = "sanity" /\ ShownRolledBack(i) =>
       log[i] = {} /\ mem[i].count = 0
  /\ pc[i] = "after" => log[i] = Files
  /\ project.command = "sync"
       /\ pc[i] \in {"connect", "gate", "before", "up", "after"} =>
       mem[i].applied = ran[i]
  /\ pc[i] = "done" /\ ~project.dryRun /\ ~project.validateOnly => Result(i)

Progress(i) ==
  /\ project.command \in Tests /\ pc[i] \in {"connect", "validate", "up1"} =>
       FirstUp(i)
  /\ pc[i] \in {"down1", "up2"} => Reached(i)
  /\ pc[i] = "up2" => Again(i)
  /\ i \notin failed => SoFar(i)

(* Result, as a function of what is known of the instance.                 *)
ResultWith(logged, mailed, begun, had, db, unnoticed, memory) ==
  /\ \/ logged = Files
     \/ ~Executes
     \/ project.command = "test-all" /\ ExpectsRejections
     \/ project.sanity /\ \E n \in Files : File(n).rollback
  /\ project.command = "sync" =>
       mailed = [status |-> "applied", applied |-> begun]
  /\ ~Executes => \A n \in (IF project.pendingOnly THEN Files \ logged
                            ELSE Files) : Passes(project, flags, n)
  /\ \/ ~Tested \/ project.command = "test"
     \/ had \subseteq db.tables
     \/ TakesOthers \/ unnoticed # {}
     \/ project.sanity /\ \E n \in Files : File(n).rollback
  /\ (/\ project.sanity /\ Tested /\ unnoticed = {}
      /\ N = 1 /\ File(1).rollback /\ File(1).check # "none")
     => logged = {} /\ SameSchema(memory.before, db)

LEMMA ProjectLater ==
  ASSUME project' = project, flags' = flags
  PROVE  /\ N' = N /\ Files' = Files /\ \A n : File(n)' = File(n)
         /\ Executes' <=> Executes
         /\ ExpectsRejections' <=> ExpectsRejections
         /\ Tested' <=> Tested
         /\ TakesOthers' <=> TakesOthers
         /\ AllPass' <=> AllPass
<1>1. N' = N /\ Files' = Files /\ \A n : File(n)' = File(n)
  BY DEF N, Files, File
<1>2. Executes' <=> Executes
  BY DEF Executes
<1>3. ExpectsRejections' <=> ExpectsRejections
  BY <1>1, Zenon DEF ExpectsRejections
<1>4. Tested' <=> Tested
  BY <1>3, Zenon DEF Tested
<1>5. TakesOthers' <=> TakesOthers
  BY <1>1, Zenon DEF TakesOthers, Decided
<1>6. AllPass' <=> AllPass
  BY <1>1, Zenon DEF AllPass
<1> QED  BY <1>1, <1>2, <1>3, <1>4, <1>5, <1>6

LEMMA ResultLater ==
  ASSUME project' = project, flags' = flags, NEW i,
         ResultWith(log'[i], mail'[i], ran'[i], reached'[i], schema'[i],
                    kept'[i], mem'[i])
  PROVE  Result(i)'
<1>1. /\ N' = N /\ Files' = Files /\ \A n : File(n)' = File(n)
      /\ Executes' <=> Executes
      /\ ExpectsRejections' <=> ExpectsRejections
      /\ Tested' <=> Tested
      /\ TakesOthers' <=> TakesOthers
  BY ProjectLater
<1>2. Judged(i)' = IF project.pendingOnly THEN Files \ log'[i] ELSE Files
  BY <1>1, Zenon DEF Judged, Pending
<1>3. RollBackUnnoticed(i)' <=> kept'[i] # {}
  BY DEF RollBackUnnoticed
<1>4. ShownRolledBack(i)' <=>
        /\ project.sanity /\ Tested /\ kept'[i] = {}
        /\ N = 1 /\ File(1).rollback /\ File(1).check # "none"
  BY <1>1, <1>3, Zenon DEF ShownRolledBack
<1>5. SameSchema(mem[i].before, schema[i])' <=>
        SameSchema(mem'[i].before, schema'[i])
  BY DEF SameSchema
<1> QED  BY <1>1, <1>2, <1>3, <1>4, <1>5, Zenon DEF Result, ResultWith

LEMMA StillThere ==
  ASSUME project' = project, flags' = flags, NEW i
  PROVE  /\ log'[i] = log[i] /\ schema'[i] = schema[i] =>
              (FirstUp(i)' <=> FirstUp(i)) /\ (Again(i)' <=> Again(i))
         /\ reached'[i] = reached[i] => (Reached(i)' <=> Reached(i))
<1>1. N' = N
  BY ProjectLater
<1> QED  BY <1>1, Zenon DEF FirstUp, Again, Reached

(* An error: nothing holds so far any more, except in front of the sanity  *)
(* checks.                                                                 *)
LEMMA BadEnd ==
  ASSUME TypeOK, NEW i \in Instances, Progress(i),
         project' = project, flags' = flags, reached'[i] = reached[i],
         \/ Stops(i)
         \/ pc'[i] = "done" /\ i \in failed'
  PROVE  Progress(i)'
<1>1. CASE pc'[i] = "done" /\ i \in failed'
  BY <1>1 DEF Progress
<1>2. CASE Stops(i)
  <2>1. CASE pc'[i] = "cleanup"
    BY <2>1 DEF Progress, SoFar
  <2>2. CASE pc[i] = "clear" /\ pc'[i] = "snapshot" /\ failed' = failed
    <3>1. SUFFICES ASSUME i \notin failed PROVE SoFar(i)'
      BY <2>2 DEF Progress
    <3>2. Reached(i)'
      BY <2>2, <3>1, StillThere DEF Progress, SoFar
    <3>3. project.command # "test" /\ Tested' => AllPass'
      BY <2>2, <3>1, ProjectLater DEF Progress, SoFar
    <3> QED  BY <2>2, <3>2, <3>3 DEF SoFar
  <2>3. CASE i \in failed' /\ pc'[i] \in {"done", AfterTest}
    BY <2>3 DEF Progress, AfterTest
  <2> QED  BY <1>2, <2>1, <2>2, <2>3, StopsFacts
<1> QED  BY <1>1, <1>2

LEMMA SameInterval ==
  ASSUME NEW a \in Nat, NEW b \in Nat, 1..a = 1..b
  PROVE  a = b
<1>1. a # 0 => a \in 1..b
  OBVIOUS
<1>2. b # 0 => b \in 1..a
  OBVIOUS
<1> QED  BY <1>1, <1>2

LEMMA ProgressConnect ==
  ASSUME TypeOK, NEW i \in Instances, Progress(i), Connect(i)
  PROVE  Progress(i)'
<1>0. /\ project' = project /\ flags' = flags /\ pc \in [Instances -> Stages]
      /\ pc[i] = "connect" /\ schema' = schema /\ log' = log /\ mem' = mem
      /\ ran' = ran /\ reached' = reached
  BY DEF Connect, TypeOK, history
<1>1. CASE Goto(i, Begins) /\ UNCHANGED <<failed, mail, faults>>
  <2>1. pc'[i] = Begins /\ failed' = failed
    BY <1>0, <1>1 DEF Goto
  <2>2. Begins \in {"gate", "judge", "up1", "validate"}
        /\ (Begins = "up1" => project.command = "test")
    BY ProjectFacts DEF Begins, Commands
  <2>3. project.command \in Tests => FirstUp(i)'
    BY <1>0, StillThere DEF Progress
  <2>5. ASSUME i \notin failed PROVE SoFar(i)'
    <3>1. project.command = "sync" => mem[i].applied = ran[i]
      BY <1>0, <2>5 DEF Progress, SoFar
    <3> QED  BY <1>0, <2>1, <2>2, <3>1 DEF SoFar
  <2> QED  BY <1>0, <2>1, <2>2, <2>3, <2>5 DEF Progress
<1>2. CASE Goto(i, "done") /\ Fails(i)
  <2>1. pc'[i] = "done" /\ i \in failed'
    BY <1>0, <1>2 DEF Goto, Fails
  <2> QED  BY <1>0, <2>1, BadEnd
<1> QED  BY <1>1, <1>2 DEF Connect

LEMMA ProgressFails ==
  ASSUME TypeOK, NEW i \in Instances, Progress(i),
         QueryFails(i) \/ NothingIsAnError(i) \/ UpRejects(i)
  PROVE  Progress(i)'
<1>0. /\ project' = project /\ flags' = flags /\ pc \in [Instances -> Stages]
      /\ reached' = reached
  BY DEF QueryFails, NothingIsAnError, UpRejects, TypeOK, history
<1>1. \/ Stops(i)
      \/ Goto(i, "done") /\ Fails(i)
  BY Zenon DEF QueryFails, NothingIsAnError, UpRejects
<1>2. Goto(i, "done") /\ Fails(i) => pc'[i] = "done" /\ i \in failed'
  BY <1>0 DEF Goto, Fails
<1> QED  BY <1>0, <1>1, <1>2, BadEnd

(* validate and validate-all.                                              *)
LEMMA ProgressJudge ==
  ASSUME TypeOK, NEW i \in Instances, StagesFit(i), Progress(i), Judge(i)
  PROVE  Progress(i)'
<1>0. /\ project' = project /\ flags' = flags /\ pc \in [Instances -> Stages]
      /\ reached' = reached /\ log' = log /\ pc'[i] = "done"
      /\ project.command \in {"validate", "validate-all"}
      /\ failed \subseteq failed'
  BY DEF Judge, TypeOK, history, Goto, StagesFit, Fails
<1>1. CASE i \in failed'
  BY <1>0, <1>1, BadEnd
<1>2. CASE i \notin failed'
  <2>1. ~Fails(i)
    BY <1>2 DEF Fails
  <2>2. \A n \in Judged(i) : Passes(project, flags, n)
    BY <2>1, Zenon DEF Judge
  <2>3. ~Executes /\ ~Tested /\ project.command # "sync"
    BY <1>0 DEF Executes, Tested
  <2>4. \A n \in (IF project.pendingOnly THEN Files \ log'[i] ELSE Files) :
          Passes(project, flags, n)
    BY <1>0, <2>2 DEF Judged, Pending
  <2>5. ResultWith(log'[i], mail'[i], ran'[i], reached'[i], schema'[i],
                   kept'[i], mem'[i])
    BY <2>3, <2>4, Zenon DEF ResultWith
  <2>6. Result(i)'
    BY <1>0, <2>5, ResultLater
  <2> QED  BY <1>0, <2>6 DEF Progress, SoFar
<1> QED  BY <1>1, <1>2

(* up-all and sync: everything is applied, and the email says so.          *)
LEMMA ResultOfUp ==
  ASSUME project' = project, flags' = flags, NEW i,
         project.command \in {"up-all", "sync"}, log'[i] = Files,
         project.command = "sync" =>
           mail'[i] = [status |-> "applied", applied |-> ran'[i]]
  PROVE  Result(i)'
<1>1. Executes /\ ~Tested
  BY DEF Executes, Tested
<1>2. ResultWith(log'[i], mail'[i], ran'[i], reached'[i], schema'[i],
                 kept'[i], mem'[i])
  BY <1>1, Zenon DEF ResultWith
<1> QED  BY <1>2, ResultLater

LEMMA ProgressSync ==
  ASSUME TypeOK, NEW i \in Instances, StagesFit(i), Progress(i),
         Gate(i) \/ LookBefore(i) \/ Report(i)
  PROVE  Progress(i)'
<1>0. /\ project' = project /\ flags' = flags /\ pc \in [Instances -> Stages]
      /\ reached' = reached /\ log' = log /\ ran' = ran
      /\ project.command \in {"up-all", "sync"}
      /\ failed \subseteq failed' /\ mem'[i].applied = mem[i].applied
  BY DEF Gate, LookBefore, Report, TypeOK, history, StagesFit, Fails, Memories
<1>1. CASE Gate(i)
  <2>1. mem' = mem /\ pc[i] = "gate"
    BY <1>1 DEF Gate
  <2>2. \/ pc'[i] = "done" /\ (i \in failed' \/ project.dryRun)
        \/ pc'[i] = "up" \/ pc'[i] = "before"
    <3> DEFINE failing == {n \in Pending(i) : ~Passes(project, flags, n)}
    <3>1. /\ Goto(i, IF failing # {} \/ project.dryRun THEN "done"
                     ELSE IF project.command = "sync" THEN "before" ELSE "up")
          /\ failing # {} => Fails(i)
      BY <1>1, Zenon DEF Gate
    <3> HIDE DEF failing
    <3> QED  BY <1>0, <3>1 DEF Goto, Fails
  <2>3. i \notin failed /\ project.command = "sync" => mem[i].applied = ran[i]
    BY <2>1 DEF Progress, SoFar
  <2> QED  BY <1>0, <2>1, <2>2, <2>3 DEF Progress, SoFar
<1>2. CASE LookBefore(i)
  <2>1. pc[i] = "before" /\ pc'[i] = "up"
    BY <1>0, <1>2 DEF LookBefore, Goto
  <2>2. i \notin failed /\ project.command = "sync" => mem[i].applied = ran[i]
    BY <2>1 DEF Progress, SoFar
  <2> QED  BY <1>0, <2>1, <2>2 DEF Progress, SoFar
<1>3. CASE Report(i)
  <2>1. pc[i] = "after" /\ pc'[i] = "done"
    BY <1>0, <1>3 DEF Report, Goto
  <2>2. CASE i \in failed'
    BY <1>0, <2>1, <2>2, BadEnd
  <2>3. CASE i \notin failed'
    <3>1. mail' = [mail EXCEPT ![i] = [status |-> "applied",
                                       applied |-> mem[i].applied]]
      <4>1. ~Fails(i)
        BY <2>3 DEF Fails
      <4> QED  BY <1>3, <4>1, Zenon DEF Report
    <3>2. mail'[i] = [status |-> "applied", applied |-> mem[i].applied]
      BY <3>1 DEF TypeOK
    <3>3. log[i] = Files /\ project.command = "sync"
          /\ mem[i].applied = ran[i]
      BY <1>0, <2>1, <2>3 DEF Progress, SoFar, StagesFit
    <3>4. Result(i)'
      BY <1>0, <3>2, <3>3, ResultOfUp
    <3> QED  BY <1>0, <2>1, <3>4 DEF Progress, SoFar
  <2> QED  BY <2>2, <2>3
<1> QED  BY <1>1, <1>2, <1>3

(* test-instances and test-all, in front of the test.                      *)
LEMMA ProgressValidate ==
  ASSUME TypeOK, NEW i \in Instances, StagesFit(i), Progress(i), Validate(i)
  PROVE  Progress(i)'
<1>0. /\ project' = project /\ flags' = flags /\ pc \in [Instances -> Stages]
      /\ reached' = reached /\ log' = log /\ schema' = schema
      /\ pc[i] = "validate" /\ project.command \in Tests \ {"test"}
      /\ failed \subseteq failed'
  BY DEF Validate, TypeOK, history, StagesFit, Fails, TestStages
<1> DEFINE skips == \/ project.validateOnly
                    \/ project.command = "test-all" /\ ExpectsRejections
<1>1. \/ pc'[i] = "up1"
      \/ pc'[i] = "done" /\ (skips \/ i \in failed')
  <2>1. \/ Goto(i, IF skips THEN "done" ELSE "up1")
        \/ /\ Goto(i, IF project.validateOnly THEN "done" ELSE "up1")
           /\ Fails(i)
    BY Zenon DEF Validate
  <2> HIDE DEF skips
  <2> QED  BY <1>0, <2>1 DEF Goto, Fails
<1>2. FirstUp(i)'
  BY <1>0, StillThere DEF Progress
<1>3. CASE pc'[i] = "done" /\ i \in failed'
  BY <1>0, <1>3, BadEnd
<1>4. CASE pc'[i] = "done" /\ skips
  <2>1. SUFFICES ASSUME ~project.validateOnly PROVE Result(i)'
    BY <1>0, <1>4 DEF Progress, SoFar
  <2>2. project.command = "test-all" /\ ExpectsRejections
    BY <1>4, <2>1
  <2>3. ~Tested /\ Executes /\ project.command # "sync"
    BY <2>2 DEF Tested, Executes
  <2>4. ResultWith(log'[i], mail'[i], ran'[i], reached'[i], schema'[i],
                   kept'[i], mem'[i])
    BY <2>2, <2>3, Zenon DEF ResultWith
  <2> QED  BY <1>0, <2>4, ResultLater
<1>5. CASE pc'[i] = "up1"
  <2>1. ASSUME i \notin failed', Tested PROVE AllPass
    <3>1. ~Fails(i)
      BY <2>1 DEF Fails
    <3>2. IF project.command = "test-all" THEN \A n \in Files : AsExpected(n)
          ELSE \A n \in Files : Passes(project, NoRelease, n)
      BY <3>1, Zenon DEF Validate
    <3>3. ASSUME \A n \in Files : AsExpected(n), NEW n \in Files
          PROVE  Passes(project, NoRelease, n)
      <4>1. File(n).expect = {}
        BY <2>1, <3>3 DEF Tested, ExpectsRejections
      <4>2. CodesOf(Findings(project, NoRelease, n)) = {}
        BY <3>3, <4>1 DEF AsExpected
      <4> QED  BY <4>2 DEF CodesOf, Passes
    <3> QED  BY <3>2, <3>3 DEF AllPass
  <2>2. ASSUME i \notin failed', Tested' PROVE AllPass'
    BY <1>0, <2>1, <2>2, ProjectLater
  <2> QED  BY <1>0, <1>2, <1>5, <2>2 DEF Progress, SoFar
<1> QED  BY <1>1, <1>3, <1>4, <1>5

(* One file more, of those that complete.                                  *)
LEMMA CompleteStep ==
  ASSUME NEW p, IsProject(p), NEW n \in 1..Len(p.files), CompleteIn(p, n - 1),
         Completes(Applied(p, n - 1), p.files[n].up)
  PROVE  /\ CompleteIn(p, n)
         /\ Applied(p, n) = After(Applied(p, n - 1), p.files[n].up,
                                  Len(p.files[n].up))
<1>0. Len(p.files) \in Nat
  BY FilesOf
<1>1. n - 1 \in Nat /\ (n - 1) + 1 = n
  BY <1>0
<1>2. Applied(p, (n - 1) + 1)
        = After(Applied(p, n - 1), p.files[(n - 1) + 1].up,
                Len(p.files[(n - 1) + 1].up))
  BY <1>1, AppliedSteps
<1>3. ASSUME NEW k \in 1..n
      PROVE  Completes(Applied(p, k - 1), p.files[k].up)
  <2>1. CASE k = n
    BY <2>1
  <2>2. CASE k # n
    <3>1. k \in 1..(n - 1)
      BY <1>1, <2>2
    <3> QED  BY <3>1 DEF CompleteIn
  <2> QED  BY <2>1, <2>2
<1> QED  BY <1>1, <1>2, <1>3 DEF CompleteIn

(* The next file is applied: what FirstUp and Again say moves on with it.  *)
LEMMA NextFile ==
  ASSUME TypeOK, NEW i \in Instances, project' = project, flags' = flags,
         Pending(i) # {}, NEW n, n = First(Pending(i)),
         Completes(schema[i], File(n).up),
         log'[i] = log[i] \cup {n},
         schema'[i] = After(schema[i], File(n).up, Len(File(n).up))
  PROVE  /\ FirstUp(i) => FirstUp(i)'
         /\ CompleteIn(project, N) /\ Again(i) => Again(i)'
<1>1. /\ n \in Files /\ log[i] = 1..(n - 1) /\ N \in Nat
      /\ IsProject(project) /\ schema[i] \in Schemas
  BY HereFacts, ProjectFacts DEF TypeOK, IsProject
<1>2. /\ n \in 1..N /\ n - 1 \in 0..N /\ n - 1 \in Nat /\ n \in 0..N /\ n \in Nat
      /\ (1..(n - 1)) \cup {n} = 1..n
  BY <1>1 DEF Files
<1>3. log'[i] = 1..n
  BY <1>1, <1>2
<1>4. N = Len(project.files) /\ N' = N /\ File(n) = project.files[n]
  BY ProjectLater DEF N, File
<1>5. ASSUME FirstUp(i)
      PROVE  FirstUp(i)'
  <2>1. schema[i] = Applied(project, n - 1) /\ CompleteIn(project, n - 1)
    BY <1>1, <1>2, <1>5 DEF FirstUp
  <2>2. schema'[i] = Applied(project, n) /\ CompleteIn(project, n)
    BY <1>1, <1>2, <1>4, <2>1, CompleteStep
  <2>3. SUFFICES ASSUME NEW m \in 0..N, log'[i] = 1..m
                 PROVE  schema'[i] = Applied(project, m)
                        /\ CompleteIn(project, m)
    BY <1>4, Zenon DEF FirstUp
  <2>4. m = n
    BY <1>2, <1>3, <2>3, SameInterval
  <2> QED  BY <2>2, <2>4
<1>6. ASSUME CompleteIn(project, N), Again(i)
      PROVE  Again(i)'
  <2>1. SUFFICES ASSUME DownsFit(project), NEW m \in 0..N, log'[i] = 1..m
                 PROVE  Repeats(project, m, schema'[i])
    BY <1>4, Zenon DEF Again
  <2>2. m = n
    BY <1>2, <1>3, <2>1, SameInterval
  <2>3. Repeats(project, n - 1, schema[i])
    BY <1>1, <1>2, <1>6, <2>1 DEF Again
  <2>4. Completes(Applied(project, n - 1), project.files[n].up)
    BY <1>2, <1>6 DEF CompleteIn
  <2>5. n \in 1..Len(project.files) /\ Completes(schema[i], project.files[n].up)
    BY <1>2, <1>4
  <2>6. Repeats(project, n, After(schema[i], project.files[n].up,
                                  Len(project.files[n].up)))
    BY <1>1, <2>3, <2>4, <2>5, RepeatsStep
  <2> QED  BY <1>4, <2>2, <2>6
<1> QED  BY <1>5, <1>6

LEMMA ProgressUpFile ==
  ASSUME TypeOK, NEW i \in Instances, StagesFit(i), Progress(i), UpFile(i)
  PROVE  Progress(i)'
<1>0. /\ project' = project /\ flags' = flags /\ pc \in [Instances -> Stages]
      /\ reached' = reached /\ kept' = kept /\ Pending(i) # {}
      /\ pc[i] \in UpStages
  BY DEF UpFile, TypeOK
<1> DEFINE n == First(Pending(i))
<1>1. CASE Stops(i)
  BY <1>0, <1>1, BadEnd
<1>2. CASE /\ pc' = pc /\ failed' = failed
           /\ log' = [log EXCEPT ![i] = @ \cup {n}]
           /\ Completes(schema[i], File(n).up)
           /\ Remember(i, n, Reach(schema[i], File(n).up))
           /\ schema'[i] = After(schema[i], File(n).up, Len(File(n).up))
           /\ mem' = IF pc[i] = "up"
                     THEN [mem EXCEPT ![i].applied = @ \cup {n}]
                     ELSE mem
  <2>1. log'[i] = log[i] \cup {n}
    <3> HIDE DEF n
    <3> QED  BY <1>2 DEF TypeOK
  <2>2. /\ FirstUp(i) => FirstUp(i)'
        /\ CompleteIn(project, N) /\ Again(i) => Again(i)'
    <3> HIDE DEF n
    <3> QED  BY <1>0, <1>2, <2>1, NextFile DEF n
  <2>3. pc[i] = "up" => (mem[i].applied = ran[i] => mem'[i].applied = ran'[i])
    <3>1. SUFFICES ASSUME pc[i] = "up", mem[i].applied = ran[i]
                   PROVE  mem'[i].applied = ran'[i]
      OBVIOUS
    <3>2. ran' = [ran EXCEPT ![i] = @ \cup {n}]
      BY <1>2, <3>1, Zenon DEF Remember
    <3>3. mem' = [mem EXCEPT ![i].applied = @ \cup {n}]
      BY <1>2, <3>1
    <3>4. mem[i] \in Memories /\ mem \in [Instances -> Memories]
      BY DEF TypeOK
    <3>5. ran'[i] = ran[i] \cup {n}
      <4> HIDE DEF n
      <4> QED  BY <3>2 DEF TypeOK
    <3>6. mem'[i].applied = mem[i].applied \cup {n}
      <4> HIDE DEF n
      <4> QED  BY <3>3, <3>4 DEF Memories
    <3> QED  BY <3>1, <3>5, <3>6
  <2>4. Reached(i)' <=> Reached(i)
    BY <1>0, StillThere
  <2>5. (AllPass' <=> AllPass) /\ (Tested' <=> Tested)
    BY <1>0, ProjectLater
  <2>6. pc'[i] = pc[i]
    BY <1>2
  <2> HIDE DEF n
  <2>7. SoFar(i) => SoFar(i)'
    BY <1>0, <2>3, <2>5, <2>6 DEF SoFar, UpStages
  <2> QED  BY <1>0, <1>2, <2>2, <2>4, <2>6, <2>7
           DEF Progress, UpStages, Reached
<1>3. \/ Stops(i)
      \/ /\ pc' = pc /\ failed' = failed
         /\ log' = [log EXCEPT ![i] = @ \cup {n}]
         /\ Completes(schema[i], File(n).up)
         /\ Remember(i, n, Reach(schema[i], File(n).up))
         /\ schema'[i] = After(schema[i], File(n).up, Len(File(n).up))
         /\ mem' = IF pc[i] = "up"
                   THEN [mem EXCEPT ![i].applied = @ \cup {n}]
                   ELSE mem
  BY UpFileFacts, Zenon
<1> QED  BY <1>1, <1>2, <1>3

(* Everything was applied twice: the second time has cost nothing.         *)
LEMMA AgainAll ==
  ASSUME TypeOK, NEW i \in Instances, Again(i), Reached(i), log[i] = Files,
         AllPass, ~TakesOthers
  PROVE  reached[i] \subseteq schema[i].tables
<1>1. DownsFit(project)
  BY PassesFit DEF AllPass
<1>2. N \in Nat /\ N \in 0..N /\ N = Len(project.files)
  BY ProjectFacts DEF N
<1>3. Repeats(project, N, schema[i])
  BY <1>1, <1>2 DEF Again, Files
<1>4. Applied(project, N).tables \subseteq schema[i].tables
  BY <1>2, <1>3, RepeatsAll
<1> QED  BY <1>4 DEF Reached

(* The test passed, or the sanity checks after it did.                     *)
LEMMA ResultOfTest ==
  ASSUME project' = project, flags' = flags, NEW i,
         project.command \in Tests, log'[i] = Files,
         project.command # "test" /\ Tested /\ kept'[i] = {} /\ ~TakesOthers
           => reached'[i] \subseteq schema'[i].tables,
         ~ (/\ project.sanity /\ Tested /\ kept'[i] = {}
            /\ N = 1 /\ File(1).rollback /\ File(1).check # "none")
  PROVE  Result(i)'
<1>1. Executes /\ project.command # "sync"
  BY DEF Executes, Tests
<1>2. \/ ~Tested \/ project.command = "test"
      \/ reached'[i] \subseteq schema'[i].tables
      \/ TakesOthers \/ kept'[i] # {}
  OBVIOUS
<1>3. ResultWith(log'[i], mail'[i], ran'[i], reached'[i], schema'[i],
                 kept'[i], mem'[i])
  BY <1>1, <1>2, Zenon DEF ResultWith
<1> QED  BY <1>3, ResultLater

LEMMA ProgressUpEnd ==
  ASSUME TypeOK, NEW i \in Instances, StagesFit(i), Progress(i), UpEnd(i)
  PROVE  Progress(i)'
<1>0. /\ project' = project /\ flags' = flags /\ pc \in [Instances -> Stages]
      /\ log' = log /\ schema' = schema /\ ran' = ran /\ kept' = kept
      /\ failed' = failed /\ pc[i] \in UpStages
      /\ mem'[i].applied = mem[i].applied /\ log[i] = Files
  <2>1. Pending(i) = {} /\ mem' = [mem EXCEPT ![i].count = 0]
    BY DEF UpEnd
  <2>2. log[i] = Files
    BY <2>1, HereFacts
  <2>3. mem'[i].applied = mem[i].applied
    BY <2>1 DEF TypeOK, Memories
  <2> QED  BY <2>2, <2>3 DEF UpEnd, TypeOK
<1>1. N \in Nat /\ N \in 0..N /\ Files = 1..N
  BY ProjectFacts DEF Files
<1>2. CASE pc[i] = "up"
  <2>1. /\ project.command \in {"up-all", "sync"}
        /\ pc'[i] = IF project.command = "sync" THEN "after" ELSE "done"
        /\ project.command = "sync" => pc'[i] = "after"
    BY <1>0, <1>2 DEF UpEnd, Goto, StagesFit
  <2>2. CASE project.command = "sync"
    <3>1. i \notin failed => mem'[i].applied = ran'[i]
      BY <1>0, <1>2, <2>2 DEF Progress, SoFar
    <3>2. log'[i] = Files'
      BY <1>0, ProjectLater
    <3> QED  BY <1>0, <2>1, <2>2, <3>1, <3>2 DEF Progress, SoFar
  <2>3. CASE project.command # "sync"
    <3>1. log'[i] = Files /\ project.command \in {"up-all", "sync"}
      BY <1>0, <2>1
    <3>2. project.command = "sync" =>
            mail'[i] = [status |-> "applied", applied |-> ran'[i]]
      BY <2>3
    <3>3. Result(i)'
      <4>1. project' = project /\ flags' = flags
        BY <1>0
      <4> QED  BY <3>1, <3>2, <4>1, ResultOfUp
    <3> QED  BY <1>0, <2>1, <2>3, <3>3 DEF Progress, SoFar
  <2> QED  BY <2>2, <2>3
<1>3. CASE pc[i] = "up1"
  <2>1. /\ pc'[i] = "down1" /\ project.command \in Tests
        /\ reached'[i] = schema[i].tables
    <3>1. pc'[i] = "down1"
      BY <1>0, <1>3 DEF UpEnd, Goto
    <3>2. reached' = [reached EXCEPT ![i] = schema[i].tables]
      BY <1>3 DEF UpEnd
    <3> QED  BY <1>3, <3>1, <3>2 DEF TypeOK, StagesFit, TestStages
  <2>2. FirstUp(i)
    BY <1>3, <2>1 DEF Progress
  <2>3. schema[i] = Applied(project, N) /\ CompleteIn(project, N)
    BY <1>0, <1>1, <2>2 DEF FirstUp
  <2>4. Reached(i)'
    <3>1. N' = N
      BY <1>0, ProjectLater
    <3> QED  BY <1>0, <2>1, <2>3, <3>1 DEF Reached
  <2>5. i \notin failed /\ project.command # "test" /\ Tested' => AllPass'
    BY <1>0, <1>3, ProjectLater DEF Progress, SoFar
  <2> QED  BY <1>0, <2>1, <2>4, <2>5 DEF Progress, SoFar
<1>4. CASE pc[i] = "up2"
  <2>1. /\ pc'[i] \in {AfterTest, "cleanup"} /\ reached' = reached
        /\ project.command \in Tests
    BY <1>0, <1>4 DEF UpEnd, Goto, StagesFit, TestStages
  <2>2. Reached(i) /\ Again(i)
    BY <1>4 DEF Progress
  <2>3. i \notin failed /\ project.command # "test" /\ Tested => AllPass
    BY <1>4 DEF Progress, SoFar
  <2>4. CASE pc'[i] = "cleanup"
    BY <2>4 DEF Progress, SoFar
  <2>5. CASE pc'[i] = "clear"
    <3>1. Reached(i)'
      BY <1>0, <2>1, <2>2, StillThere
    <3>2. i \notin failed /\ project.command # "test" /\ Tested' => AllPass'
      BY <1>0, <2>3, ProjectLater
    <3> QED  BY <1>0, <2>5, <3>1, <3>2 DEF Progress, SoFar
  <2>6. CASE pc'[i] = "done"
    <3>1. ~project.sanity
      BY <2>1, <2>6 DEF AfterTest
    <3>2. SUFFICES ASSUME i \notin failed PROVE Result(i)'
      BY <1>0, <2>6 DEF Progress, SoFar
    <3>3. project.command # "test" /\ Tested /\ ~TakesOthers
            => reached'[i] \subseteq schema'[i].tables
      BY <1>0, <2>1, <2>2, <2>3, <3>2, AgainAll
    <3>4. log'[i] = Files
      BY <1>0
    <3> QED  BY <1>0, <2>1, <3>1, <3>3, <3>4, ResultOfTest
  <2> QED  BY <2>1, <2>4, <2>5, <2>6 DEF AfterTest
<1> QED  BY <1>0, <1>2, <1>3, <1>4 DEF UpStages

(* Nothing is applied any more: from here everything is applied again.     *)
LEMMA AgainStarts ==
  ASSUME TypeOK, NEW i \in Instances, Untouched(i), project' = project,
         flags' = flags, log'[i] = {}, schema'[i] = schema[i]
  PROVE  Again(i)'
<1>1. N' = N /\ N \in Nat
  BY ProjectLater, ProjectFacts
<1>2. SUFFICES ASSUME DownsFit(project), NEW m \in 0..N, log'[i] = 1..m
               PROVE  Repeats(project, m, schema'[i])
  BY <1>1, Zenon DEF Again
<1>3. m = 0
  <2>1. m # 0 => m \in 1..m
    BY <1>1
  <2> QED  BY <1>2, <2>1
<1>4. LeavesBase(project, schema[i])
  BY <1>2 DEF Untouched
<1> QED  BY <1>3, <1>4, RepeatsStart

LEMMA ProgressDown ==
  ASSUME TypeOK, NEW i \in Instances, StagesFit(i), Progress(i), Untouched(i),
         DownFile(i) \/ DownEnd(i)
  PROVE  Progress(i)'
<1>1. CASE DownFile(i)
  <2>1. /\ project' = project /\ flags' = flags /\ pc[i] \in DownStages
        /\ reached' = reached
        /\ \/ Stops(i)
           \/ pc' = pc /\ failed' = failed /\ mail' = mail
    BY <1>1, DownFileFacts
  <2>2. CASE Stops(i)
    BY <2>1, <2>2, BadEnd
  <2>3. CASE pc' = pc /\ failed' = failed
    <3>1. Reached(i)' <=> Reached(i)
      BY <2>1, StillThere
    <3>2. (AllPass' <=> AllPass) /\ (Tested' <=> Tested)
      BY <2>1, ProjectLater
    <3> QED  BY <2>1, <2>3, <3>1, <3>2 DEF Progress, SoFar, DownStages
  <2> QED  BY <2>1, <2>2, <2>3
<1>2. CASE DownEnd(i)
  <2>0. /\ project' = project /\ flags' = flags
        /\ pc \in [Instances -> Stages] /\ pc[i] \in DownStages
        /\ log' = log /\ schema' = schema /\ reached' = reached
        /\ log[i] = {}
    BY <1>2 DEF DownEnd, TypeOK, history
  <2>1. Reached(i)' <=> Reached(i)
    BY <2>0, StillThere
  <2>2. (AllPass' <=> AllPass) /\ (Tested' <=> Tested)
    BY <2>0, ProjectLater
  <2>3. CASE pc[i] = "down1"
    <3>1. pc'[i] = "up2" /\ failed' = failed
      BY <1>2, <2>0, <2>3 DEF DownEnd, Goto
    <3>2. Again(i)'
      BY <2>0, AgainStarts
    <3> QED  BY <2>0, <2>1, <2>2, <2>3, <3>1, <3>2 DEF Progress, SoFar
  <2>4. CASE pc[i] = "cleanup"
    <3>1. pc'[i] \in {"done", "clear"} /\ i \in failed'
      BY <1>2, <2>0, <2>4 DEF DownEnd, Goto, Fails, AfterTest
    <3> QED  BY <3>1 DEF Progress
  <2>5. CASE pc[i] = "clear"
    <3>1. pc'[i] = "snapshot" /\ failed' = failed
      BY <1>2, <2>0, <2>5 DEF DownEnd, Goto
    <3> QED  BY <2>0, <2>1, <2>2, <2>5, <3>1 DEF Progress, SoFar
  <2> QED  BY <2>0, <2>3, <2>4, <2>5 DEF DownStages
<1> QED  BY <1>1, <1>2

LEMMA ProgressSnapshot ==
  ASSUME TypeOK, NEW i \in Instances, StagesFit(i), Progress(i), Untouched(i),
         Snapshot(i)
  PROVE  Progress(i)'
<1>0. /\ project' = project /\ flags' = flags /\ pc[i] = "snapshot"
      /\ log' = log /\ schema' = schema /\ reached' = reached
      /\ failed' = failed
      /\ pc'[i] = "sanity" /\ kept'[i] = log[i] /\ mem'[i].count = 0
  <2>1. mem' = [mem EXCEPT ![i].count = 0, ![i].before = schema[i]]
    BY DEF Snapshot
  <2>2. mem'[i].count = 0
    BY <2>1 DEF TypeOK, Memories
  <2> QED  BY <2>2 DEF Snapshot, Goto, TypeOK
<1>1. SUFFICES ASSUME i \notin failed PROVE SoFar(i)'
  BY <1>0 DEF Progress
<1>2. Reached(i)'
  BY <1>0, <1>1, StillThere DEF Progress, SoFar
<1>3. project.command # "test" /\ Tested' => AllPass'
  BY <1>0, <1>1, ProjectLater DEF Progress, SoFar
<1>4. kept'[i] = {} => Again(i)'
  BY <1>0, AgainStarts
<1>5. ShownRolledBack(i)' => log'[i] = {} /\ mem'[i].count = 0
  BY <1>0 DEF ShownRolledBack, RollBackUnnoticed
<1> QED  BY <1>0, <1>2, <1>3, <1>4, <1>5 DEF SoFar

LEMMA ProgressSanityFile ==
  ASSUME TypeOK, NEW i \in Instances, StagesFit(i), Progress(i), SanityFile(i)
  PROVE  Progress(i)'
<1> DEFINE n == First(Pending(i))
<1>0. /\ project' = project /\ flags' = flags /\ pc \in [Instances -> Stages]
      /\ pc[i] = "sanity" /\ Pending(i) # {} /\ n \in Files
      /\ reached' = reached /\ kept' = kept /\ ran' = ran
      /\ project.command \in Tests /\ project.sanity
  <2>1. /\ pc[i] = "sanity" /\ Pending(i) # {}
        /\ project' = project /\ flags' = flags /\ UNCHANGED history
    BY SanityFileBranches
  <2>2. n \in Files
    BY <2>1, HereFacts
  <2> QED  BY <2>1, <2>2 DEF history, TypeOK, StagesFit, TestStages
<1>1. ASSUME SanityFails(i) \/ SanityFaults(i)
      PROVE  Progress(i)'
  <2>1. Stops(i)
    BY <1>1, Zenon DEF SanityFails, SanityFaults
  <2> QED  BY <1>0, <2>1, BadEnd
<1>2. ASSUME SanityApplies(i)
      PROVE  Progress(i)'
  <2>1. /\ File(n).check \notin {"pre", "post"}
        /\ Completes(schema[i], File(n).up)
        /\ schema' = [schema EXCEPT ![i] = After(schema[i], File(n).up,
                                        Reach(schema[i], File(n).up))]
        /\ log' = [log EXCEPT ![i] = @ \cup {n}]
        /\ IF File(n).check = "pass" /\ File(n).rollback THEN Fails(i)
           ELSE UNCHANGED failed
        /\ pc' = pc
    BY <1>2, Zenon DEF SanityApplies
  <2>2. log'[i] = log[i] \cup {n}
    <3> HIDE DEF n
    <3> QED  BY <2>1 DEF TypeOK
  <2>3. schema'[i] = After(schema[i], File(n).up, Len(File(n).up))
    <3> HIDE DEF n
    <3> QED  BY <2>1 DEF TypeOK, Completes
  <2>4. CompleteIn(project, N) /\ Again(i) => Again(i)'
    <3> HIDE DEF n
    <3> QED  BY <1>0, <2>1, <2>2, <2>3, NextFile DEF n
  <2>5. SUFFICES ASSUME i \notin failed' PROVE SoFar(i)'
    BY <1>0, <2>1 DEF Progress
  <2>6. i \notin failed /\ ~ (File(n).check = "pass" /\ File(n).rollback)
    BY <2>1, <2>5 DEF Fails
  <2>7. SoFar(i) /\ Reached(i)
    BY <1>0, <2>6 DEF Progress, SoFar
  <2>8. Reached(i)'
    BY <1>0, <2>7, StillThere
  <2>9. project.command # "test" /\ Tested' => AllPass'
    BY <1>0, <2>7, ProjectLater DEF SoFar
  <2>10. kept'[i] = {} => Again(i)'
    BY <1>0, <2>4, <2>7 DEF SoFar, Reached
  <2>11. ~ShownRolledBack(i)'
    <3>1. SUFFICES ASSUME N = 1, File(1).rollback, File(1).check # "none"
                   PROVE  FALSE
      <4>1. N' = N /\ File(1)' = File(1)
        BY <1>0, ProjectLater
      <4> QED  BY <4>1, Zenon DEF ShownRolledBack
    <3>2. n = 1
      BY <1>0, <3>1 DEF Files
    <3>3. File(n).check \in {"none", "pre", "post", "pass"}
      BY <1>0, ProjectFacts DEF Migrations
    <3> QED  BY <2>1, <2>6, <3>1, <3>2, <3>3
  <2>12. pc'[i] = "sanity"
    BY <1>0, <2>1
  <2> QED  BY <1>0, <2>8, <2>9, <2>10, <2>11, <2>12 DEF SoFar
<1>3. ASSUME SanityRollsBack(i)
      PROVE  Progress(i)'
  <2> DEFINE up == After(schema[i], File(n).up, Reach(schema[i], File(n).up))
             down == After(up, File(n).down, Reach(up, File(n).down))
  <2>1. /\ schema' = [schema EXCEPT ![i] = down]
        /\ Goto(i, "done") /\ mem' = mem
        /\ IF /\ File(n).rollback /\ log' = log
              /\ mem[i].count > 0 \/ SameSchema(mem[i].before, down)
           THEN UNCHANGED failed ELSE Fails(i)
    BY <1>3, Zenon DEF SanityRollsBack
  <2>2. pc'[i] = "done"
    BY <1>0, <2>1 DEF Goto
  <2>3. CASE i \in failed'
    BY <1>0, <2>2, <2>3, BadEnd
  <2>4. CASE i \notin failed'
    <3>1. /\ File(n).rollback /\ log' = log /\ failed' = failed
          /\ mem[i].count > 0 \/ SameSchema(mem[i].before, down)
      BY <2>1, <2>4, Zenon DEF Fails
    <3>2. schema'[i] = down
      <4> HIDE DEF down
      <4> QED  BY <2>1 DEF TypeOK
    <3>3. pc[i] = "sanity" /\ ShownRolledBack(i) =>
            log[i] = {} /\ mem[i].count = 0
      BY <2>4, <3>1, Zenon DEF Progress, SoFar
    <3> HIDE DEF down, up
    <3>4. ASSUME project.sanity, Tested, kept'[i] = {}, N = 1,
                 File(1).rollback, File(1).check # "none"
          PROVE  log'[i] = {} /\ SameSchema(mem'[i].before, schema'[i])
      <4>1. ShownRolledBack(i)
        BY <1>0, <3>4 DEF ShownRolledBack, RollBackUnnoticed
      <4>2. log[i] = {} /\ mem[i].count = 0
        BY <1>0, <3>3, <4>1
      <4>3. ~ (mem[i].count > 0)
        BY <4>2
      <4> QED  BY <2>1, <3>1, <3>2, <4>2, <4>3
    <3>5. Executes /\ project.command # "sync"
      BY <1>0 DEF Executes, Tests
    <3>6. project.sanity /\ \E m \in Files : File(m).rollback
      BY <1>0, <3>1
    <3>7. ResultWith(log'[i], mail'[i], ran'[i], reached'[i], schema'[i],
                     kept'[i], mem'[i])
      BY <3>4, <3>5, <3>6, Zenon DEF ResultWith
    <3>8. Result(i)'
      BY <1>0, <3>7, ResultLater
    <3> QED  BY <1>0, <2>2, <3>8 DEF Progress, SoFar
  <2> QED  BY <2>3, <2>4
<1> QED  BY <1>1, <1>2, <1>3, SanityFileBranches

LEMMA ProgressSanityEnd ==
  ASSUME TypeOK, NEW i \in Instances, StagesFit(i), Progress(i), SanityEnd(i)
  PROVE  Progress(i)'
<1>0. /\ project' = project /\ flags' = flags /\ pc[i] = "sanity"
      /\ log' = log /\ schema' = schema /\ failed' = failed
      /\ reached' = reached /\ kept' = kept
      /\ pc'[i] = "done" /\ log[i] = Files /\ project.command \in Tests
  <2>1. Pending(i) = {}
    BY DEF SanityEnd
  <2>2. log[i] = Files
    BY <2>1, HereFacts
  <2> QED  BY <2>2
           DEF SanityEnd, Goto, TypeOK, history, StagesFit, TestStages
<1>1. SUFFICES ASSUME i \notin failed PROVE Result(i)'
  BY <1>0 DEF Progress, SoFar
<1>2. SoFar(i) /\ Reached(i)
  BY <1>0, <1>1 DEF Progress, SoFar
<1>3. project.command # "test" /\ Tested /\ kept'[i] = {} /\ ~TakesOthers
        => reached'[i] \subseteq schema'[i].tables
  BY <1>0, <1>2, AgainAll DEF SoFar
<1>4. ~ (/\ project.sanity /\ Tested /\ kept'[i] = {}
         /\ N = 1 /\ File(1).rollback /\ File(1).check # "none")
  <2>1. SUFFICES ASSUME project.sanity, Tested, kept[i] = {},
                        N = 1, File(1).rollback, File(1).check # "none"
                 PROVE  FALSE
    BY <1>0
  <2>2. ShownRolledBack(i)
    BY <2>1 DEF ShownRolledBack, RollBackUnnoticed
  <2>3. log[i] = {}
    BY <1>0, <1>2, <2>2 DEF SoFar
  <2>4. 1 \in Files
    BY <2>1 DEF Files
  <2> QED  BY <1>0, <2>3, <2>4
<1>5. log'[i] = Files
  BY <1>0
<1> QED  BY <1>0, <1>3, <1>4, <1>5, ResultOfTest

LEMMA ProgressMove ==
  ASSUME TypeOK, NEW i \in Instances, StagesFit(i), Progress(i), Untouched(i),
         Move(i)
  PROVE  Progress(i)'
BY ProgressConnect, ProgressFails, ProgressJudge, ProgressSync,
   ProgressValidate, ProgressUpFile, ProgressUpEnd, ProgressDown,
   ProgressSnapshot, ProgressSanityFile, ProgressSanityEnd, Zenon DEF Move

ExitInv == Core /\ \A i \in Instances : Untouched(i) /\ Progress(i)

LEMMA ExitInit ==
  ASSUME Init
  PROVE  ExitInv
<1>0. Core /\ TypeOK
  BY CoreInit DEF Core
<1>1. ASSUME NEW i \in Instances
      PROVE  Untouched(i) /\ Progress(i)
  <2> DEFINE m == project.applied[i]
  <2>1. /\ m \in 0..N /\ N \in Nat /\ N = Len(project.files)
        /\ IsProject(project)
        /\ log[i] = 1..m /\ schema[i] = Applied(project, m)
        /\ pc[i] = "connect" /\ mem[i].applied = {} /\ ran[i] = {}
        /\ \A k \in log[i] : Completes(Applied(project, k - 1), File(k).up)
    BY <1>0, <1>1, ProjectFacts DEF Init, IsProject, N, NoMemory
  <2> HIDE DEF m
  <2>2. Untouched(i)
    BY <2>1, LeavesApplied DEF Untouched
  <2>3. FirstUp(i)
    <3>1. SUFFICES ASSUME NEW k \in 0..N, log[i] = 1..k
                   PROVE  schema[i] = Applied(project, k)
                          /\ CompleteIn(project, k)
      BY Zenon DEF FirstUp
    <3>2. k = m
      BY <2>1, <3>1, SameInterval
    <3>3. CompleteIn(project, m)
      BY <2>1 DEF CompleteIn, File
    <3> QED  BY <2>1, <3>2, <3>3
  <2>4. Progress(i)
    BY <2>1, <2>3 DEF Progress, SoFar
  <2> QED  BY <2>2, <2>4
<1> QED  BY <1>0, <1>1 DEF ExitInv

(* What is kept of one instance while the others move.                     *)
LEMMA ProgressKept ==
  ASSUME project' = project, flags' = flags, NEW j, Progress(j), Untouched(j),
         pc'[j] = pc[j], schema'[j] = schema[j], log'[j] = log[j],
         mem'[j] = mem[j], mail'[j] = mail[j], j \in failed' <=> j \in failed,
         ran'[j] = ran[j], reached'[j] = reached[j], kept'[j] = kept[j]
  PROVE  Progress(j)' /\ Untouched(j)'
<1>1. /\ FirstUp(j)' <=> FirstUp(j)
      /\ Again(j)' <=> Again(j)
      /\ Reached(j)' <=> Reached(j)
  BY StillThere
<1>2. /\ AllPass' <=> AllPass
      /\ Tested' <=> Tested
      /\ Files' = Files /\ N' = N /\ File(1)' = File(1)
  BY ProjectLater
<1>3. ShownRolledBack(j)' <=> ShownRolledBack(j)
  BY <1>2, Zenon DEF ShownRolledBack, RollBackUnnoticed
<1>4. ASSUME Result(j)
      PROVE  Result(j)'
  <2>1. RollBackUnnoticed(j) <=> kept[j] # {}
    BY DEF RollBackUnnoticed
  <2>2. ResultWith(log[j], mail[j], ran[j], reached[j], schema[j], kept[j],
                   mem[j])
    BY <1>4, <2>1, Zenon DEF Result, ResultWith, ShownRolledBack, Judged,
       Pending
  <2> QED  BY <2>2, ResultLater
<1>5. SoFar(j) => SoFar(j)'
  BY <1>1, <1>2, <1>3, <1>4 DEF SoFar
<1>6. Progress(j)'
  BY <1>1, <1>5 DEF Progress
<1> QED  BY <1>6, Zenon DEF Untouched

LEMMA ExitStep ==
  ASSUME ExitInv, [Next]_vars
  PROVE  ExitInv'
<1>0. Core /\ Core' /\ TypeOK
  BY CoreStep DEF ExitInv, Core
<1>1. ASSUME NEW i \in Instances, Move(i)
      PROVE  ExitInv'
  <2>0. /\ project' = project /\ flags' = flags /\ Instances' = Instances
        /\ OthersKept(i)
    BY <1>0, <1>1, LocalKept
  <2>1. ASSUME NEW j \in Instances
        PROVE  Untouched(j)' /\ Progress(j)'
    <3>0. Untouched(j) /\ Progress(j) /\ StagesFit(j)
      BY DEF ExitInv, Core
    <3>1. CASE j = i
      BY <1>0, <1>1, <3>0, <3>1, UntouchedMove, ProgressMove
    <3>2. CASE j # i
      <4>1. /\ pc'[j] = pc[j] /\ schema'[j] = schema[j] /\ log'[j] = log[j]
            /\ mem'[j] = mem[j] /\ mail'[j] = mail[j]
            /\ (j \in failed' <=> j \in failed)
            /\ ran'[j] = ran[j] /\ reached'[j] = reached[j]
            /\ kept'[j] = kept[j]
        BY <3>2, <2>0 DEF OthersKept
      <4> QED  BY <2>0, <3>0, <4>1, ProgressKept
    <3> QED  BY <3>1, <3>2
  <2> QED  BY <1>0, <2>0, <2>1 DEF ExitInv
<1>2. CASE RunAgain
  <2>1. /\ project' = project /\ Instances' = Instances
        /\ pc' = [i \in Instances |-> "connect"]
        /\ schema' = schema /\ project.command = "up-all"
    BY <1>0, <1>2, RunAgainFacts
  <2>2. ASSUME NEW i \in Instances
        PROVE  Untouched(i)' /\ Progress(i)'
    <3>1. Untouched(i)'
      BY <2>1, Zenon DEF Untouched, ExitInv
    <3>2. pc'[i] = "connect" /\ project' = project
          /\ project.command \notin Tests /\ project.command # "sync"
      BY <2>1, <2>2 DEF Tests
    <3>3. Progress(i)'
      BY <3>2 DEF Progress, SoFar
    <3> QED  BY <3>1, <3>3
  <2> QED  BY <1>0, <2>1, <2>2 DEF ExitInv
<1>3. CASE UNCHANGED vars
  <2>1. ASSUME NEW j \in Instances
        PROVE  Untouched(j)' /\ Progress(j)'
    <3>0. Untouched(j) /\ Progress(j)
      BY DEF ExitInv
    <3> QED  BY <1>3, <3>0, SameValues, ProgressKept
  <2> QED  BY <1>0, <1>3, <2>1, SameValues DEF ExitInv
<1> QED  BY <1>1, <1>2, <1>3, Zenon DEF Next, Move

(* Exit code 0: every file is applied on every instance and the email says *)
(* what was executed, validation passed everywhere, the test has cost no   *)
(* table and an expected rollback has left nothing, but for the exceptions *)
(* that ExitZeroMeansApplied names.                                        *)
THEOREM ExitZeroIsEarned == Spec => []ExitZeroMeansApplied
<1>1. Init => ExitInv
  BY ExitInit
<1>2. ExitInv /\ [Next]_vars => ExitInv'
  BY ExitStep
<1>3. ASSUME ExitInv
      PROVE  ExitZeroMeansApplied
  <2>1. ASSUME ExitZero, ~project.dryRun, ~project.validateOnly,
               NEW i \in Instances
        PROVE  Result(i)
    <3>1. pc[i] = "done" /\ i \notin failed
      BY <2>1 DEF ExitZero, Ended
    <3>2. SoFar(i)
      BY <1>3, <3>1 DEF ExitInv, Progress
    <3> QED  BY <2>1, <3>1, <3>2 DEF SoFar
  <2> QED  BY <2>1, Zenon DEF ExitZeroMeansApplied, Result
<1> QED  BY <1>1, <1>2, <1>3, PTL DEF Spec
=============================================================================
