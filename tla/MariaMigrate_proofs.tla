------------------------ MODULE MariaMigrate_proofs -------------------------
(***************************************************************************)
(* Theorems about MariaMigrate, for any number of runs, files and          *)
(* contents, checked by TLAPS.                                             *)
(***************************************************************************)
EXTENDS MariaMigrate, OrderLemmas, TLAPS

USE DEF Files, Sums

(***************************************************************************)
(* Lemmas about the operators.                                             *)
(***************************************************************************)
(* A nonempty set of files has a first and a newest one.                   *)
LEMMA FirstIsLeast ==
  ASSUME NEW S \in SUBSET Files, S # {}
  PROVE  First(S) \in S /\ \A g \in S : First(S) <= g
<1>1. S \subseteq Nat
  BY CountAssumption
<1>2. \E x \in S : \A y \in S : x <= y
  BY <1>1, NatMinimum
<1> QED
  BY <1>2 DEF First

LEMMA NewestIsGreatest ==
  ASSUME NEW S \in SUBSET Files, S # {}
  PROVE  Newest(S) \in S /\ \A g \in S : g <= Newest(S)
<1> DEFINE T == {N - f : f \in S}
<1>1. T \subseteq Nat /\ T # {}
  <2>1. \A f \in S : N - f \in Nat
    BY CountAssumption
  <2>2. PICK f \in S : TRUE
    OBVIOUS
  <2>3. N - f \in T
    BY <2>2
  <2> QED
    BY <2>1, <2>3
<1>2. PICK x \in T : \A y \in T : x <= y
  BY <1>1, NatMinimum
<1>3. PICK m \in S : x = N - m
  BY <1>2
<1>4. \A g \in S : N - m <= N - g
  BY <1>2, <1>3
<1>5. \A g \in S : g <= m
  BY <1>4, CountAssumption
<1> QED
  BY <1>5 DEF Newest

LEMMA BlankIsMemory == Blank \in Memory
BY DEF Blank, Memory, NoRows, Rows, Needles, NotGiven

(* What status() writes keeps the changelog's shape.                       *)
LEMMA AdoptType ==
  ASSUME TypeOK, NEW rows \in Rows, NEW files, Adopt(rows, files)
  PROVE  /\ changelog' \in Rows
         /\ via' \in [Files -> {"none", "legacy", "applied", "marked",
                                "adopted", "accepted", "restored"}]
<1>1. \A f \in Listed : Sha[disk[f]] \in Sums
  BY ShaAssumption DEF TypeOK, Listed
<1>2. Unbaselined(rows) \subseteq Listed
  BY DEF Unbaselined, Applied
<1>3. \A f \in Files : changelog[f] \in Sums \cup {NoRow, NullSum}
  BY DEF TypeOK, Rows
<1> QED
  BY <1>1, <1>2, <1>3 DEF Adopt, TypeOK, Rows

(***************************************************************************)
(* The type invariant.                                                     *)
(***************************************************************************)
LEMMA InitType == Init => TypeOK
<1> SUFFICES ASSUME Init PROVE TypeOK
  OBVIOUS
<1>1. changelog \in Rows /\ via \in [Files -> {"none", "legacy", "applied",
        "marked", "adopted", "accepted", "restored"}]
  BY DEF Init, Rows
<1> QED
  BY <1>1, BlankIsMemory, CountAssumption
     DEF Init, TypeOK, Working, Ended

(* A run's memory keeps its shape when one record of Memory replaces it.   *)
LEMMA RememberType ==
  ASSUME TypeOK, NEW r \in Runs, NEW m \in Memory, Remember(r, m)
  PROVE  mem' \in [Runs -> Memory]
BY DEF Remember, TypeOK

LEMMA GotoType ==
  ASSUME TypeOK, NEW r \in Runs, NEW label \in Working \cup Ended,
         Goto(r, label)
  PROVE  pc' \in [Runs -> Working \cup Ended \cup {"ready"}]
BY DEF Goto, TypeOK

LEMMA ExitType ==
  ASSUME TypeOK, NEW r \in Runs, NEW label \in Ended, Exit(r, label)
  PROVE  /\ pc' \in [Runs -> Working \cup Ended \cup {"ready"}]
         /\ mem' \in [Runs -> Memory]
BY BlankIsMemory, RememberType, GotoType DEF Exit

LEMMA SelectIsSubset ==
  ASSUME NEW S, NEW o PROVE Select(S, o) \subseteq S
BY DEF Select, JustOne, UpTo, Hits

LEMMA StepType ==
  ASSUME TypeOK, FileInHand, NEW r \in Runs, Step(r)
  PROVE  TypeOK'
<1>m. /\ mem[r] \in Memory
      /\ mem[r].snap \in Rows /\ mem[r].todo \in SUBSET Files
      /\ mem[r].drift \in SUBSET Files /\ mem[r].at \in Nat
      /\ mem[r].body \in Contents \cup {NoFile}
  BY DEF TypeOK, Memory
<1>h. pc[r] \in InHand => cur[r] \in Files /\ mem[r].body \in Contents
  BY DEF FileInHand
<1>n. NoRows \in Rows
  BY DEF NoRows, Rows
<1>l. \A rows : /\ Pending(rows) \subseteq Files
                /\ Applied(rows) \subseteq Files
                /\ Mismatches(rows) \subseteq Files
  BY DEF Pending, Applied, Mismatches, Listed
<1>1. CASE QueryFails(r)
  BY <1>1, ExitType DEF QueryFails, TypeOK, dirVars, dbVars, Ended
<1>2. CASE ReadRows(r)
  <2>1. [mem[r] EXCEPT !.snap = changelog] \in Memory
    BY <1>m DEF Memory, TypeOK
  <2>2. mem' \in [Runs -> Memory]
    BY <1>2, <2>1, RememberType DEF ReadRows
  <2>3. pc' \in [Runs -> Working \cup Ended \cup {"ready"}]
    BY <1>2, GotoType DEF ReadRows, Working
  <2> QED
    BY <1>2, <2>2, <2>3 DEF ReadRows, TypeOK, dirVars, dbVars
<1>3. CASE PreflightScan(r)
  <2>1. /\ changelog' \in Rows
        /\ via' \in [Files -> {"none", "legacy", "applied", "marked",
                               "adopted", "accepted", "restored"}]
    BY <1>3, <1>m, AdoptType DEF PreflightScan
  <2>2. \A D, T \in SUBSET Files :
          [mem[r] EXCEPT !.snap = NoRows, !.drift = D, !.todo = T] \in Memory
    BY <1>m, <1>n DEF Memory
  <2>3. /\ mem' \in [Runs -> Memory]
        /\ pc' \in [Runs -> Working \cup Ended \cup {"ready"}]
    <3>1. CASE Exit(r, "refused")
      BY <3>1, ExitType DEF Ended
    <3>2. CASE ~Exit(r, "refused")
      BY <1>3, <1>l, <2>2, <3>2, RememberType, GotoType
         DEF PreflightScan, Working
    <3> QED
      BY <3>1, <3>2
  <2> QED
    BY <1>3, <2>1, <2>3 DEF PreflightScan, TypeOK, dirVars
<1>4. CASE RepairChecksum(r)
  <2> DEFINE f == First(mem[r].drift)
  <2>1. CASE disk[f] = NoFile /\ Exit(r, "refused")
    BY <1>4, <2>1, ExitType
       DEF RepairChecksum, TypeOK, dirVars, dbVars, Ended
  <2>2. CASE ~(disk[f] = NoFile /\ Exit(r, "refused"))
    <3>1. changelog' \in Rows
      BY <1>4, <2>2, ShaAssumption DEF RepairChecksum, TypeOK, Rows
    <3>2. [mem[r] EXCEPT !.drift = @ \ {f}] \in Memory
      BY <1>m DEF Memory
    <3>3. mem' \in [Runs -> Memory]
      BY <1>4, <2>2, <3>2, RememberType DEF RepairChecksum
    <3>4. pc' \in [Runs -> Working \cup Ended \cup {"ready"}]
      BY <1>4, <2>2, GotoType DEF RepairChecksum, Working
    <3>5. waived' \subseteq Files
      BY <1>4, <2>2, <1>m, FirstIsLeast DEF RepairChecksum, TypeOK
    <3> QED
      BY <1>4, <2>2, <3>1, <3>3, <3>4, <3>5
         DEF RepairChecksum, TypeOK, dirVars
  <2> QED
    BY <2>1, <2>2
<1>5. CASE Validate(r)
  <2>1. CASE Exit(r, "refused")
    BY <1>5, <2>1, ExitType DEF Validate, TypeOK, dirVars, dbVars, Ended
  <2>2. CASE ~Exit(r, "refused")
    <3> DEFINE S == Select(mem[r].todo, mem[r].opt)
               seen == {<<f, disk[f]>> : f \in S}
    <3>1. \A f \in S : disk[f] \in Contents /\ f \in Files
      BY <1>5, <1>m, <2>2, SelectIsSubset, ContentAssumption DEF Validate
    <3>2. seen \in SUBSET (Files \X Contents)
      BY <3>1
    <3>3. [mem[r] EXCEPT !.checked = seen] \in Memory
      BY <1>m, <3>2 DEF Memory
    <3>4. mem' \in [Runs -> Memory]
      BY <1>5, <2>2, <3>3, RememberType DEF Validate
    <3>5. pc' \in [Runs -> Working \cup Ended \cup {"ready"}]
      BY <1>5, <2>2, GotoType DEF Validate, Working
    <3> QED
      BY <1>5, <3>4, <3>5 DEF Validate, TypeOK, dirVars, dbVars
  <2> QED
    BY <2>1, <2>2
<1>6. CASE RuntimeGates(r)
  <2>1. CASE Exit(r, "refused")
    BY <1>6, <2>1, ExitType DEF RuntimeGates, TypeOK, dirVars, dbVars, Ended
  <2>2. CASE ~Exit(r, "refused")
    BY <1>6, <2>2, GotoType DEF RuntimeGates, TypeOK, dirVars, dbVars, Working
  <2> QED
    BY <2>1, <2>2
<1>7. CASE UpScan(r)
  <2>1. /\ changelog' \in Rows
        /\ via' \in [Files -> {"none", "legacy", "applied", "marked",
                               "adopted", "accepted", "restored"}]
    BY <1>7, <1>m, AdoptType DEF UpScan
  <2>2. \A T \in SUBSET Files :
          [mem[r] EXCEPT !.snap = NoRows, !.todo = T] \in Memory
    BY <1>m, <1>n DEF Memory
  <2>3. Select(Pending(mem[r].snap), mem[r].opt) \in SUBSET Files
    BY <1>l, SelectIsSubset
  <2>4. /\ mem' \in [Runs -> Memory]
        /\ pc' \in [Runs -> Working \cup Ended \cup {"ready"}]
    <3>1. CASE Exit(r, "failed")
      BY <3>1, ExitType DEF Ended
    <3>2. CASE ~Exit(r, "failed")
      BY <1>7, <2>2, <2>3, <3>2, RememberType, GotoType DEF UpScan, Working
    <3> QED
      BY <3>1, <3>2
  <2> QED
    BY <1>7, <2>1, <2>4 DEF UpScan, TypeOK, dirVars
<1>8. CASE Finish(r)
  BY <1>8, ExitType DEF Finish, TypeOK, dirVars, dbVars, Ended
<1>9. CASE UpNext(r)
  <2> DEFINE f == First(mem[r].todo)
  <2>1. f \in Files /\ cur' \in [Runs -> Files \cup {0}]
    BY <1>9, <1>m, FirstIsLeast DEF UpNext, TypeOK
  <2>2. /\ mem' \in [Runs -> Memory]
        /\ pc' \in [Runs -> Working \cup Ended \cup {"ready"}]
    <3>1. CASE Exit(r, "failed")
      BY <3>1, ExitType DEF Ended
    <3>2. CASE ~Exit(r, "failed")
      <4>1. [mem[r] EXCEPT !.body = disk[f], !.at = 0] \in Memory
        BY <1>m, <2>1 DEF Memory, TypeOK
      <4>2. mem' \in [Runs -> Memory]
        BY <1>9, <3>2, <4>1, RememberType DEF UpNext
      <4>3. pc' \in [Runs -> Working \cup Ended \cup {"ready"}]
        BY <1>9, <3>2, GotoType DEF UpNext, Working
      <4> QED
        BY <4>2, <4>3
    <3> QED
      BY <3>1, <3>2
  <2> QED
    BY <1>9, <2>1, <2>2 DEF UpNext, TypeOK, dirVars, dbVars
<1>10. CASE UpStatement(r)
  <2>1. [mem[r] EXCEPT !.at = @ + 1] \in Memory
    BY <1>m DEF Memory
  <2>2. mem' \in [Runs -> Memory]
    BY <1>10, <2>1, RememberType DEF UpStatement
  <2> QED
    BY <1>10, <1>h, <2>2, GotoType
       DEF UpStatement, TypeOK, dirVars, Working, InHand
<1>11. CASE UpStatementFails(r)
  BY <1>11, ExitType DEF UpStatementFails, TypeOK, dirVars, dbVars, Ended
<1>12. CASE RecordUp(r)
  <2>1. [mem[r] EXCEPT !.todo = @ \ {cur[r]}] \in Memory
    BY <1>m DEF Memory
  <2>2. mem' \in [Runs -> Memory]
    BY <1>12, <2>1, RememberType DEF RecordUp
  <2>3. pc' \in [Runs -> Working \cup Ended \cup {"ready"}]
    BY <1>12, GotoType DEF RecordUp, Working
  <2> QED
    BY <1>12, <1>h, <2>2, <2>3, ShaAssumption
       DEF RecordUp, TypeOK, dirVars, Rows, InHand
<1>13. CASE RecordFails(r)
  BY <1>13, ExitType DEF RecordFails, TypeOK, dirVars, dbVars, Ended
<1>14. CASE DownScan(r)
  <2>1. /\ changelog' \in Rows
        /\ via' \in [Files -> {"none", "legacy", "applied", "marked",
                               "adopted", "accepted", "restored"}]
    BY <1>14, <1>m, AdoptType DEF DownScan
  <2>2. \A D, T \in SUBSET Files :
          [mem[r] EXCEPT !.snap = NoRows, !.todo = T, !.drift = D] \in Memory
    BY <1>m, <1>n DEF Memory
  <2>3. /\ mem' \in [Runs -> Memory]
        /\ pc' \in [Runs -> Working \cup Ended \cup {"ready"}]
        /\ waived' \subseteq Files
    <3>1. CASE \/ Exit(r, "done") /\ waived' = waived
               \/ Exit(r, "refused") /\ waived' = waived
      BY <3>1, ExitType DEF Ended, TypeOK
    <3>2. CASE ~(\/ Exit(r, "done") /\ waived' = waived
                 \/ Exit(r, "refused") /\ waived' = waived)
      <4> DEFINE rows == mem[r].snap
                 plan(t) == {f \in Applied(rows) : f >= t}
                 edited(t) == plan(t) \cap Mismatches(rows)
      <4>1. PICK t \in Applied(rows) :
              /\ Remember(r, [mem[r] EXCEPT !.snap = NoRows,
                                            !.todo = plan(t),
                                            !.drift = edited(t)])
              /\ waived' = waived \cup edited(t)
              /\ Goto(r, "runtime")
        BY <1>14, <3>2 DEF DownScan
      <4>2. plan(t) \in SUBSET Files /\ edited(t) \in SUBSET Files
        BY <1>l
      <4> HIDE DEF plan, edited
      <4> QED
        BY <2>2, <4>1, <4>2, RememberType, GotoType DEF Working, TypeOK
    <3> QED
      BY <3>1, <3>2
  <2> QED
    BY <1>14, <2>1, <2>3 DEF DownScan, TypeOK, dirVars
<1>15. CASE DownNext(r)
  <2> DEFINE f == Newest(mem[r].todo)
  <2>1. f \in Files /\ cur' \in [Runs -> Files \cup {0}]
    BY <1>15, <1>m, NewestIsGreatest DEF DownNext, TypeOK
  <2>2. /\ mem' \in [Runs -> Memory]
        /\ pc' \in [Runs -> Working \cup Ended \cup {"ready"}]
    <3>1. CASE Exit(r, "failed")
      BY <3>1, ExitType DEF Ended
    <3>2. CASE ~Exit(r, "failed")
      <4>1. [mem[r] EXCEPT !.body = disk[f], !.at = 0] \in Memory
        BY <1>m, <2>1 DEF Memory, TypeOK
      <4>2. mem' \in [Runs -> Memory]
        BY <1>15, <3>2, <4>1, RememberType DEF DownNext
      <4>3. pc' \in [Runs -> Working \cup Ended \cup {"ready"}]
        BY <1>15, <3>2, GotoType DEF DownNext, Working
      <4> QED
        BY <4>2, <4>3
    <3> QED
      BY <3>1, <3>2
  <2> QED
    BY <1>15, <2>1, <2>2 DEF DownNext, TypeOK, dirVars, dbVars
<1>16. CASE DeleteRow(r)
  <2>1. pc' \in [Runs -> Working \cup Ended \cup {"ready"}]
    BY <1>16, GotoType DEF DeleteRow, Working
  <2> QED
    BY <1>16, <2>1 DEF DeleteRow, TypeOK, dirVars, Rows
<1>17. CASE DownStatement(r)
  <2>1. /\ [mem[r] EXCEPT !.at = @ + 1] \in Memory
        /\ [mem[r] EXCEPT !.at = @ + 1, !.todo = @ \ {cur[r]}] \in Memory
    <3>1. /\ mem[r].at + 1 \in Nat
          /\ mem[r].todo \ {cur[r]} \in SUBSET Files
      BY <1>m
    <3> QED
      BY <1>m, <3>1 DEF Memory
  <2>2. mem' \in [Runs -> Memory]
    BY <1>17, <2>1, RememberType DEF DownStatement
  <2>3. pc' \in [Runs -> Working \cup Ended \cup {"ready"}]
    BY <1>17, GotoType DEF DownStatement, Working, TypeOK
  <2>4. torn' \subseteq Files /\ ran' \in [Files -> SUBSET Contents]
    BY <1>17, <1>h DEF DownStatement, TypeOK, InHand
  <2> QED
    BY <1>17, <2>2, <2>3, <2>4 DEF DownStatement, TypeOK, dirVars
<1>18. CASE DownStatementFails(r)
  BY <1>18, GotoType DEF DownStatementFails, TypeOK, dirVars, dbVars, Working
<1>19. CASE RestoreRow(r)
  <2>1. /\ pc' \in [Runs -> Working \cup Ended \cup {"ready"}]
        /\ mem' \in [Runs -> Memory]
    BY <1>19, ExitType DEF RestoreRow, Ended
  <2> QED
    BY <1>19, <2>1 DEF RestoreRow, TypeOK, dirVars, Rows
<1>20. CASE BaselineScan(r)
  <2>1. /\ changelog' \in Rows
        /\ via' \in [Files -> {"none", "legacy", "applied", "marked",
                               "adopted", "accepted", "restored"}]
    BY <1>20, <1>m, AdoptType DEF BaselineScan
  <2>2. /\ mem' \in [Runs -> Memory]
        /\ pc' \in [Runs -> Working \cup Ended \cup {"ready"}]
    <3>1. CASE Exit(r, "refused")
      BY <3>1, ExitType DEF Ended
    <3>2. CASE ~Exit(r, "refused")
      <4>1. PICK T \in SUBSET Files :
              /\ Remember(r, [mem[r] EXCEPT !.snap = NoRows, !.todo = T])
              /\ Goto(r, "mark")
        BY <1>20, <3>2 DEF BaselineScan, Listed
      <4>2. [mem[r] EXCEPT !.snap = NoRows, !.todo = T] \in Memory
        BY <1>m, <1>n DEF Memory
      <4> QED
        BY <4>1, <4>2, RememberType, GotoType DEF Working
    <3> QED
      BY <3>1, <3>2
  <2> QED
    BY <1>20, <2>1, <2>2 DEF BaselineScan, TypeOK, dirVars
<1>21. CASE Mark(r)
  <2> DEFINE f == First(mem[r].todo)
  <2>1. [mem[r] EXCEPT !.todo = @ \ {f}] \in Memory
    BY <1>m DEF Memory
  <2>2. mem' \in [Runs -> Memory]
    BY <1>21, <2>1, RememberType DEF Mark
  <2>3. changelog' \in Rows
    BY <1>21, ShaAssumption DEF Mark, TypeOK, Rows
  <2> QED
    BY <1>21, <2>2, <2>3 DEF Mark, TypeOK, dirVars
<1>22. CASE Reset(r)
  BY <1>22, <1>n, ExitType DEF Reset, TypeOK, dirVars, Ended
<1>23. CASE StatusScan(r)
  BY <1>23, ExitType DEF StatusScan, TypeOK, dirVars, dbVars, Ended
<1>24. CASE StatusFails(r)
  <2>1. /\ changelog' \in Rows
        /\ via' \in [Files -> {"none", "legacy", "applied", "marked",
                               "adopted", "accepted", "restored"}]
    BY <1>24, <1>m, AdoptType DEF StatusFails
  <2> QED
    BY <1>24, <2>1, ExitType DEF StatusFails, TypeOK, dirVars, Ended
<1> QED
  BY <1>1, <1>2, <1>3, <1>4, <1>5, <1>6, <1>7, <1>8, <1>9, <1>10, <1>11,
     <1>12, <1>13, <1>14, <1>15, <1>16, <1>17, <1>18, <1>19, <1>20, <1>21,
     <1>22, <1>23,
     <1>24 DEF Step

(* A step of one run changes no other run.                                 *)
LEMMA StepIsLocal ==
  ASSUME TypeOK, NEW r \in Runs, Step(r), NEW q \in Runs, q # r
  PROVE  pc'[q] = pc[q] /\ cur'[q] = cur[q] /\ mem'[q] = mem[q]
<1> USE DEF TypeOK, Goto, Exit, Remember, dirVars, dbVars
<1>1. CASE QueryFails(r)
  BY <1>1 DEF QueryFails
<1>2. CASE ReadRows(r)
  BY <1>2 DEF ReadRows
<1>3. CASE PreflightScan(r)
  BY <1>3 DEF PreflightScan
<1>4. CASE RepairChecksum(r)
  BY <1>4 DEF RepairChecksum
<1>5. CASE Validate(r)
  BY <1>5 DEF Validate
<1>6. CASE RuntimeGates(r)
  BY <1>6 DEF RuntimeGates
<1>7. CASE UpScan(r)
  BY <1>7 DEF UpScan
<1>8. CASE Finish(r)
  BY <1>8 DEF Finish
<1>9. CASE UpNext(r)
  BY <1>9 DEF UpNext
<1>10. CASE UpStatement(r)
  BY <1>10 DEF UpStatement
<1>11. CASE UpStatementFails(r)
  BY <1>11 DEF UpStatementFails
<1>12. CASE RecordUp(r)
  BY <1>12 DEF RecordUp
<1>13. CASE RecordFails(r)
  BY <1>13 DEF RecordFails
<1>14. CASE DownScan(r)
  BY <1>14 DEF DownScan
<1>15. CASE DownNext(r)
  BY <1>15 DEF DownNext
<1>16. CASE DeleteRow(r)
  BY <1>16 DEF DeleteRow
<1>17. CASE DownStatement(r)
  BY <1>17 DEF DownStatement
<1>18. CASE DownStatementFails(r)
  BY <1>18 DEF DownStatementFails
<1>19. CASE RestoreRow(r)
  BY <1>19 DEF RestoreRow
<1>20. CASE BaselineScan(r)
  BY <1>20 DEF BaselineScan
<1>21. CASE Mark(r)
  BY <1>21 DEF Mark
<1>22. CASE Reset(r)
  BY <1>22 DEF Reset
<1>23. CASE StatusScan(r)
  BY <1>23 DEF StatusScan
<1>24. CASE StatusFails(r)
  BY <1>24 DEF StatusFails
<1> QED
  BY <1>1, <1>2, <1>3, <1>4, <1>5, <1>6, <1>7, <1>8, <1>9, <1>10, <1>11,
     <1>12, <1>13, <1>14, <1>15, <1>16, <1>17, <1>18, <1>19, <1>20, <1>21,
     <1>22, <1>23,
     <1>24 DEF Step

LEMMA StepInHand ==
  ASSUME TypeOK, FileInHand, NEW r \in Runs, Step(r)
  PROVE  FileInHand'
<1>t. /\ pc \in [Runs -> Working \cup Ended \cup {"ready"}]
      /\ cur \in [Runs -> Files \cup {0}]
      /\ mem \in [Runs -> Memory]
      /\ mem[r] \in Memory /\ mem[r].todo \in SUBSET Files
  BY DEF TypeOK, Memory
<1>h. pc[r] \in InHand => cur[r] \in Files /\ mem[r].body \in Contents
  BY DEF FileInHand
<1> SUFFICES ASSUME pc'[r] \in InHand
             PROVE  cur'[r] \in Files /\ mem'[r].body \in Contents
  BY StepIsLocal DEF FileInHand
<1>1. CASE UpNext(r)
  <2> DEFINE f == First(mem[r].todo)
  <2>1. f \in Files
    BY <1>1, <1>t, FirstIsLeast DEF UpNext
  <2>2. ~Exit(r, "failed")
    BY <1>t DEF Exit, Goto, InHand
  <2>3. /\ cur' = [cur EXCEPT ![r] = f]
        /\ mem' = [mem EXCEPT ![r] =
                     [mem[r] EXCEPT !.body = disk[f], !.at = 0]]
        /\ disk[f] \in Contents
    BY <1>1, <2>1, <2>2, ContentAssumption
       DEF UpNext, Remember, TypeOK
  <2>4. [mem[r] EXCEPT !.body = disk[f], !.at = 0].body = disk[f]
    BY <1>t DEF Memory
  <2> QED
    BY <1>t, <2>1, <2>3, <2>4
<1>2. CASE DownNext(r)
  <2> DEFINE f == Newest(mem[r].todo)
  <2>1. f \in Files
    BY <1>2, <1>t, NewestIsGreatest DEF DownNext
  <2>2. ~Exit(r, "failed")
    BY <1>t DEF Exit, Goto, InHand
  <2>3. /\ cur' = [cur EXCEPT ![r] = f]
        /\ mem' = [mem EXCEPT ![r] =
                     [mem[r] EXCEPT !.body = disk[f], !.at = 0]]
        /\ disk[f] \in Contents
    BY <1>2, <2>1, <2>2, ContentAssumption
       DEF DownNext, Remember, TypeOK
  <2>4. [mem[r] EXCEPT !.body = disk[f], !.at = 0].body = disk[f]
    BY <1>t DEF Memory
  <2> QED
    BY <1>t, <2>1, <2>3, <2>4
<1>3. CASE UpStatement(r)
  BY <1>3, <1>t, <1>h DEF UpStatement, Goto, Remember, InHand, Memory
<1>4. CASE DeleteRow(r) \/ DownStatementFails(r)
  BY <1>4, <1>t, <1>h DEF DeleteRow, DownStatementFails, Goto, InHand
<1>5. CASE DownStatement(r)
  BY <1>5, <1>t, <1>h DEF DownStatement, Goto, Remember, InHand, Memory
<1>6. CASE \/ QueryFails(r)
            \/ ReadRows(r)
            \/ PreflightScan(r)
            \/ RepairChecksum(r)
            \/ Validate(r)
            \/ RuntimeGates(r)
  BY <1>6, <1>t
     DEF QueryFails, ReadRows, PreflightScan, RepairChecksum, Validate,
         RuntimeGates,
     Exit, Goto, InHand
<1>7. CASE \/ UpScan(r)
            \/ Finish(r)
            \/ UpStatementFails(r)
            \/ RecordUp(r)
            \/ RecordFails(r)
            \/ DownScan(r)
  BY <1>7, <1>t
     DEF UpScan, Finish, UpStatementFails, RecordUp, RecordFails, DownScan,
     Exit, Goto, InHand
<1>8. CASE \/ RestoreRow(r)
            \/ BaselineScan(r)
            \/ Mark(r)
            \/ Reset(r)
            \/ StatusScan(r)
            \/ StatusFails(r)
  BY <1>8, <1>t
     DEF RestoreRow, BaselineScan, Mark, Reset, StatusScan, StatusFails,
     Exit, Goto, InHand
<1> QED
  BY <1>1, <1>2, <1>3, <1>4, <1>5, <1>6, <1>7, <1>8 DEF Step

LEMMA EnvironmentType ==
  ASSUME TypeOK, FileInHand,
         \/ \E r \in Runs, c \in Commands, o \in Options : Start(r, c, o)
         \/ \E r \in Runs : Crash(r)
         \/ \E f \in Files, c \in Contents \cup {NoFile} : Edit(f, c)
  PROVE  TypeOK' /\ FileInHand'
<1>1. CASE \E r \in Runs, c \in Commands, o \in Options : Start(r, c, o)
  <2>1. PICK r \in Runs, c \in Commands, o \in Options : Start(r, c, o)
    BY <1>1
  <2>2. [mem[r] EXCEPT !.cmd = c, !.opt = o] \in Memory
    <3>1. /\ mem[r] \in Memory /\ c \in Commands
          /\ o \in [target : Needles, only : Needles]
      BY CommandAssumption DEF TypeOK
    <3> QED
      BY <3>1 DEF Memory
  <2>3. mem' \in [Runs -> Memory]
    BY <2>1, <2>2, RememberType DEF Start
  <2>4. pc' \in [Runs -> Working \cup Ended \cup {"ready"}]
    BY <2>1, GotoType DEF Start, Working
  <2>5. TypeOK'
    BY <2>1, <2>3, <2>4 DEF Start, TypeOK, dirVars, dbVars
  <2>6. FileInHand'
    BY <2>1 DEF Start, Goto, Remember, TypeOK, FileInHand, InHand
  <2> QED
    BY <2>5, <2>6
<1>2. CASE \E r \in Runs : Crash(r)
  <2>1. PICK r \in Runs : Crash(r)
    BY <1>2
  <2>2. TypeOK'
    BY <2>1, ExitType DEF Crash, TypeOK, dirVars, dbVars, Ended
  <2>3. FileInHand'
    BY <2>1 DEF Crash, Exit, Goto, Remember, TypeOK, FileInHand, InHand
  <2> QED
    BY <2>2, <2>3
<1>3. CASE \E f \in Files, c \in Contents \cup {NoFile} : Edit(f, c)
  <2>1. TypeOK'
    BY <1>3, CountAssumption DEF Edit, TypeOK, dbVars, runVars
  <2>2. FileInHand'
    BY <1>3 DEF Edit, FileInHand, runVars
  <2> QED
    BY <2>1, <2>2
<1> QED
  BY <1>1, <1>2, <1>3

LEMMA NextType == TypeOK /\ FileInHand /\ [Next]_vars => TypeOK' /\ FileInHand'
<1> SUFFICES ASSUME TypeOK, FileInHand, [Next]_vars
             PROVE  TypeOK' /\ FileInHand'
  OBVIOUS
<1>1. CASE \E r \in Runs : Step(r)
  BY <1>1, StepType, StepInHand
<1>2. CASE UNCHANGED vars
  BY <1>2 DEF vars, dirVars, dbVars, runVars, TypeOK, FileInHand
<1> QED
  BY <1>1, <1>2, EnvironmentType DEF Next

(* Every variable keeps its shape, and a run that executes or records      *)
(* always holds a file it has read: cur and body are never stale defaults. *)
THEOREM TypeCorrect == Spec => [](TypeOK /\ FileInHand)
<1>1. Init => TypeOK /\ FileInHand
  BY InitType DEF Init, FileInHand, InHand
<1> QED
  BY <1>1, NextType, PTL DEF Spec

(***************************************************************************)
(* A half-executed section is never silent.                                *)
(***************************************************************************)
(* Which steps touch "torn": only the statements of a section.             *)
LEMMA TornChanges ==
  ASSUME NEW r \in Runs, Step(r), torn' # torn
  PROVE  UpStatement(r) \/ DownStatement(r)
BY DEF Step, QueryFails, ReadRows, PreflightScan, RepairChecksum, Validate,
   RuntimeGates, UpScan, Finish, UpNext, UpStatementFails, RecordUp,
   RecordFails, DownScan, DownNext, DeleteRow, DownStatementFails, RestoreRow,
   BaselineScan, Mark, Reset, StatusScan, StatusFails, dbVars

LEMMA TornStep ==
  ASSUME TypeOK, FileInHand, TornAccountedFor, NEW r \in Runs, Step(r)
  PROVE  TornAccountedFor'
<1> DEFINE At(q, f) == cur[q] = f /\ pc[q] \in {"upExec", "downExec",
                                       "restore", "failed", "crashed"}
<1>t. /\ pc \in [Runs -> Working \cup Ended \cup {"ready"}]
      /\ cur \in [Runs -> Files \cup {0}]
      /\ mem \in [Runs -> Memory]
  BY DEF TypeOK
<1> SUFFICES ASSUME NEW f \in torn'
             PROVE  \E q \in Runs : At(q, f)'
  BY DEF TornAccountedFor
<1>1. CASE UpStatement(r)
  <2>1. CASE f \in torn /\ f # cur[r]
    <3>1. PICK q \in Runs : At(q, f)
      BY <2>1 DEF TornAccountedFor
    <3>2. q # r
      BY <2>1, <3>1
    <3> QED
      BY <3>1, <3>2, StepIsLocal
  <2>2. CASE ~(f \in torn /\ f # cur[r])
    BY <1>1, <1>t, <2>2 DEF UpStatement
  <2> QED
    BY <2>1, <2>2
<1>2. CASE DownStatement(r)
  <2>1. CASE f \in torn /\ f # cur[r]
    <3>1. PICK q \in Runs : At(q, f)
      BY <2>1 DEF TornAccountedFor
    <3>2. q # r
      BY <2>1, <3>1
    <3> QED
      BY <3>1, <3>2, StepIsLocal
  <2>2. CASE ~(f \in torn /\ f # cur[r])
    BY <1>2, <1>t, <2>2 DEF DownStatement
  <2> QED
    BY <2>1, <2>2
<1>3. CASE ~UpStatement(r) /\ ~DownStatement(r)
  <2>1. f \in torn
    BY <1>3, TornChanges
  <2>2. PICK q \in Runs : At(q, f)
    BY <2>1 DEF TornAccountedFor
  <2>3. CASE q # r
    BY <2>2, <2>3, StepIsLocal
  <2>4. CASE q = r
    <3>1. UpStatementFails(r) \/ DownStatementFails(r) \/ RestoreRow(r)
      BY <1>3, <2>2, <2>4 DEF Step, QueryFails, ReadRows, PreflightScan,
         RepairChecksum, Validate, RuntimeGates, UpScan, Finish, UpNext,
         RecordUp, RecordFails, DownScan, DownNext, DeleteRow, BaselineScan,
         Mark, Reset, StatusScan, StatusFails
    <3> QED
      BY <1>t, <2>2, <2>4, <3>1
         DEF UpStatementFails, DownStatementFails, RestoreRow, Exit, Goto
  <2> QED
    BY <2>3, <2>4
<1> QED
  BY <1>1, <1>2, <1>3

(* Whatever fails, crashes or overlaps: a migration of which some          *)
(* statements took effect and others did not is one that a run is still    *)
(* executing, or one that a run stopped at without reporting success.      *)
THEOREM TornIsAccountedFor == Spec => []TornAccountedFor
<1>1. Init => TornAccountedFor
  BY DEF Init, TornAccountedFor
<1>2. ASSUME TypeOK, FileInHand, TornAccountedFor, [Next]_vars
      PROVE  TornAccountedFor'
  <2> USE <1>2
  <2>1. CASE \E r \in Runs, c \in Commands, o \in Options : Start(r, c, o)
    <3>1. PICK r \in Runs, c \in Commands, o \in Options : Start(r, c, o)
      BY <2>1
    <3>2. pc[r] = "ready" /\ \A q \in Runs : q # r => pc'[q] = pc[q]
      BY <3>1 DEF Start, Goto, TypeOK
    <3>3. torn' = torn /\ cur' = cur
      BY <3>1 DEF Start, dbVars
    <3> QED
      BY <3>2, <3>3 DEF TornAccountedFor
  <2>2. CASE \E r \in Runs : Step(r)
    BY <2>2, TornStep
  <2>3. CASE \E r \in Runs : Crash(r)
    <3>1. PICK r \in Runs : Crash(r)
      BY <2>3
    <3>2. \A q \in Runs : pc'[q] = IF q = r THEN "crashed" ELSE pc[q]
      BY <3>1 DEF Crash, Exit, Goto, TypeOK
    <3> QED
      BY <3>1, <3>2 DEF Crash, TornAccountedFor, dbVars
  <2>4. CASE \E f \in Files, c \in Contents \cup {NoFile} : Edit(f, c)
    <3>1. torn' = torn /\ cur' = cur /\ pc' = pc
      BY <2>4 DEF Edit, dbVars, runVars
    <3> QED
      BY <3>1 DEF TornAccountedFor
  <2>5. CASE UNCHANGED vars
    BY <2>5 DEF vars, dbVars, runVars, TornAccountedFor
  <2> QED
    BY <2>1, <2>2, <2>3, <2>4, <2>5 DEF Next
<1> QED
  BY <1>1, <1>2, TypeCorrect, PTL DEF Spec

(***************************************************************************)
(* A recorded migration ran.  Neither half of the argument is inductive by *)
(* itself: that a run about to record holds a content whose Up completed   *)
(* (RanInHand) and that a run executing Down has no recorded row behind it *)
(* (GoneRow) both fail when another run works on the same file.  So the    *)
(* theorem assumes that runs do not overlap, or that nobody issues down.   *)
(***************************************************************************)
DownStates == {"downNext", "delete", "downExec", "restore"}

Alone == Serial => \A r, q \in Runs : Active(r) /\ Active(q) => r = q

NoDownRun == "down" \notin Commands => \A r \in Runs : pc[r] \notin DownStates

RanInHand ==
  \A r \in Runs : pc[r] = "record" =>
    UpLen[mem[r].body] = 0 \/ mem[r].body \in ran[cur[r]]

GoneRow == \A r \in Runs : pc[r] = "downExec" => via[cur[r]] # "applied"

RecordedInv == Alone /\ NoDownRun /\ RanInHand /\ GoneRow /\ RecordedWasRun

(* A run only starts when none is working, and a step activates nobody.    *)
LEMMA StepActive ==
  ASSUME TypeOK, NEW r \in Runs, Step(r) PROVE Active(r)
BY DEF Step, QueryFails, ReadRows, PreflightScan, RepairChecksum, Validate,
   RuntimeGates, UpScan, Finish, UpNext, UpStatement, UpStatementFails,
   RecordUp, RecordFails, DownScan, DownNext, DeleteRow, DownStatement,
   DownStatementFails, RestoreRow, BaselineScan, Mark, Reset, StatusScan,
   StatusFails,
   Active, Working

LEMMA NextAlone == TypeOK /\ Alone /\ [Next]_vars => Alone'
<1> SUFFICES ASSUME TypeOK, Alone, [Next]_vars, Serial
             PROVE  \A r, q \in Runs : Active(r)' /\ Active(q)' => r = q
  BY DEF Alone
<1>1. CASE \E r \in Runs, c \in Commands, o \in Options : Start(r, c, o)
  <2>1. PICK r \in Runs, c \in Commands, o \in Options : Start(r, c, o)
    BY <1>1
  <2>2. \A q \in Runs : ~Active(q) /\ (q # r => pc'[q] = pc[q])
    BY <2>1 DEF Start, Goto, TypeOK
  <2> QED
    BY <2>2 DEF Active
<1>2. CASE \E r \in Runs : Step(r)
  <2>1. PICK r \in Runs : Step(r)
    BY <1>2
  <2>2. Active(r) /\ \A q \in Runs : q # r => pc'[q] = pc[q]
    BY <2>1, StepActive, StepIsLocal
  <2> QED
    BY <2>2 DEF Alone, Active
<1>3. CASE \E r \in Runs : Crash(r)
  <2>1. PICK r \in Runs : Crash(r)
    BY <1>3
  <2>2. Active(r) /\ \A q \in Runs : q # r => pc'[q] = pc[q]
    BY <2>1 DEF Crash, Exit, Goto, TypeOK
  <2> QED
    BY <2>2 DEF Alone, Active
<1>4. CASE pc' = pc
  BY <1>4 DEF Alone, Active
<1>5. (\E f \in Files, c \in Contents \cup {NoFile} : Edit(f, c)) => pc' = pc
  BY DEF Edit, runVars
<1>6. UNCHANGED vars => pc' = pc
  BY DEF vars, runVars
<1> QED
  BY <1>1, <1>2, <1>3, <1>4, <1>5, <1>6 DEF Next

(* Only down takes a run into the states of down().                        *)
LEMMA NextNoDown == TypeOK /\ NoDownRun /\ [Next]_vars => NoDownRun'
<1> SUFFICES ASSUME TypeOK, NoDownRun, [Next]_vars, "down" \notin Commands,
                    NEW q \in Runs
             PROVE  pc'[q] \notin DownStates
  BY DEF NoDownRun
<1>1. pc[q] \notin DownStates
  BY DEF NoDownRun
<1>2. CASE \E r \in Runs, c \in Commands, o \in Options : Start(r, c, o)
  BY <1>1, <1>2 DEF Start, Goto, TypeOK, DownStates
<1>3. CASE \E r \in Runs : Step(r)
  <2>1. PICK r \in Runs : Step(r)
    BY <1>3
  <2>2. CASE r # q
    BY <1>1, <2>1, <2>2, StepIsLocal
  <2>3. CASE r = q
    <3>1. /\ mem[q].cmd # "down"
          /\ pc \in [Runs -> Working \cup Ended \cup {"ready"}]
      BY DEF TypeOK, Memory
    <3>2. \/ QueryFails(q) \/ ReadRows(q) \/ PreflightScan(q)
          \/ RepairChecksum(q) \/ Validate(q) \/ RuntimeGates(q) \/ UpScan(q)
          \/ Finish(q) \/ UpNext(q) \/ UpStatement(q) \/ UpStatementFails(q)
          \/ RecordUp(q) \/ RecordFails(q) \/ BaselineScan(q) \/ Mark(q)
          \/ Reset(q) \/ StatusScan(q) \/ StatusFails(q)
      BY <1>1, <2>1, <2>3, <3>1 DEF Step, DownScan, DownNext, DeleteRow,
         DownStatement, DownStatementFails, RestoreRow, DownStates
    <3>3. CASE \/ QueryFails(q) \/ ReadRows(q) \/ PreflightScan(q)
               \/ RepairChecksum(q) \/ Validate(q) \/ RuntimeGates(q)
      BY <1>1, <3>1, <3>3 DEF QueryFails, ReadRows, PreflightScan,
         RepairChecksum, Validate, RuntimeGates, Exit, Goto, DownStates
    <3>4. CASE \/ UpScan(q) \/ Finish(q) \/ UpNext(q) \/ UpStatement(q)
               \/ UpStatementFails(q) \/ RecordUp(q) \/ RecordFails(q)
      BY <1>1, <3>1, <3>4 DEF UpScan, Finish, UpNext, UpStatement,
         UpStatementFails, RecordUp, RecordFails, Exit, Goto, DownStates
    <3>5. CASE BaselineScan(q) \/ Mark(q) \/ Reset(q) \/ StatusScan(q)
               \/ StatusFails(q)
      BY <1>1, <3>1, <3>5
      DEF BaselineScan, Mark, Reset, StatusScan, StatusFails, Exit,
         Goto, DownStates
    <3> QED
      BY <3>2, <3>3, <3>4, <3>5
  <2> QED
    BY <2>2, <2>3
<1>4. CASE \E r \in Runs : Crash(r)
  BY <1>1, <1>4 DEF Crash, Exit, Goto, TypeOK, DownStates
<1>5. (\E f \in Files, c \in Contents \cup {NoFile} : Edit(f, c)) => pc' = pc
  BY DEF Edit, runVars
<1>6. UNCHANGED vars => pc' = pc
  BY DEF vars, runVars
<1> QED
  BY <1>1, <1>2, <1>3, <1>4, <1>5, <1>6 DEF Next

(* While a run undoes a file, no other run is at work at all.              *)
LEMMA DownIsAlone ==
  ASSUME Serial \/ "down" \notin Commands, Alone, NoDownRun,
         NEW r \in Runs, pc[r] \in DownStates, NEW q \in Runs, Active(q)
  PROVE  q = r
BY DEF Alone, NoDownRun, DownStates, Active, Working

(* How one step changes what the history says of a file.                   *)
LEMMA RanChanges ==
  ASSUME TypeOK, NEW r \in Runs, Step(r), NEW f \in Files
  PROVE  \/ ran[f] \subseteq ran'[f]
         \/ DownStatement(r) /\ cur[r] = f
<1>1. CASE UpStatement(r) \/ RecordUp(r) \/ DownStatement(r)
  <2>1. ran \in [Files -> SUBSET Contents]
    BY DEF TypeOK
  <2>2. CASE UpStatement(r)
    BY <2>1, <2>2 DEF UpStatement
  <2>3. CASE RecordUp(r)
    BY <2>1, <2>3 DEF RecordUp
  <2>4. CASE DownStatement(r)
    BY <2>1, <2>4 DEF DownStatement
  <2> QED
    BY <1>1, <2>2, <2>3, <2>4
<1>2. CASE ~UpStatement(r) /\ ~RecordUp(r) /\ ~DownStatement(r)
  <2>1. ran' = ran
    BY <1>2 DEF Step, QueryFails, ReadRows, PreflightScan, RepairChecksum,
       Validate, RuntimeGates, UpScan, Finish, UpNext, UpStatementFails,
       RecordFails, DownScan, DownNext, DeleteRow, DownStatementFails,
       RestoreRow, BaselineScan, Mark, Reset, StatusScan, StatusFails, dbVars
  <2> QED
    BY <2>1
<1> QED
  BY <1>1, <1>2

(* The step that makes a row "applied" is the INSERT of up(); any other    *)
(* leaves such a row, and its checksum, as it was.                         *)
LEMMA AppliedChanges ==
  ASSUME TypeOK, NEW r \in Runs, Step(r), NEW f \in Files, via'[f] = "applied"
  PROVE  \/ via[f] = "applied" /\ changelog'[f] = changelog[f]
         \/ RecordUp(r) /\ cur[r] = f
<1>t. /\ changelog \in [Files -> Sums \cup {NoRow, NullSum}]
      /\ via \in [Files -> {"none", "legacy", "applied", "marked", "adopted",
                            "accepted", "restored"}]
  BY DEF TypeOK, Rows
<1>1. CASE \/ PreflightScan(r) \/ UpScan(r) \/ DownScan(r) \/ BaselineScan(r)
           \/ StatusFails(r)
  <2>1. PICK rows, files : Adopt(rows, files)
    BY <1>1 DEF PreflightScan, UpScan, DownScan, BaselineScan, StatusFails
  <2> QED
    BY <1>t, <2>1 DEF Adopt
<1>2. CASE RepairChecksum(r)
  BY <1>2, <1>t DEF RepairChecksum, dbVars
<1>3. CASE RecordUp(r)
  BY <1>3, <1>t DEF RecordUp
<1>4. CASE DeleteRow(r) \/ RestoreRow(r)
  BY <1>4, <1>t DEF DeleteRow, RestoreRow
<1>5. CASE Mark(r) \/ Reset(r)
  BY <1>5, <1>t DEF Mark, Reset
<1>6. CASE \/ QueryFails(r) \/ ReadRows(r) \/ Validate(r) \/ RuntimeGates(r)
           \/ Finish(r) \/ UpNext(r) \/ UpStatement(r) \/ UpStatementFails(r)
  <2>1. via' = via /\ changelog' = changelog
    BY <1>6 DEF QueryFails, ReadRows, Validate, RuntimeGates, Finish,
       UpNext, UpStatement, UpStatementFails, dbVars
  <2> QED
    BY <2>1
<1>7. CASE \/ RecordFails(r) \/ DownNext(r) \/ DownStatement(r)
           \/ DownStatementFails(r) \/ StatusScan(r)
  <2>1. via' = via /\ changelog' = changelog
    BY <1>7 DEF RecordFails, DownNext, DownStatement, DownStatementFails,
       StatusScan, dbVars
  <2> QED
    BY <2>1
<1> QED
  BY <1>1, <1>2, <1>3, <1>4, <1>5, <1>6, <1>7 DEF Step

(* A run reaches "record" by its last statement, or with an empty section. *)
LEMMA StepRanInHand ==
  ASSUME TypeOK, FileInHand, RecordedInv, NEW r \in Runs, Step(r),
         Serial \/ "down" \notin Commands
  PROVE  RanInHand'
<1>t. /\ pc \in [Runs -> Working \cup Ended \cup {"ready"}]
      /\ mem \in [Runs -> Memory] /\ cur \in [Runs -> Files \cup {0}]
      /\ ran \in [Files -> SUBSET Contents] /\ mem[r] \in Memory
  BY DEF TypeOK
<1> SUFFICES ASSUME NEW q \in Runs, pc'[q] = "record"
             PROVE  \/ UpLen[mem'[q].body] = 0
                    \/ mem'[q].body \in ran'[cur'[q]]
  BY DEF RanInHand
<1>1. CASE q # r
  <2>1. pc[q] = "record" /\ mem'[q] = mem[q] /\ cur'[q] = cur[q]
    BY <1>1, StepIsLocal
  <2>2. cur[q] \in Files /\ Active(q)
    BY <2>1 DEF FileInHand, InHand, Active, Working
  <2>3. ~DownStatement(r)
    <3>1. SUFFICES ASSUME DownStatement(r) PROVE FALSE
      OBVIOUS
    <3>2. pc[r] \in DownStates
      BY <3>1 DEF DownStatement, DownStates
    <3> QED
      BY <1>1, <2>2, <3>2, DownIsAlone DEF RecordedInv
  <2>4. ran[cur[q]] \subseteq ran'[cur[q]]
    BY <2>2, <2>3, RanChanges
  <2> QED
    BY <2>1, <2>4 DEF RecordedInv, RanInHand
<1>2. CASE q = r
  <2>1. pc'[r] = "record"
    BY <1>2
  <2>2. UpStatement(r) \/ UpNext(r)
    <3>1. CASE \/ QueryFails(r) \/ ReadRows(r) \/ PreflightScan(r)
               \/ RepairChecksum(r) \/ Validate(r) \/ RuntimeGates(r)
      BY <1>t, <2>1, <3>1 DEF QueryFails, ReadRows, PreflightScan,
         RepairChecksum, Validate, RuntimeGates, Exit, Goto
    <3>2. CASE \/ UpScan(r) \/ Finish(r) \/ UpStatementFails(r)
               \/ RecordUp(r) \/ RecordFails(r) \/ DownScan(r)
      BY <1>t, <2>1, <3>2 DEF UpScan, Finish, UpStatementFails, RecordUp,
         RecordFails, DownScan, Exit, Goto
    <3>3. CASE \/ DownNext(r) \/ DeleteRow(r) \/ DownStatement(r)
               \/ DownStatementFails(r) \/ RestoreRow(r)
      BY <1>t, <2>1, <3>3 DEF DownNext, DeleteRow, DownStatement,
         DownStatementFails, RestoreRow, Exit, Goto
    <3>4. CASE BaselineScan(r) \/ Mark(r) \/ Reset(r) \/ StatusScan(r)
               \/ StatusFails(r)
      BY <1>t, <2>1, <3>4
      DEF BaselineScan, Mark, Reset, StatusScan, StatusFails, Exit, Goto
    <3> QED
      BY <3>1, <3>2, <3>3, <3>4 DEF Step
  <2>3. CASE UpStatement(r)
    <3>1. cur'[r] = cur[r] /\ mem'[r].body = mem[r].body
      BY <1>t, <2>3 DEF UpStatement, Remember, Memory
    <3>2. cur[r] \in Files
      BY <2>3 DEF UpStatement, FileInHand, InHand
    <3>3. ran' = [ran EXCEPT ![cur[r]] = @ \cup {mem[r].body}]
      BY <2>1, <2>3 DEF UpStatement
    <3> QED
      BY <1>2, <1>t, <3>1, <3>2, <3>3
  <2>4. CASE UpNext(r)
    <3> DEFINE f == First(mem[r].todo)
    <3>1. ~Exit(r, "failed")
      BY <1>t, <2>1 DEF Exit, Goto
    <3>2. /\ mem' = [mem EXCEPT ![r] =
                       [mem[r] EXCEPT !.body = disk[f], !.at = 0]]
          /\ Goto(r, IF UpLen[disk[f]] = 0 THEN "record" ELSE "upExec")
      BY <2>4, <3>1 DEF UpNext, Remember
    <3>3. UpLen[disk[f]] = 0
      BY <1>t, <2>1, <3>2 DEF Goto
    <3>4. mem'[r].body = disk[f]
      BY <1>t, <3>2 DEF Memory
    <3> QED
      BY <1>2, <3>3, <3>4
  <2> QED
    BY <2>2, <2>3, <2>4
<1> QED
  BY <1>1, <1>2

(* down() deletes the row first, and nobody else writes one until it ends. *)
LEMMA StepGoneRow ==
  ASSUME TypeOK, FileInHand, RecordedInv, NEW r \in Runs, Step(r),
         Serial \/ "down" \notin Commands
  PROVE  GoneRow'
<1>t. /\ pc \in [Runs -> Working \cup Ended \cup {"ready"}]
      /\ cur \in [Runs -> Files \cup {0}]
  BY DEF TypeOK
<1> SUFFICES ASSUME NEW q \in Runs, pc'[q] = "downExec",
                    via'[cur'[q]] = "applied"
             PROVE  FALSE
  BY DEF GoneRow
<1>1. CASE q # r
  <2>1. pc[q] = "downExec" /\ cur'[q] = cur[q]
    BY <1>1, StepIsLocal
  <2>2. Active(r) /\ pc[q] \in DownStates
    BY <2>1, StepActive DEF DownStates
  <2> QED
    BY <1>1, <2>2, DownIsAlone DEF RecordedInv
<1>2. CASE q = r
  <2>1. DeleteRow(r) \/ DownStatement(r)
    <3>1. CASE \/ QueryFails(r) \/ ReadRows(r) \/ PreflightScan(r)
               \/ RepairChecksum(r) \/ Validate(r) \/ RuntimeGates(r)
      BY <1>2, <1>t, <3>1 DEF QueryFails, ReadRows, PreflightScan,
         RepairChecksum, Validate, RuntimeGates, Exit, Goto
    <3>2. CASE \/ UpScan(r) \/ Finish(r) \/ UpNext(r) \/ UpStatement(r)
               \/ UpStatementFails(r) \/ RecordUp(r) \/ RecordFails(r)
      BY <1>2, <1>t, <3>2 DEF UpScan, Finish, UpNext, UpStatement,
         UpStatementFails, RecordUp, RecordFails, Exit, Goto
    <3>3. CASE \/ DownScan(r) \/ DownNext(r) \/ DownStatementFails(r)
               \/ RestoreRow(r)
      BY <1>2, <1>t, <3>3 DEF DownScan, DownNext, DownStatementFails,
         RestoreRow, Exit, Goto
    <3>4. CASE BaselineScan(r) \/ Mark(r) \/ Reset(r) \/ StatusScan(r)
               \/ StatusFails(r)
      BY <1>2, <1>t, <3>4
      DEF BaselineScan, Mark, Reset, StatusScan, StatusFails, Exit, Goto
    <3> QED
      BY <3>1, <3>2, <3>3, <3>4 DEF Step
  <2>2. CASE DeleteRow(r)
    <3>1. cur[r] \in Files /\ cur'[r] = cur[r]
      BY <2>2 DEF DeleteRow, FileInHand, InHand
    <3> QED
      BY <1>2, <2>2, <3>1 DEF DeleteRow, TypeOK
  <2>3. CASE DownStatement(r)
    BY <1>2, <2>3 DEF DownStatement, RecordedInv, GoneRow
  <2> QED
    BY <2>1, <2>2, <2>3
<1> QED
  BY <1>1, <1>2

LEMMA StepRecordedWasRun ==
  ASSUME TypeOK, FileInHand, RecordedInv, NEW r \in Runs, Step(r)
  PROVE  RecordedWasRun'
<1> SUFFICES ASSUME NEW f \in Files, via'[f] = "applied"
             PROVE  \E c \in ran'[f] : changelog'[f] = Sha[c]
  BY DEF RecordedWasRun
<1>1. CASE RecordUp(r) /\ cur[r] = f
  <2>1. changelog'[f] = Sha[mem[r].body]
    BY <1>1 DEF RecordUp, TypeOK, Rows
  <2>2. mem[r].body \in ran'[f]
    BY <1>1 DEF RecordUp, RecordedInv, RanInHand, TypeOK
  <2> QED
    BY <2>1, <2>2
<1>2. CASE ~(RecordUp(r) /\ cur[r] = f)
  <2>1. via[f] = "applied" /\ changelog'[f] = changelog[f]
    BY <1>2, AppliedChanges
  <2>2. ~(DownStatement(r) /\ cur[r] = f)
    BY <2>1 DEF DownStatement, RecordedInv, GoneRow
  <2>3. ran[f] \subseteq ran'[f]
    BY <2>2, RanChanges
  <2> QED
    BY <2>1, <2>3 DEF RecordedInv, RecordedWasRun
<1> QED
  BY <1>1, <1>2

(* Starting, crashing and editing touch no row and no history.             *)
LEMMA EnvironmentRecorded ==
  ASSUME TypeOK, RecordedInv,
         \/ \E r \in Runs, c \in Commands, o \in Options : Start(r, c, o)
         \/ \E r \in Runs : Crash(r)
         \/ \E f \in Files, c \in Contents \cup {NoFile} : Edit(f, c)
         \/ UNCHANGED vars
  PROVE  RanInHand' /\ GoneRow' /\ RecordedWasRun'
<1>t. /\ pc \in [Runs -> Working \cup Ended \cup {"ready"}]
      /\ mem \in [Runs -> Memory]
  BY DEF TypeOK
<1>1. cur' = cur /\ ran' = ran /\ via' = via /\ changelog' = changelog
  BY DEF Start, Crash, Edit, vars, dbVars, runVars
<1>2. \A q \in Runs : pc'[q] \in {"record", "downExec"} =>
                        pc'[q] = pc[q] /\ mem'[q] = mem[q]
  <2>1. CASE \E r \in Runs, c \in Commands, o \in Options : Start(r, c, o)
    BY <1>t, <2>1 DEF Start, Goto, Remember
  <2>2. CASE \E r \in Runs : Crash(r)
    BY <1>t, <2>2 DEF Crash, Exit, Goto, Remember
  <2>3. CASE pc' = pc /\ mem' = mem
    BY <2>3
  <2>4. (\E f \in Files, c \in Contents \cup {NoFile} : Edit(f, c))
          \/ UNCHANGED vars => pc' = pc /\ mem' = mem
    BY DEF Edit, vars, runVars
  <2> QED
    BY <2>1, <2>2, <2>3, <2>4
<1> QED
  BY <1>1, <1>2 DEF RecordedInv, RanInHand, GoneRow, RecordedWasRun

LEMMA RecordedAlways ==
  ASSUME Serial \/ "down" \notin Commands
  PROVE  Spec => []RecordedInv
<1>1. Init => RecordedInv
  BY DEF Init, RecordedInv, Alone, NoDownRun, RanInHand, GoneRow,
     RecordedWasRun, Active, Working, DownStates
<1>2. TypeOK /\ FileInHand /\ RecordedInv /\ [Next]_vars => RecordedInv'
  <2> SUFFICES ASSUME TypeOK, FileInHand, RecordedInv, [Next]_vars
               PROVE  RecordedInv'
    OBVIOUS
  <2>1. Alone' /\ NoDownRun'
    BY NextAlone, NextNoDown DEF RecordedInv
  <2>2. CASE \E r \in Runs : Step(r)
    <3>1. RanInHand' /\ GoneRow' /\ RecordedWasRun'
      BY <2>2, StepRanInHand, StepGoneRow, StepRecordedWasRun
    <3> QED
      BY <2>1, <3>1 DEF RecordedInv
  <2>3. CASE ~\E r \in Runs : Step(r)
    <3>1. RanInHand' /\ GoneRow' /\ RecordedWasRun'
      BY <2>3, EnvironmentRecorded DEF Next
    <3> QED
      BY <2>1, <3>1 DEF RecordedInv
  <2> QED
    BY <2>2, <2>3
<1> QED
  BY <1>1, <1>2, TypeCorrect, PTL DEF Spec

(* Every row that up() wrote is that of a migration that ran and was not   *)
(* undone, with the checksum of what ran, if runs do not overlap or none   *)
(* of them is a down.                                                      *)
THEOREM RecordedRan ==
  ASSUME Serial \/ "down" \notin Commands
  PROVE  Spec => []RecordedWasRun
<1>1. RecordedInv => RecordedWasRun
  BY DEF RecordedInv
<1> QED
  BY <1>1, RecordedAlways, PTL

HIDE DEF Files, Sums

(***************************************************************************)
(* What one run may rely on when nobody else is at work (Serial).  None of *)
(* these survives an overlapping run or an edit behind the run's back:     *)
(* MariaUnvalidated shows it for the validation gate.                      *)
(***************************************************************************)
PastGateR1 == {"validate", "runtime", "upRows", "upScan",
               "upNext", "upExec", "record"}

Undoing(r) ==
  \/ pc[r] \in {"downNext", "delete", "downExec"}
  \/ pc[r] = "runtime" /\ mem[r].cmd = "down"

(* The row of a migration that up() recorded belongs to what is on disk.   *)
KnownRow(f) == via[f] = "applied" => disk[f] \in ran[f]

(* The rows that status() read are still those of the table.               *)
SnapIsFresh(r) == pc[r] \in {"scan", "upScan"} => mem[r].snap = changelog

(* The file in hand is the next of those to do, as it is on disk.          *)
HandIsNext(r) ==
  /\ pc[r] \in {"upExec", "record", "delete", "downExec"} =>
       cur[r] \in mem[r].todo /\ mem[r].body = disk[cur[r]]
  /\ pc[r] \in {"upExec", "record"} => \A g \in mem[r].todo : cur[r] <= g
  /\ pc[r] \in {"delete", "downExec"} => \A g \in mem[r].todo : g <= cur[r]

(* Gate R1 was passed, but for the edited files still to be repaired.      *)
HistoryIsKnown(r) ==
  /\ pc[r] = "repair" => \A f \in Files \ mem[r].drift : KnownRow(f)
  /\ pc[r] \in PastGateR1 /\ ~Undoing(r) => \A f \in Files : KnownRow(f)

(* The selection up() makes afresh is the one that was validated.          *)
ToDoIsValidated(r) ==
  /\ pc[r] \in {"repair", "validate"} =>
       mem[r].todo = Pending(changelog) /\ mem[r].cmd # "down"
  /\ pc[r] \in {"runtime", "upRows", "upScan"} /\ ~Undoing(r) =>
       \A f \in Select(Pending(changelog), mem[r].opt) :
         <<f, disk[f]>> \in mem[r].checked
  /\ Executing(r) => \A f \in mem[r].todo : <<f, disk[f]>> \in mem[r].checked

(* Every file of the rollback plan is known, or known to be edited.        *)
PlanIsReviewed(r) ==
  Undoing(r) => \A f \in mem[r].todo : KnownRow(f) \/ f \in mem[r].drift

SerialInv ==
  \A r \in Runs :
    /\ SnapIsFresh(r) /\ HandIsNext(r) /\ HistoryIsKnown(r)
    /\ ToDoIsValidated(r) /\ PlanIsReviewed(r)

(***************************************************************************)
(* Which action takes a run where, and what one step leaves alone.         *)
(***************************************************************************)
LEMMA WhereFrom ==
  ASSUME TypeOK, NEW r \in Runs, Step(r)
  PROVE  /\ pc'[r] \in {"scan", "upScan"} => ReadRows(r)
         /\ pc'[r] \in {"repair", "validate"} =>
              PreflightScan(r) \/ RepairChecksum(r)
         /\ pc'[r] = "runtime" => Validate(r) \/ DownScan(r)
         /\ pc'[r] = "upRows" => Validate(r) \/ RuntimeGates(r)
         /\ pc'[r] = "upNext" => UpScan(r) \/ RecordUp(r)
         /\ pc'[r] \in {"upExec", "record"} => UpNext(r) \/ UpStatement(r)
         /\ pc'[r] = "downNext" => RuntimeGates(r) \/ DownStatement(r)
         /\ pc'[r] = "delete" => DownNext(r)
         /\ pc'[r] = "downExec" => DeleteRow(r) \/ DownStatement(r)
         /\ pc'[r] # "reset"
<1>p. pc \in [Runs -> Working \cup Ended \cup {"ready"}]
  BY DEF TypeOK
<1> USE <1>p DEF Exit, Goto
<1>1. CASE QueryFails(r)  BY <1>1 DEF QueryFails
<1>2. CASE ReadRows(r)  BY <1>2 DEF ReadRows
<1>3. CASE PreflightScan(r)  BY <1>3 DEF PreflightScan
<1>4. CASE RepairChecksum(r)  BY <1>4 DEF RepairChecksum
<1>5. CASE Validate(r)  BY <1>5 DEF Validate
<1>6. CASE RuntimeGates(r)  BY <1>6 DEF RuntimeGates
<1>7. CASE UpScan(r)  BY <1>7 DEF UpScan
<1>8. CASE Finish(r)  BY <1>8 DEF Finish
<1>9. CASE UpNext(r)  BY <1>9 DEF UpNext
<1>10. CASE UpStatement(r)  BY <1>10 DEF UpStatement
<1>11. CASE UpStatementFails(r)  BY <1>11 DEF UpStatementFails
<1>12. CASE RecordUp(r)  BY <1>12 DEF RecordUp
<1>13. CASE RecordFails(r)  BY <1>13 DEF RecordFails
<1>14. CASE DownScan(r)  BY <1>14 DEF DownScan
<1>15. CASE DownNext(r)  BY <1>15 DEF DownNext
<1>16. CASE DeleteRow(r)  BY <1>16 DEF DeleteRow
<1>17. CASE DownStatement(r)  BY <1>17 DEF DownStatement
<1>18. CASE DownStatementFails(r)  BY <1>18 DEF DownStatementFails
<1>19. CASE RestoreRow(r)  BY <1>19 DEF RestoreRow
<1>20. CASE BaselineScan(r)  BY <1>20 DEF BaselineScan
<1>21. CASE Mark(r)  BY <1>21 DEF Mark
<1>22. CASE Reset(r)  BY <1>22 DEF Reset
<1>23. CASE StatusScan(r)  BY <1>23 DEF StatusScan
<1>24. CASE StatusFails(r)  BY <1>24 DEF StatusFails
<1> QED
  BY <1>1, <1>2, <1>3, <1>4, <1>5, <1>6, <1>7, <1>8, <1>9, <1>10, <1>11,
     <1>12, <1>13, <1>14, <1>15, <1>16, <1>17, <1>18, <1>19, <1>20, <1>21,
     <1>22, <1>23, <1>24
  DEF Step

(* A run never writes to the migration directory.                          *)
LEMMA StepKeepsDir ==
  ASSUME NEW r \in Runs, Step(r)
  PROVE  disk' = disk /\ moved' = moved
BY DEF Step, QueryFails, ReadRows, PreflightScan, RepairChecksum, Validate,
   RuntimeGates, UpScan, Finish, UpNext, UpStatement, UpStatementFails,
   RecordUp, RecordFails, DownScan, DownNext, DeleteRow, DownStatement,
   DownStatementFails, RestoreRow, BaselineScan, Mark, Reset, StatusScan,
   StatusFails, dirVars

(* Rows go by DELETE only, and come by INSERT only: an UPDATE, be it the   *)
(* adopted or the accepted checksum, neither makes nor removes one.        *)
LEMMA AdoptKeepsRows ==
  ASSUME TypeOK, NEW rows, NEW files, Adopt(rows, files), NEW f \in Files
  PROVE  Recorded(f)' <=> Recorded(f)
<1>1. \A g \in Unbaselined(rows) : g \in Listed
  BY DEF Unbaselined, Applied
<1>2. \A g \in Listed : Sha[disk[g]] # NoRow
  BY ShaAssumption DEF Listed, TypeOK, Sums
<1> QED  BY <1>1, <1>2 DEF Adopt, Recorded

LEMMA RowsGo ==
  ASSUME TypeOK, FileInHand, NEW r \in Runs, Step(r), NEW f \in Files,
         Recorded(f), ~Recorded(f)'
  PROVE  (DeleteRow(r) /\ cur[r] = f) \/ Reset(r)
<1>t. /\ changelog \in [Files -> Sums \cup {NoRow, NullSum}]
      /\ mem[r].drift \in SUBSET Files
  BY DEF TypeOK, Rows, Memory
<1>s. \A c \in Contents : Sha[c] \in Sums /\ Sha[c] # NoRow
  BY ShaAssumption DEF Sums
<1>1. CASE \/ PreflightScan(r) \/ UpScan(r) \/ DownScan(r) \/ BaselineScan(r)
           \/ StatusFails(r)
  <2>1. PICK rows, files : Adopt(rows, files)
    BY <1>1 DEF PreflightScan, UpScan, DownScan, BaselineScan, StatusFails
  <2> QED  BY <2>1, AdoptKeepsRows
<1>2. CASE RepairChecksum(r)
  <2>1. disk[First(mem[r].drift)] # NoFile =>
          disk[First(mem[r].drift)] \in Contents
    BY <1>2, <1>t, FirstIsLeast DEF TypeOK, RepairChecksum
  <2>2. changelog' # changelog => disk[First(mem[r].drift)] # NoFile
    BY <1>2 DEF RepairChecksum, dbVars
  <2> QED
    BY <1>2, <1>t, <1>s, <2>1, <2>2 DEF RepairChecksum, dbVars, Recorded
<1>3. CASE RecordUp(r)
  <2>1. mem[r].body \in Contents
    BY <1>3 DEF RecordUp, FileInHand, InHand
  <2> QED  BY <1>3, <1>t, <1>s, <2>1 DEF RecordUp, Recorded
<1>4. CASE DeleteRow(r) \/ RestoreRow(r)
  BY <1>4, <1>t, ShaAssumption DEF DeleteRow, RestoreRow, Recorded
<1>5. CASE Mark(r) \/ Reset(r)
  BY <1>5, <1>t DEF Mark, Reset, Recorded
<1>6. CASE \/ QueryFails(r) \/ ReadRows(r) \/ Validate(r) \/ RuntimeGates(r)
           \/ Finish(r) \/ UpNext(r) \/ UpStatement(r) \/ UpStatementFails(r)
  BY <1>6 DEF QueryFails, ReadRows, Validate, RuntimeGates, Finish,
       UpNext, UpStatement, UpStatementFails, dbVars, Recorded
<1>7. CASE \/ RecordFails(r) \/ DownNext(r) \/ DownStatement(r)
           \/ DownStatementFails(r) \/ StatusScan(r)
  BY <1>7 DEF RecordFails, DownNext, DownStatement, DownStatementFails,
       StatusScan, dbVars, Recorded
<1> QED
  BY <1>1, <1>2, <1>3, <1>4, <1>5, <1>6, <1>7 DEF Step

LEMMA RowsCome ==
  ASSUME TypeOK, NEW r \in Runs, Step(r), NEW f \in Files,
         ~Recorded(f), Recorded(f)'
  PROVE  \/ RecordUp(r) /\ cur[r] = f
         \/ RestoreRow(r) \/ Mark(r)
<1>t. changelog \in [Files -> Sums \cup {NoRow, NullSum}]
  BY DEF TypeOK, Rows
<1>1. CASE \/ PreflightScan(r) \/ UpScan(r) \/ DownScan(r) \/ BaselineScan(r)
           \/ StatusFails(r)
  <2>1. PICK rows, files : Adopt(rows, files)
    BY <1>1 DEF PreflightScan, UpScan, DownScan, BaselineScan, StatusFails
  <2> QED  BY <2>1, AdoptKeepsRows
<1>2. CASE RepairChecksum(r)
  BY <1>2, <1>t DEF RepairChecksum, dbVars, Recorded
<1>3. CASE RecordUp(r)
  BY <1>3, <1>t DEF RecordUp, Recorded
<1>4. CASE DeleteRow(r) \/ RestoreRow(r)
  BY <1>4, <1>t DEF DeleteRow, RestoreRow, Recorded
<1>5. CASE Mark(r) \/ Reset(r)
  BY <1>5, <1>t DEF Mark, Reset, Recorded, NoRows
<1>6. CASE \/ QueryFails(r) \/ ReadRows(r) \/ Validate(r) \/ RuntimeGates(r)
           \/ Finish(r) \/ UpNext(r) \/ UpStatement(r) \/ UpStatementFails(r)
  BY <1>6 DEF QueryFails, ReadRows, Validate, RuntimeGates, Finish,
       UpNext, UpStatement, UpStatementFails, dbVars, Recorded
<1>7. CASE \/ RecordFails(r) \/ DownNext(r) \/ DownStatement(r)
           \/ DownStatementFails(r) \/ StatusScan(r)
  BY <1>7 DEF RecordFails, DownNext, DownStatement, DownStatementFails,
       StatusScan, dbVars, Recorded
<1> QED
  BY <1>1, <1>2, <1>3, <1>4, <1>5, <1>6, <1>7 DEF Step

(***************************************************************************)
(* SerialInv is preserved by every step of a run.                          *)
(***************************************************************************)
LEMMA MemoryFields ==
  ASSUME TypeOK, NEW r \in Runs
  PROVE  /\ mem[r] \in Memory
         /\ mem[r].todo \in SUBSET Files /\ mem[r].drift \in SUBSET Files
         /\ mem[r].snap \in Rows /\ mem[r].at \in Nat
         /\ pc \in [Runs -> Working \cup Ended \cup {"ready"}]
         /\ cur \in [Runs -> Files \cup {0}] /\ mem \in [Runs -> Memory]
BY DEF TypeOK, Memory

LEMMA SerialOthers ==
  ASSUME TypeOK, Serial, Alone, NEW r \in Runs, Step(r),
         NEW q \in Runs, q # r
  PROVE  pc'[q] \notin Working
BY StepActive, StepIsLocal DEF Alone, Active

LEMMA StepSnapIsFresh ==
  ASSUME TypeOK, NEW r \in Runs, Step(r)
  PROVE  SnapIsFresh(r)'
<1> SUFFICES ASSUME pc'[r] \in {"scan", "upScan"}
             PROVE  mem'[r].snap = changelog'
  BY DEF SnapIsFresh
<1>1. ReadRows(r)  BY WhereFrom
<1>2. [mem[r] EXCEPT !.snap = changelog].snap = changelog
  BY MemoryFields DEF Memory
<1> QED  BY <1>1, <1>2, MemoryFields DEF ReadRows, Remember, dbVars

(* UpNext and DownNext, when they find what they need in the file.         *)
LEMMA NextInHand ==
  ASSUME TypeOK, NEW r \in Runs, UpNext(r) \/ DownNext(r), pc'[r] \in Working
  PROVE  \E f \in mem[r].todo :
           /\ cur' = [cur EXCEPT ![r] = f]
           /\ mem' = [mem EXCEPT ![r] =
                        [mem[r] EXCEPT !.body = disk[f], !.at = 0]]
           /\ mem'[r].todo = mem[r].todo /\ mem'[r].body = disk[f]
           /\ mem'[r].checked = mem[r].checked
           /\ mem'[r].drift = mem[r].drift
           /\ UpNext(r) => \A g \in mem[r].todo : f <= g
           /\ DownNext(r) => \A g \in mem[r].todo : g <= f
           /\ disk' = disk /\ cur'[r] = f
<1>0. mem[r] \in Memory /\ mem[r].todo \in SUBSET Files
  BY MemoryFields
<1>p. pc' = [pc EXCEPT ![r] = pc'[r]] /\ pc'[r] \notin Ended
  BY MemoryFields DEF UpNext, DownNext, Goto, Exit, Ended, Working
<1>1. CASE UpNext(r)
  <2> DEFINE f == First(mem[r].todo)
  <2>1. f \in mem[r].todo /\ \A g \in mem[r].todo : f <= g
    BY <1>0, <1>1, FirstIsLeast DEF UpNext
  <2>2. ~Exit(r, "failed")
    BY <1>p, MemoryFields DEF Exit, Goto, Ended
  <2>3. /\ cur' = [cur EXCEPT ![r] = f]
        /\ mem' = [mem EXCEPT ![r] =
                     [mem[r] EXCEPT !.body = disk[f], !.at = 0]]
        /\ disk' = disk
    BY <1>1, <2>2 DEF UpNext, Remember, dirVars
  <2> HIDE DEF f
  <2>4. /\ mem'[r].todo = mem[r].todo /\ mem'[r].body = disk[f]
        /\ mem'[r].checked = mem[r].checked /\ mem'[r].drift = mem[r].drift
        /\ cur'[r] = f
    BY <1>0, <2>3, MemoryFields DEF Memory
  <2>5. ~DownNext(r)
    BY <1>1 DEF UpNext, DownNext
  <2> QED  BY <2>1, <2>3, <2>4, <2>5
<1>2. CASE DownNext(r)
  <2> DEFINE f == Newest(mem[r].todo)
  <2>1. f \in mem[r].todo /\ \A g \in mem[r].todo : g <= f
    BY <1>0, <1>2, NewestIsGreatest DEF DownNext
  <2>2. ~Exit(r, "failed")
    BY <1>p, MemoryFields DEF Exit, Goto, Ended
  <2>3. /\ cur' = [cur EXCEPT ![r] = f]
        /\ mem' = [mem EXCEPT ![r] =
                     [mem[r] EXCEPT !.body = disk[f], !.at = 0]]
        /\ disk' = disk
    BY <1>2, <2>2 DEF DownNext, Remember, dirVars
  <2> HIDE DEF f
  <2>4. /\ mem'[r].todo = mem[r].todo /\ mem'[r].body = disk[f]
        /\ mem'[r].checked = mem[r].checked /\ mem'[r].drift = mem[r].drift
        /\ cur'[r] = f
    BY <1>0, <2>3, MemoryFields DEF Memory
  <2>5. ~UpNext(r)
    BY <1>2 DEF UpNext, DownNext
  <2> QED  BY <2>1, <2>3, <2>4, <2>5
<1> QED  BY <1>1, <1>2

(* One more statement leaves everything but "at" alone, unless it was the  *)
(* last one of a Down section: then the file in hand is done.              *)
LEMMA StatementKeeps ==
  ASSUME TypeOK, NEW r \in Runs, UpStatement(r) \/ DownStatement(r)
  PROVE  /\ cur' = cur /\ disk' = disk
         /\ mem'[r].body = mem[r].body /\ mem'[r].checked = mem[r].checked
         /\ mem'[r].drift = mem[r].drift /\ mem'[r].cmd = mem[r].cmd
         /\ \/ mem'[r].todo = mem[r].todo /\ pc'[r] # "downNext"
            \/ /\ DownStatement(r) /\ pc'[r] = "downNext"
               /\ mem'[r].todo = mem[r].todo \ {cur[r]}
         /\ UpStatement(r) => pc'[r] \in {"upExec", "record"}
         /\ DownStatement(r) => pc'[r] \in {"downExec", "downNext"}
<1>0. mem[r] \in Memory /\ mem \in [Runs -> Memory]
  BY MemoryFields
<1>p. pc \in [Runs -> Working \cup Ended \cup {"ready"}]
  BY MemoryFields
<1>1. /\ [mem[r] EXCEPT !.at = @ + 1].todo = mem[r].todo
      /\ [mem[r] EXCEPT !.at = @ + 1].body = mem[r].body
      /\ [mem[r] EXCEPT !.at = @ + 1].checked = mem[r].checked
      /\ [mem[r] EXCEPT !.at = @ + 1].drift = mem[r].drift
      /\ [mem[r] EXCEPT !.at = @ + 1].cmd = mem[r].cmd
  BY <1>0 DEF Memory
<1>2. LET m == [mem[r] EXCEPT !.at = @ + 1, !.todo = @ \ {cur[r]}] IN
        /\ m.todo = mem[r].todo \ {cur[r]} /\ m.body = mem[r].body
        /\ m.checked = mem[r].checked /\ m.drift = mem[r].drift
        /\ m.cmd = mem[r].cmd
  BY <1>0 DEF Memory
<1>3. CASE UpStatement(r)
  <2>1. ~DownStatement(r)  BY <1>3 DEF UpStatement, DownStatement
  <2>2. mem'[r] = [mem[r] EXCEPT !.at = @ + 1]
    BY <1>0, <1>3 DEF UpStatement, Remember
  <2>3. cur' = cur /\ disk' = disk
    BY <1>3 DEF UpStatement, dirVars
  <2>4. pc'[r] \in {"upExec", "record"}
    BY <1>3, <1>p DEF UpStatement, Goto
  <2> QED  BY <1>1, <2>1, <2>2, <2>3, <2>4
<1>4. CASE DownStatement(r)
  <2>1. ~UpStatement(r)  BY <1>4 DEF UpStatement, DownStatement
  <2>3. cur' = cur /\ disk' = disk
    BY <1>4 DEF DownStatement, dirVars
  <2>4. CASE mem[r].at + 1 = DownLen[mem[r].body]
    <3>1. /\ mem'[r] = [mem[r] EXCEPT !.at = @ + 1, !.todo = @ \ {cur[r]}]
          /\ pc'[r] = "downNext"
      BY <1>0, <1>p, <1>4, <2>4 DEF DownStatement, Remember, Goto
    <3> QED  BY <1>2, <1>4, <2>1, <2>3, <3>1
  <2>5. CASE mem[r].at + 1 # DownLen[mem[r].body]
    <3>1. mem'[r] = [mem[r] EXCEPT !.at = @ + 1] /\ pc'[r] = "downExec"
      BY <1>0, <1>p, <1>4, <2>5 DEF DownStatement, Remember
    <3> QED  BY <1>1, <1>4, <2>1, <2>3, <3>1
  <2> QED  BY <2>4, <2>5
<1> QED  BY <1>3, <1>4

LEMMA StepHandIsNext ==
  ASSUME TypeOK, NEW r \in Runs, HandIsNext(r), Step(r)
  PROVE  HandIsNext(r)'
<1>0. pc'[r] \in {"upExec", "record", "delete", "downExec"} =>
        pc'[r] \in Working
  BY DEF Working
<1>1. CASE pc'[r] \in {"upExec", "record"}
  <2>1. CASE UpNext(r)
    <3>1. PICK f \in mem[r].todo :
            /\ cur'[r] = f /\ mem'[r].todo = mem[r].todo
            /\ mem'[r].body = disk[f] /\ disk' = disk
            /\ \A g \in mem[r].todo : f <= g
      BY <1>0, <1>1, <2>1, NextInHand
    <3> QED  BY <1>1, <3>1 DEF HandIsNext
  <2>2. CASE UpStatement(r)
    <3>1. pc[r] = "upExec"  BY <2>2 DEF UpStatement
    <3>2. mem'[r].todo = mem[r].todo
      BY <1>1, <2>2, StatementKeeps
    <3> QED  BY <1>1, <2>2, <3>1, <3>2, StatementKeeps DEF HandIsNext
  <2> QED  BY <1>1, <2>1, <2>2, WhereFrom
<1>2. CASE pc'[r] = "delete"
  <2>1. DownNext(r)  BY <1>2, WhereFrom
  <2>2. PICK f \in mem[r].todo :
          /\ cur'[r] = f /\ mem'[r].todo = mem[r].todo
          /\ mem'[r].body = disk[f] /\ disk' = disk
          /\ \A g \in mem[r].todo : g <= f
    BY <1>0, <1>2, <2>1, NextInHand
  <2> QED  BY <1>2, <2>2 DEF HandIsNext
<1>3. CASE pc'[r] = "downExec"
  <2>1. CASE DeleteRow(r)
    BY <1>3, <2>1 DEF DeleteRow, HandIsNext, dirVars
  <2>2. CASE DownStatement(r)
    <3>1. pc[r] = "downExec"  BY <2>2 DEF DownStatement
    <3>2. mem'[r].todo = mem[r].todo
      BY <1>3, <2>2, StatementKeeps
    <3> QED  BY <1>3, <2>2, <3>1, <3>2, StatementKeeps DEF HandIsNext
  <2> QED  BY <1>3, <2>1, <2>2, WhereFrom
<1>4. CASE pc'[r] \notin {"upExec", "record", "delete", "downExec"}
  BY <1>4 DEF HandIsNext
<1> QED  BY <1>1, <1>2, <1>3, <1>4

(* What the gates hand on to a run that they let pass.                     *)
LEMMA PreflightPasses ==
  ASSUME TypeOK, NEW r \in Runs, PreflightScan(r), pc'[r] \in Working
  PROVE  /\ pc[r] = "scan" /\ mem[r].cmd \in {"up", "sync"}
         /\ Adopt(mem[r].snap, Files)
         /\ Orphaned(mem[r].snap) = {}
         /\ mem'[r].drift = Mismatches(mem[r].snap)
         /\ mem'[r].todo = Pending(mem[r].snap)
         /\ mem'[r].cmd = mem[r].cmd
         /\ pc'[r] = "validate" => mem'[r].drift = {}
         /\ pc'[r] \in {"repair", "validate"}
<1>0. mem[r] \in Memory /\ mem \in [Runs -> Memory]
  BY MemoryFields
<1>p. pc \in [Runs -> Working \cup Ended \cup {"ready"}]
  BY MemoryFields
<1>1. ~Exit(r, "refused")
  BY <1>p DEF Exit, Goto, Working
<1>2. PICK edited, pending :
        edited = Mismatches(mem[r].snap) /\ pending = Pending(mem[r].snap)
  OBVIOUS
<1>3. /\ mem'[r] = [mem[r] EXCEPT !.snap = NoRows, !.drift = edited,
                                  !.todo = pending]
      /\ Orphaned(mem[r].snap) = {}
      /\ pc'[r] = IF edited = {} THEN "validate" ELSE "repair"
  BY <1>0, <1>p, <1>1, <1>2 DEF PreflightScan, Remember, Goto
<1>4. LET m == [mem[r] EXCEPT !.snap = NoRows, !.drift = edited,
                              !.todo = pending]
      IN  m.drift = edited /\ m.todo = pending /\ m.cmd = mem[r].cmd
  BY <1>0 DEF Memory
<1> QED  BY <1>2, <1>3, <1>4 DEF PreflightScan

LEMMA RepairPasses ==
  ASSUME TypeOK, NEW r \in Runs, RepairChecksum(r), pc'[r] \in Working
  PROVE  \E f \in mem[r].drift :
           /\ mem'[r].drift = mem[r].drift \ {f}
           /\ mem'[r].todo = mem[r].todo /\ mem'[r].cmd = mem[r].cmd
           /\ Recorded(f) => via'[f] = "accepted"
           /\ \A g \in Files : Recorded(g)' <=> Recorded(g)
           /\ pc'[r] = "validate" => mem[r].drift = {f}
<1>0. mem[r] \in Memory /\ mem \in [Runs -> Memory]
      /\ mem[r].drift \in SUBSET Files
  BY MemoryFields
<1>p. pc \in [Runs -> Working \cup Ended \cup {"ready"}]
  BY MemoryFields
<1>1. ~Exit(r, "refused")
  BY <1>p DEF Exit, Goto, Working, Ended
<1>2. PICK f : f = First(mem[r].drift)
  OBVIOUS
<1>3. f \in mem[r].drift /\ f \in Files
  BY <1>0, <1>2, FirstIsLeast DEF RepairChecksum
<1>4. /\ disk[f] # NoFile
      /\ changelog' = [changelog EXCEPT ![f] =
                         IF Recorded(f) THEN Sha[disk[f]] ELSE @]
      /\ via' = [via EXCEPT ![f] = IF Recorded(f) THEN "accepted" ELSE @]
      /\ mem'[r] = [mem[r] EXCEPT !.drift = @ \ {f}]
      /\ pc'[r] = IF mem[r].drift = {f} THEN "validate" ELSE "repair"
  BY <1>0, <1>p, <1>1, <1>2 DEF RepairChecksum, Remember, Goto
<1>5. LET m == [mem[r] EXCEPT !.drift = @ \ {f}]
      IN  /\ m.drift = mem[r].drift \ {f} /\ m.todo = mem[r].todo
          /\ m.cmd = mem[r].cmd
  BY <1>0 DEF Memory
<1>6. Sha[disk[f]] # NoRow
  BY <1>3, <1>4, ShaAssumption DEF TypeOK, Sums
<1>7. \A g \in Files : Recorded(g)' <=> Recorded(g)
  BY <1>4, <1>6 DEF Recorded, TypeOK, Rows
<1>8. Recorded(f) => via'[f] = "accepted"
  BY <1>3, <1>4 DEF TypeOK
<1> QED  BY <1>3, <1>4, <1>5, <1>7, <1>8

LEMMA ValidatePasses ==
  ASSUME TypeOK, NEW r \in Runs, Validate(r), pc'[r] \in Working
  PROVE  /\ pc[r] = "validate" /\ pc'[r] \in {"upRows", "runtime"}
         /\ mem'[r].cmd = mem[r].cmd /\ mem'[r].opt = mem[r].opt
         /\ mem'[r].todo = mem[r].todo
         /\ \A f \in Select(mem[r].todo, mem[r].opt) :
              <<f, disk[f]>> \in mem'[r].checked
         /\ changelog' = changelog
<1>0. mem[r] \in Memory /\ mem \in [Runs -> Memory]
  BY MemoryFields
<1>p. pc \in [Runs -> Working \cup Ended \cup {"ready"}]
  BY MemoryFields
<1>1. ~Exit(r, "refused")
  BY <1>p DEF Exit, Goto, Working
<1>2. PICK seen : seen = {<<f, disk[f]>> : f \in
                            Select(mem[r].todo, mem[r].opt)}
  OBVIOUS
<1>3. /\ mem'[r] = [mem[r] EXCEPT !.checked = seen]
      /\ pc'[r] \in {"upRows", "runtime"}
      /\ changelog' = changelog
  BY <1>0, <1>p, <1>1, <1>2 DEF Validate, Remember, Goto, dbVars
<1>4. LET m == [mem[r] EXCEPT !.checked = seen]
      IN  /\ m.checked = seen /\ m.todo = mem[r].todo
          /\ m.opt = mem[r].opt /\ m.cmd = mem[r].cmd
  BY <1>0 DEF Memory
<1> QED  BY <1>2, <1>3, <1>4 DEF Validate

LEMMA UpScanPasses ==
  ASSUME TypeOK, NEW r \in Runs, UpScan(r), pc'[r] \in Working
  PROVE  /\ mem'[r].todo = Select(Pending(mem[r].snap), mem[r].opt)
         /\ mem'[r].checked = mem[r].checked
         /\ pc[r] = "upScan" /\ pc'[r] = "upNext"
         /\ Adopt(mem[r].snap, Files)
<1>0. mem[r] \in Memory /\ mem \in [Runs -> Memory]
  BY MemoryFields
<1>p. pc \in [Runs -> Working \cup Ended \cup {"ready"}]
  BY MemoryFields
<1>1. ~Exit(r, "failed")
  BY <1>p DEF Exit, Goto, Working
<1>2. PICK selected : selected = Select(Pending(mem[r].snap), mem[r].opt)
  OBVIOUS
<1>3. /\ mem'[r] = [mem[r] EXCEPT !.snap = NoRows, !.todo = selected]
      /\ pc'[r] = "upNext"
  BY <1>0, <1>p, <1>1, <1>2 DEF UpScan, Remember, Goto
<1>4. LET m == [mem[r] EXCEPT !.snap = NoRows, !.todo = selected]
      IN  m.checked = mem[r].checked /\ m.todo = selected
  BY <1>0 DEF Memory
<1> QED  BY <1>2, <1>3, <1>4 DEF UpScan

LEMMA DownScanPasses ==
  ASSUME TypeOK, NEW r \in Runs, DownScan(r), pc'[r] \in Working
  PROVE  \E t \in Applied(mem[r].snap) :
           /\ mem'[r].todo = {f \in Applied(mem[r].snap) : f >= t}
           /\ mem'[r].drift = mem'[r].todo \cap Mismatches(mem[r].snap)
           /\ mem'[r].cmd = "down" /\ pc'[r] = "runtime" /\ pc[r] = "scan"
<1>0. mem[r] \in Memory /\ mem \in [Runs -> Memory]
  BY MemoryFields
<1>p. pc \in [Runs -> Working \cup Ended \cup {"ready"}]
  BY MemoryFields
<1>1. ~Exit(r, "refused") /\ ~Exit(r, "done")
  BY <1>p DEF Exit, Goto, Working
<1>2. PICK t \in Applied(mem[r].snap) :
        LET plan == {f \in Applied(mem[r].snap) : f >= t}
            edited == plan \cap Mismatches(mem[r].snap)
        IN  /\ Remember(r, [mem[r] EXCEPT !.snap = NoRows, !.todo = plan,
                                          !.drift = edited])
            /\ Goto(r, "runtime")
  BY <1>1 DEF DownScan
<1>3. PICK plan, edited :
        /\ plan = {f \in Applied(mem[r].snap) : f >= t}
        /\ edited = plan \cap Mismatches(mem[r].snap)
  OBVIOUS
<1>4. /\ mem'[r] = [mem[r] EXCEPT !.snap = NoRows, !.todo = plan,
                                  !.drift = edited]
      /\ pc'[r] = "runtime"
  BY <1>0, <1>p, <1>2, <1>3 DEF Remember, Goto
<1>5. LET m == [mem[r] EXCEPT !.snap = NoRows, !.todo = plan,
                              !.drift = edited]
      IN  m.todo = plan /\ m.drift = edited /\ m.cmd = mem[r].cmd
  BY <1>0 DEF Memory
<1> QED  BY <1>3, <1>4, <1>5 DEF DownScan

LEMMA RecordUpFacts ==
  ASSUME TypeOK, FileInHand, NEW r \in Runs, RecordUp(r)
  PROVE  /\ mem'[r].todo = mem[r].todo \ {cur[r]}
         /\ mem'[r].checked = mem[r].checked
         /\ pc[r] = "record" /\ pc'[r] = "upNext" /\ cur[r] \in Files
         /\ Recorded(cur[r])' /\ ~Recorded(cur[r])
         /\ ran'[cur[r]] = IF UpLen[mem[r].body] = 0
                           THEN ran[cur[r]] \cup {mem[r].body}
                           ELSE ran[cur[r]]
<1>0. mem[r] \in Memory /\ mem \in [Runs -> Memory]
  BY MemoryFields
<1>p. pc \in [Runs -> Working \cup Ended \cup {"ready"}]
  BY MemoryFields
<1>1. cur[r] \in Files /\ mem[r].body \in Contents
  BY DEF RecordUp, FileInHand, InHand
<1>2. /\ mem'[r] = [mem[r] EXCEPT !.todo = @ \ {cur[r]}]
      /\ pc'[r] = "upNext" /\ cur' = cur
  BY <1>0, <1>p DEF RecordUp, Remember, Goto
<1>3. LET m == [mem[r] EXCEPT !.todo = @ \ {cur[r]}]
      IN  m.todo = mem[r].todo \ {cur[r]} /\ m.checked = mem[r].checked
  BY <1>0 DEF Memory
<1>4. changelog'[cur[r]] = Sha[mem[r].body] /\ Sha[mem[r].body] # NoRow
  BY <1>1, ShaAssumption DEF RecordUp, TypeOK, Rows, Sums
<1>5. ran'[cur[r]] = IF UpLen[mem[r].body] = 0
                     THEN ran[cur[r]] \cup {mem[r].body} ELSE ran[cur[r]]
  BY <1>1 DEF RecordUp, TypeOK
<1> QED  BY <1>1, <1>2, <1>3, <1>4, <1>5 DEF RecordUp, Recorded

(* A row known to match the disk stays so, unless it is being written or   *)
(* its migration is being undone.                                          *)
LEMMA KnownStays ==
  ASSUME TypeOK, NEW r \in Runs, Step(r), NEW f \in Files, KnownRow(f),
         ~(RecordUp(r) /\ cur[r] = f), ~(DownStatement(r) /\ cur[r] = f)
  PROVE  KnownRow(f)'
<1>1. disk' = disk /\ ran[f] \subseteq ran'[f]
  BY StepKeepsDir, RanChanges
<1>2. via'[f] = "applied" => via[f] = "applied"
  BY AppliedChanges
<1> QED  BY <1>1, <1>2 DEF KnownRow

(* What status() found unedited belongs to a content that ran.             *)
LEMMA UneditedIsKnown ==
  ASSUME TypeOK, RecordedWasRun, NEW f \in Applied(changelog),
         f \notin Mismatches(changelog)
  PROVE  KnownRow(f)
<1> SUFFICES ASSUME via[f] = "applied" PROVE disk[f] \in ran[f]
  BY DEF KnownRow
<1>1. f \in Files /\ disk[f] \in Contents
  BY DEF Applied, Listed, TypeOK
<1>2. PICK c \in ran[f] : changelog[f] = Sha[c]
  BY <1>1 DEF RecordedWasRun
<1>3. c \in Contents /\ Sha[c] # NullSum
  BY <1>1, <1>2, ShaAssumption DEF TypeOK, Sums
<1>4. Sha[c] = Sha[disk[f]]
  BY <1>2, <1>3 DEF Mismatches
<1> QED  BY <1>1, <1>2, <1>3, <1>4, ShaAssumption

LEMMA AppliedIsRecorded ==
  ASSUME TypeOK, RecordedWasRun, NEW f \in Files, via[f] = "applied"
  PROVE  Recorded(f)
<1>1. PICK c \in ran[f] : changelog[f] = Sha[c]
  BY DEF RecordedWasRun
<1>2. c \in Contents /\ Sha[c] # NoRow
  BY <1>1, ShaAssumption DEF TypeOK, Sums
<1> QED  BY <1>1, <1>2 DEF Recorded

LEMMA StayPastGate ==
  ASSUME TypeOK, NEW r \in Runs, Step(r),
         pc'[r] \in PastGateR1 \ {"validate"}, ~Undoing(r)'
  PROVE  /\ pc[r] \in PastGateR1 /\ ~Undoing(r)
         /\ ~DownStatement(r)
<1>0. pc'[r] \in Working /\ pc'[r] \notin {"downExec", "downNext"}
  BY DEF PastGateR1, Working
<1>1. ~DownStatement(r)
  BY <1>0, StatementKeeps
<1>2. ~DownScan(r)
  BY <1>0, DownScanPasses DEF Undoing
<1>3. CASE Validate(r)
  BY <1>1, <1>3 DEF Validate, PastGateR1, Undoing
<1>4. CASE RuntimeGates(r)
  <2>1. pc[r] = "runtime" /\ pc'[r] \in {"upRows", "downNext", "refused"}
    BY <1>4, MemoryFields DEF RuntimeGates, Exit, Goto
  <2>2. ~Exit(r, "refused")
    BY <1>0, MemoryFields DEF Exit, Goto, Working
  <2>3. mem[r].cmd # "down"
    BY <1>0, <1>4, <2>2, MemoryFields DEF RuntimeGates, Goto
  <2> QED  BY <1>1, <2>1, <2>3 DEF PastGateR1, Undoing
<1>5. CASE ReadRows(r)
  <2>1. pc[r] = "upRows"
    BY <1>5, MemoryFields DEF ReadRows, Goto, PastGateR1
  <2> QED  BY <1>1, <2>1 DEF PastGateR1, Undoing
<1>6. CASE UpScan(r) \/ RecordUp(r) \/ UpNext(r) \/ UpStatement(r)
  BY <1>1, <1>6 DEF UpScan, RecordUp, UpNext, UpStatement, PastGateR1, Undoing
<1> QED
  BY <1>1, <1>2, <1>3, <1>4, <1>5, <1>6, WhereFrom DEF PastGateR1

LEMMA StepHistoryIsKnown ==
  ASSUME TypeOK, FileInHand, RecordedInv, NEW r \in Runs, Step(r),
         SnapIsFresh(r), HandIsNext(r), HistoryIsKnown(r)
  PROVE  HistoryIsKnown(r)'
<1>0. /\ disk' = disk /\ disk \in [Files -> Contents \cup {NoFile}]
      /\ RecordedWasRun /\ RanInHand
  BY StepKeepsDir DEF TypeOK, RecordedInv
<1>1. CASE PreflightScan(r) /\ pc'[r] \in {"repair", "validate"}
  <2>1. /\ mem[r].snap = changelog /\ pc'[r] \in Working
        /\ ~RecordUp(r) /\ ~DownStatement(r)
    BY <1>1 DEF SnapIsFresh, PreflightScan, RecordUp, DownStatement, Working
  <2>2. /\ Orphaned(changelog) = {}
        /\ mem'[r].drift = Mismatches(changelog)
        /\ pc'[r] = "validate" => mem'[r].drift = {}
    BY <1>1, <2>1, PreflightPasses
  <2>3. ASSUME NEW f \in Files, f \notin Mismatches(changelog)
        PROVE  KnownRow(f)'
    <3>1. CASE f \in Applied(changelog)
      BY <2>1, <2>3, <3>1, <1>0, UneditedIsKnown, KnownStays
    <3>2. CASE f \notin Applied(changelog)
      <4>1. ~Recorded(f)
        BY <2>2, <3>2 DEF Orphaned, Applied, Recorded
      <4>2. KnownRow(f)
        BY <1>0, <4>1, AppliedIsRecorded DEF KnownRow
      <4> QED  BY <2>1, <4>2, KnownStays
    <3> QED  BY <3>1, <3>2
  <2> QED  BY <1>1, <2>2, <2>3 DEF HistoryIsKnown, PastGateR1
<1>2. CASE RepairChecksum(r) /\ pc'[r] \in {"repair", "validate"}
  <2>1. /\ pc'[r] \in Working /\ pc[r] = "repair"
        /\ ~RecordUp(r) /\ ~DownStatement(r)
    BY <1>2 DEF RepairChecksum, RecordUp, DownStatement, Working
  <2>2. PICK f \in mem[r].drift :
           /\ mem'[r].drift = mem[r].drift \ {f}
           /\ Recorded(f) => via'[f] = "accepted"
           /\ pc'[r] = "validate" => mem[r].drift = {f}
    BY <1>2, <2>1, RepairPasses
  <2>3. \A g \in Files \ mem[r].drift : KnownRow(g)'
    BY <2>1, KnownStays DEF HistoryIsKnown
  <2>4. f \in Files
    BY MemoryFields
  <2>5. KnownRow(f)'
    <3>1. CASE Recorded(f)
      BY <2>2, <3>1 DEF KnownRow
    <3>2. CASE ~Recorded(f)
      <4>1. KnownRow(f)
        BY <1>0, <2>4, <3>2, AppliedIsRecorded DEF KnownRow
      <4> QED  BY <2>1, <2>4, <4>1, KnownStays
    <3> QED  BY <3>1, <3>2
  <2>6. \A g \in Files \ mem'[r].drift : KnownRow(g)'
    BY <2>2, <2>3, <2>5
  <2>7. pc'[r] = "validate" => mem'[r].drift = {}
    BY <2>2
  <2> QED  BY <1>2, <2>6, <2>7 DEF HistoryIsKnown, PastGateR1
<1>3. CASE pc'[r] \in PastGateR1 \ {"validate"} /\ ~Undoing(r)'
  <2>1. /\ \A f \in Files : KnownRow(f)
        /\ ~DownStatement(r) /\ pc'[r] # "repair"
    BY <1>3, StayPastGate DEF HistoryIsKnown, PastGateR1
  <2>2. ASSUME NEW f \in Files PROVE KnownRow(f)'
    <3>1. CASE RecordUp(r) /\ cur[r] = f
      <4>1. /\ mem[r].body = disk[f]
            /\ UpLen[mem[r].body] = 0 \/ mem[r].body \in ran[f]
        BY <1>0, <3>1 DEF RecordUp, HandIsNext, RanInHand
      <4>2. mem[r].body \in ran'[f]
        BY <3>1, <4>1, RecordUpFacts
      <4> QED  BY <1>0, <4>1, <4>2 DEF KnownRow
    <3>2. CASE ~(RecordUp(r) /\ cur[r] = f)
      BY <2>1, <3>2, KnownStays
    <3> QED  BY <3>1, <3>2
  <2> QED  BY <2>1, <2>2 DEF HistoryIsKnown
<1>4. CASE pc'[r] \notin {"repair", "validate"}
  <2>1. CASE ~(pc'[r] \in PastGateR1 /\ ~Undoing(r)')
    BY <1>4, <2>1 DEF HistoryIsKnown
  <2> QED  BY <1>3, <1>4, <2>1
<1> QED  BY <1>1, <1>2, <1>4, WhereFrom

LEMMA PendingStays ==
  ASSUME TypeOK, disk' = disk, \A f \in Files : Recorded(f)' <=> Recorded(f)
  PROVE  Pending(changelog)' = Pending(changelog)
BY DEF Pending, Listed, Recorded

LEMMA StepToDoIsValidated ==
  ASSUME TypeOK, FileInHand, NEW r \in Runs, Step(r),
         SnapIsFresh(r), ToDoIsValidated(r)
  PROVE  ToDoIsValidated(r)'
<1>0. disk' = disk
  BY StepKeepsDir
<1>1. CASE pc'[r] \in {"repair", "validate"}
  <2>0. pc'[r] \in Working  BY <1>1 DEF Working
  <2>1. /\ mem'[r].todo = Pending(changelog) /\ mem'[r].cmd # "down"
        /\ \A g \in Files : Recorded(g)' <=> Recorded(g)
    <3>1. CASE PreflightScan(r)
      <4>1. mem[r].snap = changelog
        BY <3>1 DEF SnapIsFresh, PreflightScan
      <4> QED  BY <2>0, <3>1, <4>1, PreflightPasses, AdoptKeepsRows
    <3>2. CASE RepairChecksum(r)
      <4>1. mem[r].todo = Pending(changelog) /\ mem[r].cmd # "down"
        BY <3>2 DEF ToDoIsValidated, RepairChecksum
      <4> QED  BY <2>0, <3>2, <4>1, RepairPasses
    <3> QED  BY <1>1, <3>1, <3>2, WhereFrom
  <2>2. Pending(changelog)' = Pending(changelog)
    BY <1>0, <2>1, PendingStays
  <2> QED  BY <1>1, <2>1, <2>2 DEF ToDoIsValidated, Executing
<1>2. CASE pc'[r] \in {"runtime", "upRows", "upScan"} /\ ~Undoing(r)'
  <2>0. pc'[r] \in Working  BY <1>2 DEF Working
  <2>1. /\ \A f \in Select(Pending(changelog), mem'[r].opt) :
             <<f, disk[f]>> \in mem'[r].checked
        /\ changelog' = changelog
    <3>1. CASE Validate(r)
      <4>1. mem[r].todo = Pending(changelog)
        BY <3>1 DEF Validate, ToDoIsValidated
      <4> QED  BY <2>0, <3>1, <4>1, ValidatePasses
    <3>2. CASE ~Validate(r)
      <4>1. pc[r] \in {"runtime", "upRows"} /\ ~Undoing(r)
        BY <1>2, <3>2, StayPastGate, WhereFrom
        DEF PastGateR1, RuntimeGates, ReadRows, DownScan
      <4>2. ~DownScan(r)
        BY <4>1 DEF DownScan
      <4>3. RuntimeGates(r) \/ ReadRows(r)
        BY <1>2, <3>2, <4>2, WhereFrom
      <4>4. mem'[r].opt = mem[r].opt /\ mem'[r].checked = mem[r].checked
        <5>1. CASE RuntimeGates(r)
          <6>1. ~Exit(r, "refused")
            BY <2>0, MemoryFields DEF Exit, Goto, Working
          <6> QED  BY <5>1, <6>1 DEF RuntimeGates
        <5>2. CASE ReadRows(r)
          BY <5>2, MemoryFields DEF ReadRows, Remember, Memory
        <5> QED  BY <4>3, <5>1, <5>2
      <4>5. changelog' = changelog
        BY <4>3 DEF RuntimeGates, ReadRows, dbVars
      <4> QED  BY <4>1, <4>4, <4>5 DEF ToDoIsValidated
    <3> QED  BY <3>1, <3>2
  <2>2. Pending(changelog)' = Pending(changelog)
    BY <1>0, <2>1, PendingStays DEF Recorded
  <2> QED  BY <1>0, <1>2, <2>1, <2>2 DEF ToDoIsValidated, Executing
<1>3. CASE Executing(r)'
  <2>0. pc'[r] \in Working  BY <1>3 DEF Executing, Working
  <2>1. \A f \in mem'[r].todo : <<f, disk[f]>> \in mem'[r].checked
    <3>1. CASE UpScan(r)
      <4>1. mem[r].snap = changelog /\ ~Undoing(r)
        BY <3>1 DEF UpScan, SnapIsFresh, Undoing
      <4> QED  BY <2>0, <3>1, <4>1, UpScanPasses DEF ToDoIsValidated
    <3>2. CASE RecordUp(r)
      BY <3>2, RecordUpFacts DEF ToDoIsValidated, Executing
    <3>3. CASE UpNext(r)
      <4>1. /\ mem'[r].todo = mem[r].todo
            /\ mem'[r].checked = mem[r].checked
        BY <2>0, <3>3, NextInHand
      <4> QED  BY <3>3, <4>1 DEF ToDoIsValidated, Executing, UpNext
    <3>4. CASE UpStatement(r)
      <4>1. /\ mem'[r].todo = mem[r].todo
            /\ mem'[r].checked = mem[r].checked
        BY <1>3, <3>4, StatementKeeps DEF Executing
      <4> QED  BY <3>4, <4>1 DEF ToDoIsValidated, Executing, UpStatement
    <3> QED  BY <1>3, <3>1, <3>2, <3>3, <3>4, WhereFrom DEF Executing
  <2> QED  BY <1>0, <1>3, <2>1 DEF ToDoIsValidated, Executing
<1>4. CASE /\ pc'[r] \notin {"repair", "validate"} /\ ~Executing(r)'
           /\ ~(pc'[r] \in {"runtime", "upRows", "upScan"} /\ ~Undoing(r)')
  BY <1>4 DEF ToDoIsValidated
<1> QED  BY <1>1, <1>2, <1>3, <1>4

LEMMA StepPlanIsReviewed ==
  ASSUME TypeOK, FileInHand, RecordedInv, NEW r \in Runs, Step(r),
         SnapIsFresh(r), HandIsNext(r), ToDoIsValidated(r), PlanIsReviewed(r)
  PROVE  PlanIsReviewed(r)'
<1> DEFINE Fine(f) == KnownRow(f) \/ f \in mem[r].drift
<1> SUFFICES ASSUME Undoing(r)' PROVE \A f \in mem'[r].todo : Fine(f)'
  BY DEF PlanIsReviewed
<1>0. /\ pc'[r] \in {"runtime", "downNext", "delete", "downExec"}
      /\ pc'[r] = "runtime" => mem'[r].cmd = "down"
      /\ pc'[r] \in Working
  BY DEF Undoing, Working
<1>f. mem[r].todo \in SUBSET Files
  BY MemoryFields
<1>1. CASE DownScan(r)
  <2>1. PICK t \in Applied(mem[r].snap) :
          /\ mem'[r].todo = {f \in Applied(mem[r].snap) : f >= t}
          /\ mem'[r].drift = mem'[r].todo \cap Mismatches(mem[r].snap)
    BY <1>0, <1>1, DownScanPasses
  <2>2. mem[r].snap = changelog
    BY <1>1 DEF DownScan, SnapIsFresh
  <2>3. ~RecordUp(r) /\ ~DownStatement(r)
    BY <1>1 DEF DownScan, RecordUp, DownStatement
  <2>4. ASSUME NEW f \in mem'[r].todo, f \notin Mismatches(changelog)
        PROVE  KnownRow(f)'
    <3>1. f \in Applied(changelog) /\ f \in Files
      BY <2>1, <2>2 DEF Applied, Listed
    <3> QED
      BY <2>3, <2>4, <3>1, UneditedIsKnown, KnownStays DEF RecordedInv
  <2> QED  BY <2>1, <2>2, <2>4
<1>2. ~Validate(r)
  <2>1. SUFFICES ASSUME Validate(r) PROVE FALSE
    OBVIOUS
  <2>2. mem'[r].cmd # "down" /\ pc'[r] \in {"upRows", "runtime"}
    BY <1>0, <2>1, ValidatePasses DEF Validate, ToDoIsValidated
  <2> QED  BY <1>0, <2>2
<1>3. CASE RuntimeGates(r)
  <2>1. ~Exit(r, "refused")
    BY <1>0, MemoryFields DEF Exit, Goto, Working
  <2>2. Undoing(r) /\ mem' = mem
    BY <1>0, <1>3, <2>1, MemoryFields DEF RuntimeGates, Goto, Undoing
  <2>3. ~RecordUp(r) /\ ~DownStatement(r)
    BY <1>3 DEF RuntimeGates, RecordUp, DownStatement
  <2> QED  BY <1>f, <2>2, <2>3, KnownStays DEF PlanIsReviewed
<1>4. CASE DownNext(r)
  <2>1. mem'[r].todo = mem[r].todo /\ mem'[r].drift = mem[r].drift
    BY <1>0, <1>4, NextInHand
  <2>2. Undoing(r) /\ ~RecordUp(r) /\ ~DownStatement(r)
    BY <1>4 DEF DownNext, RecordUp, DownStatement, Undoing
  <2> QED  BY <1>f, <2>1, <2>2, KnownStays DEF PlanIsReviewed
<1>5. CASE DeleteRow(r)
  <2>1. mem' = mem /\ Undoing(r) /\ ~RecordUp(r) /\ ~DownStatement(r)
    BY <1>5 DEF DeleteRow, RecordUp, DownStatement, Undoing
  <2> QED  BY <1>f, <2>1, KnownStays DEF PlanIsReviewed
<1>6. CASE DownStatement(r)
  <2>1. /\ mem'[r].drift = mem[r].drift /\ Undoing(r) /\ ~RecordUp(r)
        /\ \/ mem'[r].todo = mem[r].todo /\ pc'[r] # "downNext"
           \/ mem'[r].todo = mem[r].todo \ {cur[r]}
    BY <1>6, StatementKeeps DEF DownStatement, RecordUp, Undoing
  <2>2. CASE mem'[r].todo = mem[r].todo /\ pc'[r] # "downNext"
    <3>1. ran' = ran /\ via' = via /\ disk' = disk
      BY <1>6, <2>2, MemoryFields DEF DownStatement, Goto, dirVars
    <3> QED  BY <2>1, <2>2, <3>1 DEF PlanIsReviewed, KnownRow
  <2>3. CASE mem'[r].todo = mem[r].todo \ {cur[r]}
    BY <1>f, <2>1, <2>3, KnownStays DEF PlanIsReviewed
  <2> QED  BY <2>1, <2>2, <2>3
<1> QED  BY <1>0, <1>1, <1>2, <1>3, <1>4, <1>5, <1>6, WhereFrom

(* A run that is not past its first query has nothing to rely on.          *)
LEMMA IdleIsSound ==
  ASSUME NEW r \in Runs, pc[r] \notin Working \/ pc[r] \in {"rows", "reset"}
  PROVE  /\ SnapIsFresh(r) /\ HandIsNext(r) /\ HistoryIsKnown(r)
         /\ ToDoIsValidated(r) /\ PlanIsReviewed(r)
BY DEF SnapIsFresh, HandIsNext, HistoryIsKnown, ToDoIsValidated,
   PlanIsReviewed, Undoing, PastGateR1, Executing, Working

LEMMA IdleStaysSound ==
  ASSUME NEW r \in Runs,
         pc'[r] \notin Working \/ pc'[r] \in {"rows", "reset"}
  PROVE  /\ SnapIsFresh(r)' /\ HandIsNext(r)' /\ HistoryIsKnown(r)'
         /\ ToDoIsValidated(r)' /\ PlanIsReviewed(r)'
BY DEF SnapIsFresh, HandIsNext, HistoryIsKnown, ToDoIsValidated,
   PlanIsReviewed, Undoing, PastGateR1, Executing, Working

LEMMA EnvironmentIdles ==
  ASSUME TypeOK, Serial, Alone,
         \/ \E r \in Runs, c \in Commands, o \in Options : Start(r, c, o)
         \/ \E r \in Runs : Crash(r)
         \/ \E f \in Files, c \in Contents \cup {NoFile} : Edit(f, c)
  PROVE  \A q \in Runs : pc'[q] \notin Working \/ pc'[q] \in {"rows", "reset"}
<1>p. pc \in [Runs -> Working \cup Ended \cup {"ready"}]
  BY DEF TypeOK
<1>1. CASE \E r \in Runs, c \in Commands, o \in Options : Start(r, c, o)
  BY <1>p, <1>1 DEF Start, Goto, Active
<1>2. CASE \E r \in Runs : Crash(r)
  <2>1. PICK r \in Runs : Crash(r)
    BY <1>2
  <2>2. \A q \in Runs : pc'[q] = IF q = r THEN "crashed" ELSE pc[q]
    BY <1>p, <2>1 DEF Crash, Exit, Goto
  <2>3. \A q \in Runs : q # r => pc[q] \notin Working
    BY <2>1 DEF Crash, Alone, Active
  <2> QED  BY <2>2, <2>3 DEF Working
<1>3. CASE \E f \in Files, c \in Contents \cup {NoFile} : Edit(f, c)
  BY <1>3 DEF Edit, runVars, Active
<1> QED  BY <1>1, <1>2, <1>3

LEMMA NextSerial ==
  ASSUME Serial, TypeOK, FileInHand, RecordedInv, SerialInv, [Next]_vars
  PROVE  SerialInv'
<1>1. Alone
  BY DEF RecordedInv
<1>2. CASE \E r \in Runs : Step(r)
  <2>1. PICK r \in Runs : Step(r)
    BY <1>2
  <2>2. \A q \in Runs : q # r => pc'[q] \notin Working
    BY <1>1, <2>1, SerialOthers
  <2>3. \A q \in Runs : q # r =>
          /\ SnapIsFresh(q)' /\ HandIsNext(q)' /\ HistoryIsKnown(q)'
          /\ ToDoIsValidated(q)' /\ PlanIsReviewed(q)'
    BY <2>2, IdleStaysSound
  <2>4. /\ SnapIsFresh(r)' /\ HandIsNext(r)' /\ HistoryIsKnown(r)'
        /\ ToDoIsValidated(r)' /\ PlanIsReviewed(r)'
    BY <2>1, StepSnapIsFresh, StepHandIsNext, StepHistoryIsKnown,
       StepToDoIsValidated, StepPlanIsReviewed DEF SerialInv
  <2> QED  BY <2>3, <2>4 DEF SerialInv
<1>3. CASE UNCHANGED vars
  BY <1>3 DEF vars, dirVars, dbVars, runVars, SerialInv, SnapIsFresh,
     HandIsNext, HistoryIsKnown, ToDoIsValidated, PlanIsReviewed, Undoing,
     Executing, KnownRow, Pending, Listed
<1>4. CASE ~(\E r \in Runs : Step(r)) /\ ~UNCHANGED vars
  <2>1. \A q \in Runs : pc'[q] \notin Working \/ pc'[q] \in {"rows", "reset"}
    BY <1>1, <1>4, EnvironmentIdles DEF Next
  <2>2. \A q \in Runs :
          /\ SnapIsFresh(q)' /\ HandIsNext(q)' /\ HistoryIsKnown(q)'
          /\ ToDoIsValidated(q)' /\ PlanIsReviewed(q)'
    BY <2>1, IdleStaysSound
  <2> QED  BY <2>2 DEF SerialInv
<1> QED  BY <1>2, <1>3, <1>4

LEMMA SerialAlways ==
  ASSUME Serial
  PROVE  Spec => [](TypeOK /\ RecordedInv /\ SerialInv)
<1>1. Init => SerialInv
  <2> SUFFICES ASSUME Init PROVE SerialInv
    OBVIOUS
  <2>1. \A r \in Runs : pc[r] \notin Working
    BY DEF Init, Working
  <2> QED  BY <2>1, IdleIsSound DEF SerialInv
<1>2. TypeOK /\ FileInHand /\ RecordedInv /\ SerialInv /\ [Next]_vars
        => SerialInv'
  BY NextSerial
<1>3. Spec => []RecordedInv
  BY RecordedAlways
<1> QED  BY <1>1, <1>2, <1>3, TypeCorrect, PTL DEF Spec

(* Gate R1 means what it says: while up or sync executes and nobody else   *)
(* is at work, every migration up() recorded is on disk with a content     *)
(* that ran, whatever was edited, crashed or half-executed before.         *)
THEOREM ExecutesOnKnownGround ==
  ASSUME Serial PROVE Spec => []ExecutesOnKnownHistory
<1>1. SerialInv => ExecutesOnKnownHistory
  BY DEF SerialInv, HistoryIsKnown, ExecutesOnKnownHistory, Executing,
     PastGateR1, Undoing, KnownRow
<1> QED  BY <1>1, SerialAlways, PTL

(* Without overlapping runs a statement executes only from a file, and a   *)
(* content, that the validation gate of the same run let pass: the second  *)
(* status() and selection inside up() choose nothing new.                  *)
THEOREM OnlyValidatedExecutes ==
  ASSUME Serial PROVE Spec => []ValidatedBeforeRun
<1>1. SerialInv => ValidatedBeforeRun
  <2> SUFFICES ASSUME SerialInv, NEW r \in Runs, pc[r] = "upExec"
               PROVE  <<cur[r], mem[r].body>> \in mem[r].checked
    BY DEF ValidatedBeforeRun
  <2>1. HandIsNext(r) /\ ToDoIsValidated(r)
    BY DEF SerialInv
  <2>2. cur[r] \in mem[r].todo /\ mem[r].body = disk[cur[r]]
    BY <2>1 DEF HandIsNext
  <2> QED  BY <2>1, <2>2 DEF ToDoIsValidated, Executing
<1> QED  BY <1>1, SerialAlways, PTL

(* Without overlapping runs the Down section that down() takes for a       *)
(* recorded migration is that of a content that ran, or the operator was   *)
(* told of the edit and passed --allow-checksum-drift.                     *)
THEOREM OnlyReviewedIsUndone ==
  ASSUME Serial PROVE Spec => []RollbackWasReviewed
<1>1. SerialInv => RollbackWasReviewed
  <2> SUFFICES ASSUME SerialInv, NEW r \in Runs, pc[r] = "delete",
                      via[cur[r]] = "applied"
               PROVE  mem[r].body \in ran[cur[r]] \/ cur[r] \in mem[r].drift
    BY DEF RollbackWasReviewed
  <2>1. HandIsNext(r) /\ PlanIsReviewed(r) /\ Undoing(r)
    BY DEF SerialInv, Undoing
  <2>2. cur[r] \in mem[r].todo /\ mem[r].body = disk[cur[r]]
    BY <2>1 DEF HandIsNext
  <2> QED  BY <2>1, <2>2 DEF PlanIsReviewed, KnownRow
<1> QED  BY <1>1, SerialAlways, PTL

(***************************************************************************)
(* Rows that stay.  Only a down and a reset remove rows, so they stay      *)
(* while a run selects and executes, if runs do not overlap or nobody      *)
(* issues one of the two.                                                  *)
(***************************************************************************)
RowsAreSafe == Serial \/ ("down" \notin Commands /\ "reset" \notin Commands)

NoResetRun == "reset" \notin Commands => \A r \in Runs : pc[r] # "reset"

(* A run has the options it was started with.                              *)
OptionsAreGiven ==
  \A r \in Runs : mem[r].opt \in Options \cup {Blank.opt}

LEMMA OptionsStay ==
  ASSUME TypeOK, NEW r \in Runs, Step(r)
  PROVE  mem'[r].opt = mem[r].opt \/ mem'[r] = Blank
<1>0. mem[r] \in Memory /\ mem \in [Runs -> Memory]
  BY MemoryFields
<1>e. \A label : Exit(r, label) => mem'[r] = Blank
  BY <1>0 DEF Exit, Remember
<1> USE <1>0, <1>e DEF Remember
<1>1. CASE QueryFails(r)  BY <1>1 DEF QueryFails
<1>2. CASE ReadRows(r)
  <2>1. PICK x : mem'[r] = [mem[r] EXCEPT !.snap = x]
    BY <1>2 DEF ReadRows
  <2> QED  BY <2>1 DEF Memory
<1>3. CASE PreflightScan(r)
  <2>1. CASE Exit(r, "refused")
    BY <2>1
  <2>2. CASE ~(Exit(r, "refused"))
    <3>1. PICK x, y : x = Mismatches(mem[r].snap) /\ y = Pending(mem[r].snap)
      OBVIOUS
    <3>2. mem'[r] = [mem[r] EXCEPT !.snap = NoRows, !.drift = x, !.todo = y]
      BY <1>3, <2>2, <3>1 DEF PreflightScan
    <3> QED  BY <3>2 DEF Memory
  <2> QED  BY <2>1, <2>2
<1>4. CASE RepairChecksum(r)
  <2>1. CASE Exit(r, "refused")
    BY <2>1
  <2>2. CASE ~(Exit(r, "refused"))
    <3>1. PICK x : mem'[r] = [mem[r] EXCEPT !.drift = x]
      BY <1>4, <2>2 DEF RepairChecksum
    <3> QED  BY <3>1 DEF Memory
  <2> QED  BY <2>1, <2>2
<1>5. CASE Validate(r)
  <2>1. CASE Exit(r, "refused")
    BY <2>1
  <2>2. CASE ~(Exit(r, "refused"))
    <3>1. PICK x : mem'[r] = [mem[r] EXCEPT !.checked = x]
      BY <1>5, <2>2 DEF Validate
    <3> QED  BY <3>1 DEF Memory
  <2> QED  BY <2>1, <2>2
<1>6. CASE RuntimeGates(r)  BY <1>6 DEF RuntimeGates
<1>7. CASE UpScan(r)
  <2>1. CASE Exit(r, "failed")
    BY <2>1
  <2>2. CASE ~(Exit(r, "failed"))
    <3>1. PICK x, y : mem'[r] = [mem[r] EXCEPT !.snap = x, !.todo = y]
      BY <1>7, <2>2 DEF UpScan
    <3> QED  BY <3>1 DEF Memory
  <2> QED  BY <2>1, <2>2
<1>8. CASE Finish(r)  BY <1>8 DEF Finish
<1>9. CASE UpNext(r)
  <2>1. CASE Exit(r, "failed")
    BY <2>1
  <2>2. CASE ~(Exit(r, "failed"))
    <3>1. PICK x : x = disk[First(mem[r].todo)]
      OBVIOUS
    <3>2. mem'[r] = [mem[r] EXCEPT !.body = x, !.at = 0]
      BY <1>9, <2>2, <3>1 DEF UpNext
    <3> QED  BY <3>2 DEF Memory
  <2> QED  BY <2>1, <2>2
<1>10. CASE UpStatement(r)
  <2>1. PICK x : mem'[r] = [mem[r] EXCEPT !.at = x]
    BY <1>10 DEF UpStatement
  <2> QED  BY <2>1 DEF Memory
<1>11. CASE UpStatementFails(r)  BY <1>11 DEF UpStatementFails
<1>12. CASE RecordUp(r)
  <2>1. PICK x : mem'[r] = [mem[r] EXCEPT !.todo = x]
    BY <1>12 DEF RecordUp
  <2> QED  BY <2>1 DEF Memory
<1>13. CASE RecordFails(r)  BY <1>13 DEF RecordFails
<1>14. CASE DownScan(r)
  <2>1. CASE Exit(r, "done") \/ Exit(r, "refused")
    BY <2>1
  <2>2. CASE ~(Exit(r, "done") \/ Exit(r, "refused"))
    <3>1. PICK t \in Applied(mem[r].snap) :
            LET plan == {f \in Applied(mem[r].snap) : f >= t}
                edited == plan \cap Mismatches(mem[r].snap)
            IN  mem'[r] = [mem[r] EXCEPT !.snap = NoRows, !.todo = plan,
                                         !.drift = edited]
      BY <1>14, <2>2 DEF DownScan
    <3> QED  BY <3>1 DEF Memory
  <2> QED  BY <2>1, <2>2
<1>15. CASE DownNext(r)
  <2>1. CASE Exit(r, "failed")
    BY <2>1
  <2>2. CASE ~(Exit(r, "failed"))
    <3>1. PICK x, y : mem'[r] = [mem[r] EXCEPT !.body = x, !.at = y]
      BY ZenonT(60), <1>15, <2>2 DEF DownNext
    <3> QED  BY <3>1 DEF Memory
  <2> QED  BY <2>1, <2>2
<1>16. CASE DeleteRow(r)  BY <1>16 DEF DeleteRow
<1>17. CASE DownStatement(r)
  <2>1. CASE mem[r].at + 1 = DownLen[mem[r].body]
    <3>1. PICK x, y : mem'[r] = [mem[r] EXCEPT !.at = x, !.todo = y]
      BY ZenonT(60), <1>17, <2>1 DEF DownStatement
    <3> QED  BY <3>1 DEF Memory
  <2>2. CASE mem[r].at + 1 # DownLen[mem[r].body]
    <3>1. PICK x : mem'[r] = [mem[r] EXCEPT !.at = x]
      BY <1>17, <2>2 DEF DownStatement
    <3> QED  BY <3>1 DEF Memory
  <2> QED  BY <2>1, <2>2
<1>18. CASE DownStatementFails(r)  BY <1>18 DEF DownStatementFails
<1>19. CASE RestoreRow(r)  BY <1>19 DEF RestoreRow
<1>20. CASE BaselineScan(r)
  <2>1. CASE Exit(r, "refused")
    BY <2>1
  <2>2. CASE ~(Exit(r, "refused"))
    <3>1. PICK files :
            mem'[r] = [mem[r] EXCEPT !.snap = NoRows,
                                     !.todo = files \ Applied(mem[r].snap)]
      BY <1>20, <2>2 DEF BaselineScan
    <3> QED  BY <3>1 DEF Memory
  <2> QED  BY <2>1, <2>2
<1>21. CASE Mark(r)
  <2>1. PICK x : mem'[r] = [mem[r] EXCEPT !.todo = x]
    BY <1>21 DEF Mark
  <2> QED  BY <2>1 DEF Memory
<1>22. CASE Reset(r)  BY <1>22 DEF Reset
<1>23. CASE StatusScan(r)  BY <1>23 DEF StatusScan
<1>24. CASE StatusFails(r)  BY <1>24 DEF StatusFails
<1> QED
  BY <1>1, <1>2, <1>3, <1>4, <1>5, <1>6, <1>7, <1>8, <1>9, <1>10, <1>11,
     <1>12, <1>13, <1>14, <1>15, <1>16, <1>17, <1>18, <1>19, <1>20, <1>21,
     <1>22, <1>23, <1>24
  DEF Step

LEMMA NextAsGiven ==
  ASSUME TypeOK, NoResetRun, OptionsAreGiven, [Next]_vars
  PROVE  NoResetRun' /\ OptionsAreGiven'
<1>t. /\ pc \in [Runs -> Working \cup Ended \cup {"ready"}]
      /\ mem \in [Runs -> Memory]
  BY DEF TypeOK
<1>1. CASE \E r \in Runs, c \in Commands, o \in Options : Start(r, c, o)
  <2>1. PICK r \in Runs, c \in Commands, o \in Options : Start(r, c, o)
    BY <1>1
  <2>2. [mem[r] EXCEPT !.cmd = c, !.opt = o].opt = o
    BY <1>t DEF Memory
  <2>3. /\ mem'[r].opt = o /\ \A q \in Runs : q # r => mem'[q] = mem[q]
        /\ pc'[r] = "reset" => c = "reset"
        /\ \A q \in Runs : q # r => pc'[q] = pc[q]
    BY <1>t, <2>1, <2>2 DEF Start, Remember, Goto
  <2> QED  BY <2>3 DEF NoResetRun, OptionsAreGiven
<1>2. CASE \E r \in Runs : Step(r)
  <2>1. PICK r \in Runs : Step(r)
    BY <1>2
  <2>2. \A q \in Runs : q # r => pc'[q] = pc[q] /\ mem'[q] = mem[q]
    BY <2>1, StepIsLocal
  <2>3. /\ pc'[r] # "reset"
        /\ mem'[r].opt = mem[r].opt \/ mem'[r].opt = Blank.opt
    BY <2>1, WhereFrom, OptionsStay
  <2> QED  BY <2>2, <2>3 DEF NoResetRun, OptionsAreGiven
<1>3. CASE \E r \in Runs : Crash(r)
  <2>1. PICK r \in Runs : Crash(r)
    BY <1>3
  <2>2. \A q \in Runs : /\ pc'[q] = IF q = r THEN "crashed" ELSE pc[q]
                        /\ mem'[q] = IF q = r THEN Blank ELSE mem[q]
    BY <1>t, <2>1 DEF Crash, Exit, Goto, Remember
  <2> QED  BY <2>2 DEF NoResetRun, OptionsAreGiven
<1>4. CASE pc' = pc /\ mem' = mem
  BY <1>4 DEF NoResetRun, OptionsAreGiven
<1>5. (\E f \in Files, c \in Contents \cup {NoFile} : Edit(f, c))
        \/ UNCHANGED vars => pc' = pc /\ mem' = mem
  BY DEF Edit, vars, runVars
<1> QED  BY <1>1, <1>2, <1>3, <1>4, <1>5 DEF Next

LEMMA RowsStay ==
  ASSUME RowsAreSafe, TypeOK, FileInHand, Alone, NoDownRun, NoResetRun,
         NEW r \in Runs, Step(r),
         NEW q \in Runs, pc[q] = "upScan" \/ Executing(q),
         NEW f \in Files, Recorded(f)
  PROVE  Recorded(f)'
<1>1. SUFFICES ASSUME DeleteRow(r) \/ Reset(r) PROVE FALSE
  BY RowsGo
<1>2. pc[r] \in {"delete", "reset"} /\ Active(r) /\ Active(q) /\ q # r
  BY <1>1 DEF DeleteRow, Reset, Active, Working, Executing
<1>3. ~Serial
  BY <1>2 DEF Alone
<1> QED  BY <1>2, <1>3 DEF RowsAreSafe, NoDownRun, NoResetRun, DownStates

(* Rows reported as applied are still there.                               *)
ReportedIsRecorded ==
  \A r \in Runs : \A f \in applied[r] : Recorded(f)

(* result.applied grows only when the INSERT succeeded.                    *)
LEMMA ReportedChanges ==
  ASSUME TypeOK, NEW r \in Runs, Step(r)
  PROVE  \/ applied' = applied
         \/ RecordUp(r) /\ applied' = [applied EXCEPT ![r] = @ \cup {cur[r]}]
BY DEF Step, QueryFails, ReadRows, PreflightScan, RepairChecksum, Validate,
   RuntimeGates, UpScan, Finish, UpNext, UpStatement, UpStatementFails,
   RecordUp, RecordFails, DownScan, DownNext, DeleteRow, DownStatement,
   DownStatementFails, RestoreRow, BaselineScan, Mark, Reset, StatusScan,
   StatusFails

(* If nobody issues down or reset, no two runs report the same migration   *)
(* as applied, however they interleave and crash: the primary key of the   *)
(* changelog decides, and rows stay.                                       *)
THEOREM ReportedByOne ==
  ASSUME "down" \notin Commands, "reset" \notin Commands
  PROVE  Spec => []ReportedOnce
<1> DEFINE Inv == NoDownRun /\ NoResetRun /\ OptionsAreGiven
                  /\ ReportedIsRecorded /\ ReportedOnce
<1>1. Init => Inv
  BY DEF Init, NoDownRun, NoResetRun, OptionsAreGiven, ReportedIsRecorded,
     ReportedOnce, DownStates
<1>2. TypeOK /\ FileInHand /\ Inv /\ [Next]_vars => Inv'
  <2> SUFFICES ASSUME TypeOK, FileInHand, Inv, [Next]_vars
               PROVE  ReportedIsRecorded' /\ ReportedOnce'
    BY NextNoDown, NextAsGiven
  <2>1. CASE \E r \in Runs : Step(r)
    <3>1. PICK r \in Runs : Step(r)
      BY <2>1
    <3>2. ASSUME NEW f \in Files, Recorded(f) PROVE Recorded(f)'
      <4>1. SUFFICES ASSUME DeleteRow(r) \/ Reset(r) PROVE FALSE
        BY <3>1, <3>2, RowsGo
      <4> QED
        BY <4>1 DEF DeleteRow, Reset, NoDownRun, NoResetRun, DownStates
    <3>3. applied \in [Runs -> SUBSET Files]
      BY DEF TypeOK
    <3>4. CASE applied' = applied
      BY <3>2, <3>3, <3>4 DEF ReportedIsRecorded, ReportedOnce
    <3>5. CASE /\ RecordUp(r)
               /\ applied' = [applied EXCEPT ![r] = @ \cup {cur[r]}]
      <4>1. cur[r] \in Files /\ ~Recorded(cur[r])
        BY <3>5, RecordUpFacts
      <4>2. \A q \in Runs : cur[r] \notin applied[q]
        BY <4>1 DEF ReportedIsRecorded
      <4>3. changelog'[cur[r]] # NoRow
        BY <3>5, RecordUpFacts DEF Recorded, RecordUp
      <4>4. \A q \in Runs : applied'[q] = IF q = r THEN applied[r] \cup {cur[r]}
                                                   ELSE applied[q]
        BY <3>3, <3>5
      <4>5. ReportedOnce'
        BY <4>2, <4>4 DEF ReportedOnce
      <4>6. ReportedIsRecorded'
        BY <3>2, <3>3, <4>3, <4>4 DEF ReportedIsRecorded, Recorded
      <4> QED  BY <4>5, <4>6
    <3> QED  BY <3>1, <3>4, <3>5, ReportedChanges
  <2>2. CASE ~\E r \in Runs : Step(r)
    <3>1. changelog' = changelog /\ applied' = applied
      BY <2>2 DEF Next, Start, Crash, Edit, vars, dbVars, runVars
    <3> QED  BY <3>1 DEF ReportedIsRecorded, ReportedOnce, Recorded
  <2> QED  BY <2>1, <2>2
<1>3. Inv => ReportedOnce
  OBVIOUS
<1> HIDE DEF Inv
<1> QED  BY <1>1, <1>2, <1>3, TypeCorrect, PTL DEF Spec
(***************************************************************************)
(* The contiguous prefix.  Rows go while a run selects or executes only if *)
(* runs overlap and one of them is a down or a reset.                      *)
(***************************************************************************)
(* A file that is not there was never there, or was removed.               *)
MissingWasMoved == \A f \in Files : disk[f] = NoFile => f \in moved

(* A row that status() saw is still there when up() selects by it.         *)
SeenIsRecorded(r) ==
  pc[r] = "upScan" =>
    \A f \in Files : mem[r].snap[f] # NoRow => Recorded(f)

(* What lies before a file to do is itself to do, or recorded.             *)
NoGapBelow(r) ==
  /\ Executing(r) =>
       \A f \in mem[r].todo, g \in Files \ moved :
         g < f => g \in mem[r].todo \/ Recorded(g)
  /\ pc[r] \in {"upExec", "record"} =>
       cur[r] \in mem[r].todo /\ \A g \in mem[r].todo : cur[r] <= g

(* Above a file to undo every migration that up() recorded is to undo too. *)
NoGapAbove(r) ==
  Undoing(r) =>
    \A f \in mem[r].todo, g \in Files \ moved :
      f < g /\ via[g] = "applied" => g \in mem[r].todo

PrefixInv ==
  /\ MissingWasMoved
  /\ \A r \in Runs : SeenIsRecorded(r) /\ NoGapBelow(r)
  /\ Serial => \A r \in Runs : NoGapAbove(r)
  /\ ContiguousApplied

PrefixFor(r) == SeenIsRecorded(r) /\ NoGapBelow(r)

(* Without --only, a selection leaves out nothing below what it takes.     *)
LEMMA SelectDownward ==
  ASSUME NEW S \in SUBSET Files, NEW o, o.only = NotGiven,
         NEW f \in Select(S, o), NEW g \in S, g < f
  PROVE  g \in Select(S, o)
<1>1. Select(S, o) = UpTo(S, o.target)
  BY DEF Select, JustOne
<1>2. \A h \in Hits(S, o.target) : h \in Files
  BY DEF Hits
<1>3. \A h \in Files : h \in Int
  BY CountAssumption DEF Files
<1>4. f \in Files
  BY SelectIsSubset
<1> QED  BY <1>1, <1>2, <1>3, <1>4 DEF UpTo

LEMMA StepPrefixOwn ==
  ASSUME RowsAreSafe, \A o \in Options : o.only = NotGiven,
         TypeOK, FileInHand, Alone, NoDownRun, NoResetRun, OptionsAreGiven,
         MissingWasMoved, NEW r \in Runs, Step(r), PrefixFor(r)
  PROVE  PrefixFor(r)'
<1>0. /\ disk' = disk /\ moved' = moved /\ mem[r].todo \in SUBSET Files
      /\ disk \in [Files -> Contents \cup {NoFile}] /\ mem[r].snap \in Rows
  BY StepKeepsDir, MemoryFields DEF TypeOK
<1>1. SeenIsRecorded(r)'
  BY StepSnapIsFresh DEF SeenIsRecorded, SnapIsFresh, Recorded
<1>2. NoGapBelow(r)'
  <2> SUFFICES ASSUME Executing(r)' PROVE NoGapBelow(r)'
    BY DEF NoGapBelow, Executing
  <2>0. pc'[r] \in Working
    BY DEF Executing, Working
  <2>1. CASE UpScan(r)
    <3>1. /\ mem'[r].todo = Select(Pending(mem[r].snap), mem[r].opt)
          /\ pc[r] = "upScan" /\ pc'[r] = "upNext"
      BY <2>0, <2>1, UpScanPasses
    <3>2. mem[r].opt.only = NotGiven
      BY DEF OptionsAreGiven, Blank
    <3>3. ASSUME NEW f \in mem'[r].todo, NEW g \in Files \ moved, g < f
          PROVE  g \in mem'[r].todo \/ Recorded(g)'
      <4>1. CASE mem[r].snap[g] = NoRow
        <5>1. /\ g \in Pending(mem[r].snap)
              /\ Pending(mem[r].snap) \in SUBSET Files
          BY <4>1 DEF Pending, Listed, MissingWasMoved
        <5> QED  BY <3>1, <3>2, <3>3, <5>1, SelectDownward
      <4>2. CASE mem[r].snap[g] # NoRow
        <5>1. Recorded(g)
          BY <3>1, <4>2 DEF PrefixFor, SeenIsRecorded
        <5> QED  BY <3>1, <5>1, RowsStay
      <4> QED  BY <4>1, <4>2
    <3> QED  BY <1>0, <3>1, <3>3 DEF NoGapBelow
  <2>2. CASE RecordUp(r)
    <3>1. /\ mem'[r].todo = mem[r].todo \ {cur[r]} /\ cur'[r] = cur[r]
          /\ Recorded(cur[r])' /\ Executing(r) /\ pc'[r] = "upNext"
      BY <2>2, RecordUpFacts DEF Executing, RecordUp
    <3>2. \A g \in Files : Recorded(g) => Recorded(g)'
      BY <3>1, RowsStay
    <3>3. changelog'[cur[r]] # NoRow
      BY <3>1 DEF Recorded
    <3>4. ASSUME NEW f \in mem'[r].todo, NEW g \in Files \ moved, g < f
          PROVE  g \in mem'[r].todo \/ Recorded(g)'
      <4>1. g \in mem[r].todo \/ Recorded(g)
        BY <3>1, <3>4 DEF PrefixFor, NoGapBelow
      <4>2. CASE g = cur[r]
        BY <3>3, <4>2 DEF Recorded
      <4>3. CASE g # cur[r]
        BY <3>1, <3>2, <4>1, <4>3
      <4> QED  BY <4>2, <4>3
    <3> QED  BY <1>0, <3>1, <3>4 DEF NoGapBelow
  <2>3. CASE UpNext(r)
    <3>1. PICK f \in mem[r].todo :
            /\ cur'[r] = f /\ mem'[r].todo = mem[r].todo
            /\ \A g \in mem[r].todo : f <= g
      BY <2>0, <2>3, NextInHand
    <3>2. Executing(r)  BY <2>3 DEF UpNext, Executing
    <3>3. \A g \in Files : Recorded(g) => Recorded(g)'
      BY <3>2, RowsStay
    <3> QED  BY <1>0, <3>1, <3>2, <3>3 DEF PrefixFor, NoGapBelow
  <2>4. CASE UpStatement(r)
    <3>1. mem'[r].todo = mem[r].todo /\ cur' = cur
      BY <2>0, <2>4, StatementKeeps DEF Executing
    <3>2. Executing(r) /\ pc[r] = "upExec"
      BY <2>4 DEF UpStatement, Executing
    <3>3. \A g \in Files : Recorded(g) => Recorded(g)'
      BY <3>2, RowsStay
    <3> QED  BY <1>0, <3>1, <3>2, <3>3 DEF PrefixFor, NoGapBelow
  <2> QED  BY <2>1, <2>2, <2>3, <2>4, WhereFrom DEF Executing
<1> QED  BY <1>1, <1>2 DEF PrefixFor

LEMMA StepPrefixOther ==
  ASSUME RowsAreSafe, TypeOK, FileInHand, Alone, NoDownRun, NoResetRun,
         NEW r \in Runs, Step(r), NEW q \in Runs, q # r, PrefixFor(q)
  PROVE  PrefixFor(q)'
<1>1. /\ pc'[q] = pc[q] /\ cur'[q] = cur[q] /\ mem'[q] = mem[q]
      /\ moved' = moved
  BY StepIsLocal, StepKeepsDir
<1>2. pc[q] = "upScan" \/ Executing(q) =>
        \A g \in Files : Recorded(g) => Recorded(g)'
  BY RowsStay
<1>3. SeenIsRecorded(q)'
  BY <1>1, <1>2 DEF PrefixFor, SeenIsRecorded
<1>4. NoGapBelow(q)'
  BY <1>1, <1>2 DEF PrefixFor, NoGapBelow, Executing
<1> QED  BY <1>3, <1>4 DEF PrefixFor

LEMMA StepNoGapAbove ==
  ASSUME TypeOK, FileInHand, RecordedInv, MissingWasMoved,
         NEW r \in Runs, Step(r),
         SnapIsFresh(r), HandIsNext(r), ToDoIsValidated(r), NoGapAbove(r)
  PROVE  NoGapAbove(r)'
<1> SUFFICES ASSUME Undoing(r)', NEW f \in mem'[r].todo,
                    NEW g \in Files \ moved', f < g, via'[g] = "applied"
             PROVE  g \in mem'[r].todo
  BY DEF NoGapAbove
<1>0. /\ pc'[r] \in {"runtime", "downNext", "delete", "downExec"}
      /\ pc'[r] = "runtime" => mem'[r].cmd = "down"
      /\ pc'[r] \in Working /\ disk' = disk /\ moved' = moved
      /\ mem[r].todo \in SUBSET Files
  BY StepKeepsDir, MemoryFields DEF Undoing, Working
<1>1. CASE DownScan(r)
  <2>1. PICK t \in Applied(mem[r].snap) :
          mem'[r].todo = {h \in Applied(mem[r].snap) : h >= t}
    BY <1>0, <1>1, DownScanPasses
  <2>2. mem[r].snap = changelog /\ ~RecordUp(r)
    BY <1>1 DEF DownScan, SnapIsFresh, RecordUp
  <2>3. via[g] = "applied"
    BY <2>2, AppliedChanges
  <2>4. g \in Applied(changelog)
    BY <1>0, <2>3, AppliedIsRecorded
    DEF Applied, Listed, MissingWasMoved, Recorded, RecordedInv
  <2>5. f >= t /\ f \in Files /\ t \in Files
    BY <2>1 DEF Applied, Listed
  <2>6. \A h \in Files : h \in Int
    BY CountAssumption DEF Files
  <2> QED  BY <2>1, <2>2, <2>4, <2>5, <2>6
<1>2. ~Validate(r)
  <2>1. SUFFICES ASSUME Validate(r) PROVE FALSE
    OBVIOUS
  <2>2. mem'[r].cmd # "down" /\ pc'[r] \in {"upRows", "runtime"}
    BY <1>0, <2>1, ValidatePasses DEF Validate, ToDoIsValidated
  <2> QED  BY <1>0, <2>2
<1>3. CASE ~DownScan(r)
  <2>1. RuntimeGates(r) \/ DownNext(r) \/ DeleteRow(r) \/ DownStatement(r)
    BY <1>0, <1>2, <1>3, WhereFrom
  <2>2. ~RecordUp(r)
    BY <2>1
    DEF RuntimeGates, DownNext, DeleteRow, DownStatement, RecordUp
  <2>p. /\ Undoing(r)
        /\ \/ mem'[r].todo = mem[r].todo
           \/ DownStatement(r) /\ mem'[r].todo = mem[r].todo \ {cur[r]}
    <3>1. CASE RuntimeGates(r)
      <4>1. ~Exit(r, "refused")
        BY <1>0, MemoryFields DEF Exit, Goto, Working
      <4>2. pc[r] = "runtime" /\ mem' = mem
        BY <3>1, <4>1 DEF RuntimeGates
      <4>3. mem[r].cmd = "down"
        BY <1>0, <3>1, <4>1, <4>2, MemoryFields DEF RuntimeGates, Goto
      <4> QED  BY <4>2, <4>3 DEF Undoing
    <3>2. CASE DownNext(r)
      <4>1. pc[r] = "downNext"  BY <3>2 DEF DownNext
      <4>2. mem'[r].todo = mem[r].todo
        BY <1>0, <3>2, NextInHand
      <4> QED  BY <4>1, <4>2 DEF Undoing
    <3>3. CASE DeleteRow(r)
      <4>1. pc[r] = "delete" /\ mem' = mem  BY <3>3 DEF DeleteRow
      <4> QED  BY <4>1 DEF Undoing
    <3>4. CASE DownStatement(r)
      <4>1. pc[r] = "downExec"  BY <3>4 DEF DownStatement
      <4> QED  BY <3>4, <4>1, StatementKeeps DEF Undoing
    <3> QED  BY <2>1, <3>1, <3>2, <3>3, <3>4
  <2>3. via[g] = "applied"
    BY <2>2, AppliedChanges
  <2>4. g \in mem[r].todo
    BY <1>0, <2>p, <2>3 DEF NoGapAbove
  <2>5. DownStatement(r) => g # cur[r]
    BY <2>3 DEF DownStatement, RecordedInv, GoneRow
  <2> QED  BY <2>p, <2>4, <2>5
<1> QED  BY <1>1, <1>3

LEMMA StepContiguous ==
  ASSUME RowsAreSafe, TypeOK, FileInHand, RecordedInv, NoResetRun,
         Serial => SerialInv, Serial => \A r \in Runs : NoGapAbove(r),
         ContiguousApplied, NEW r \in Runs, Step(r), NoGapBelow(r)
  PROVE  ContiguousApplied'
<1> SUFFICES ASSUME NEW f \in Files \ moved', NEW g \in Files \ moved',
                    g < f, via'[f] = "applied", ~Recorded(g)'
             PROVE  FALSE
  BY DEF ContiguousApplied
<1>0. moved' = moved /\ Alone /\ NoDownRun
  BY StepKeepsDir DEF RecordedInv
<1>1. CASE RecordUp(r) /\ cur[r] = f
  <2>1. pc[r] = "record" /\ Executing(r)
    BY <1>1 DEF RecordUp, Executing
  <2>2. f \in mem[r].todo /\ \A h \in mem[r].todo : f <= h
    BY <1>1, <2>1 DEF NoGapBelow
  <2>3. g \notin mem[r].todo
    <3>1. \A h \in Files : h \in Int
      BY CountAssumption DEF Files
    <3> QED  BY <2>2, <3>1
  <2>4. Recorded(g)
    BY <1>0, <2>1, <2>2, <2>3 DEF NoGapBelow
  <2> QED  BY <1>0, <2>1, <2>4, RowsStay
<1>2. CASE ~(RecordUp(r) /\ cur[r] = f)
  <2>1. via[f] = "applied"
    BY <1>2, AppliedChanges
  <2>2. Recorded(g)
    BY <1>0, <2>1 DEF ContiguousApplied
  <2>3. CASE DeleteRow(r) /\ cur[r] = g
    <3>1. pc[r] = "delete" /\ Undoing(r) /\ pc[r] \in DownStates
      BY <2>3 DEF DeleteRow, Undoing, DownStates
    <3>2. Serial
      BY <3>1, <1>0 DEF RowsAreSafe, NoDownRun
    <3>3. g \in mem[r].todo /\ \A h \in mem[r].todo : h <= g
      BY <2>3, <3>1, <3>2 DEF SerialInv, HandIsNext
    <3>4. f \in mem[r].todo
      BY <1>0, <2>1, <3>1, <3>2, <3>3 DEF NoGapAbove
    <3>5. \A h \in Files : h \in Int
      BY CountAssumption DEF Files
    <3> QED  BY <3>3, <3>4, <3>5
  <2>4. CASE Reset(r)
    <3>1. CASE via' = [h \in Files |-> "none"]
      BY <3>1
    <3>2. CASE changelog' = changelog
      BY <2>2, <3>2 DEF Recorded
    <3> QED  BY <2>4, <3>1, <3>2 DEF Reset
  <2> QED  BY <2>2, <2>3, <2>4, RowsGo
<1> QED  BY <1>1, <1>2

PrefixAux == NoResetRun /\ OptionsAreGiven /\ PrefixInv

LEMMA StepPrefix ==
  ASSUME RowsAreSafe, \A o \in Options : o.only = NotGiven,
         TypeOK, FileInHand, RecordedInv, Serial => SerialInv, PrefixAux,
         NEW r \in Runs, Step(r)
  PROVE  PrefixInv'
<1>0. /\ Alone /\ NoDownRun /\ NoResetRun /\ OptionsAreGiven
      /\ MissingWasMoved /\ ContiguousApplied
      /\ \A q \in Runs : PrefixFor(q) /\ NoGapBelow(q)
  BY DEF RecordedInv, PrefixAux, PrefixInv, PrefixFor
<1>1. MissingWasMoved'
  BY <1>0, StepKeepsDir DEF MissingWasMoved
<1>2. \A q \in Runs : PrefixFor(q)'
  BY <1>0, StepPrefixOwn, StepPrefixOther
<1>3. ASSUME Serial PROVE \A q \in Runs : NoGapAbove(q)'
  <2>1. NoGapAbove(r)'
    BY <1>0, <1>3, StepNoGapAbove DEF SerialInv, PrefixAux, PrefixInv
  <2>2. ASSUME NEW q \in Runs, q # r PROVE NoGapAbove(q)'
    <3>1. pc'[q] \notin Working
      BY <1>0, <1>3, <2>2, SerialOthers
    <3> QED  BY <3>1 DEF NoGapAbove, Undoing, Working
  <2> QED  BY <2>1, <2>2
<1>4. ContiguousApplied'
  BY <1>0, StepContiguous DEF PrefixAux, PrefixInv
<1> QED  BY <1>1, <1>2, <1>3, <1>4 DEF PrefixInv, PrefixFor

(* Start, Crash and Edit write no row; an edit that adds or removes a file *)
(* takes it out of the claim.                                              *)
LEMMA EnvironmentPrefix ==
  ASSUME TypeOK, RecordedInv, PrefixInv,
         \/ \E r \in Runs, c \in Commands, o \in Options : Start(r, c, o)
         \/ \E r \in Runs : Crash(r)
         \/ \E f \in Files, c \in Contents \cup {NoFile} : Edit(f, c)
  PROVE  PrefixInv'
<1>t. /\ pc \in [Runs -> Working \cup Ended \cup {"ready"}]
      /\ mem \in [Runs -> Memory]
      /\ disk \in [Files -> Contents \cup {NoFile}]
  BY DEF TypeOK
<1>1. /\ changelog' = changelog /\ via' = via /\ cur' = cur
      /\ moved \subseteq moved'
  BY DEF Start, Crash, Edit, dirVars, dbVars, runVars
<1>2. MissingWasMoved'
  BY <1>t DEF Start, Crash, Edit, dirVars, MissingWasMoved, PrefixInv
<1>3. ASSUME NEW q \in Runs, pc'[q] \in Working, pc'[q] \notin {"rows", "reset"}
      PROVE  pc'[q] = pc[q] /\ mem'[q] = mem[q]
  <2>1. CASE \E r \in Runs, c \in Commands, o \in Options : Start(r, c, o)
    BY <1>t, <1>3, <2>1 DEF Start, Goto, Remember
  <2>2. CASE \E r \in Runs : Crash(r)
    BY <1>t, <1>3, <2>2 DEF Crash, Exit, Goto, Remember, Working
  <2>3. CASE \E f \in Files, c \in Contents \cup {NoFile} : Edit(f, c)
    BY <2>3 DEF Edit, runVars
  <2> QED  BY <2>1, <2>2, <2>3
<1>4. \A q \in Runs : SeenIsRecorded(q)'
  BY <1>1, <1>3 DEF PrefixInv, SeenIsRecorded, Recorded, Working
<1>5. \A q \in Runs : NoGapBelow(q)'
  <2> SUFFICES ASSUME NEW q \in Runs, Executing(q)' PROVE NoGapBelow(q)'
    BY DEF NoGapBelow, Executing
  <2>1. pc'[q] = pc[q] /\ mem'[q] = mem[q]
    BY <1>3 DEF Executing, Working
  <2> QED
    BY <1>1, <2>1 DEF PrefixInv, NoGapBelow, Executing, Recorded
<1>6. Serial => \A q \in Runs : NoGapAbove(q)'
  <2> SUFFICES ASSUME Serial, NEW q \in Runs, Undoing(q)'
               PROVE  NoGapAbove(q)'
    BY DEF NoGapAbove
  <2>1. pc'[q] \in Working /\ pc'[q] \notin {"rows", "reset"}
    BY DEF Undoing, Working
  <2> QED  BY <2>1, EnvironmentIdles DEF RecordedInv
<1>7. ContiguousApplied'
  BY <1>1 DEF PrefixInv, ContiguousApplied, Recorded
<1> QED  BY <1>2, <1>4, <1>5, <1>6, <1>7 DEF PrefixInv

LEMMA NextPrefix ==
  ASSUME RowsAreSafe, \A o \in Options : o.only = NotGiven,
         TypeOK, FileInHand, RecordedInv, Serial => SerialInv, PrefixAux,
         [Next]_vars
  PROVE  PrefixAux'
<1>1. NoResetRun' /\ OptionsAreGiven'
  BY NextAsGiven DEF PrefixAux
<1>2. CASE \E r \in Runs : Step(r)
  BY <1>1, <1>2, StepPrefix DEF PrefixAux
<1>3. CASE UNCHANGED vars
  <2>1. PrefixInv'
    BY <1>3 DEF vars, dirVars, dbVars, runVars, PrefixAux, PrefixInv,
       MissingWasMoved, SeenIsRecorded, NoGapBelow, NoGapAbove, Executing,
       Undoing, Recorded, ContiguousApplied
  <2> QED  BY <1>1, <2>1 DEF PrefixAux
<1>4. CASE ~(\E r \in Runs : Step(r)) /\ ~UNCHANGED vars
  <2>1. PrefixInv'
    BY <1>4, EnvironmentPrefix DEF Next, PrefixAux
  <2> QED  BY <1>1, <2>1 DEF PrefixAux
<1> QED  BY <1>2, <1>3, <1>4

LEMMA InitPrefix == Init => PrefixAux
<1> SUFFICES ASSUME Init PROVE PrefixAux
  OBVIOUS
<1>1. NoResetRun /\ OptionsAreGiven /\ MissingWasMoved
  BY DEF Init, NoResetRun, OptionsAreGiven, MissingWasMoved
<1>2. \A r \in Runs : SeenIsRecorded(r) /\ NoGapBelow(r) /\ NoGapAbove(r)
  BY DEF Init, SeenIsRecorded, NoGapBelow, NoGapAbove, Executing, Undoing
<1>3. ContiguousApplied
  BY DEF Init, ContiguousApplied
<1> QED  BY <1>1, <1>2, <1>3 DEF PrefixAux, PrefixInv

LEMMA SerialIfAlways == Spec => [](Serial => SerialInv)
<1>1. CASE Serial
  BY <1>1, SerialAlways, PTL
<1>2. CASE ~Serial
  <2>1. Serial => SerialInv
    BY <1>2
  <2> QED  BY <2>1, PTL
<1> QED  BY <1>1, <1>2

(* A migration that up() recorded has every earlier one recorded too: if   *)
(* runs do not overlap, or nobody removes rows (down, reset), and nobody   *)
(* picks a single migration with --only.                                   *)
THEOREM PrefixIsContiguous ==
  ASSUME RowsAreSafe, \A o \in Options : o.only = NotGiven
  PROVE  Spec => []ContiguousApplied
<1>1. Serial \/ "down" \notin Commands
  BY DEF RowsAreSafe
<1>2. Spec => []RecordedInv
  BY <1>1, RecordedAlways
<1>3. ASSUME TypeOK, FileInHand, RecordedInv, Serial => SerialInv, PrefixAux,
             [Next]_vars
      PROVE  PrefixAux'
  BY <1>3, NextPrefix
<1>4. PrefixAux => ContiguousApplied
  BY DEF PrefixAux, PrefixInv
<1> QED
  BY <1>2, <1>3, <1>4, InitPrefix, SerialIfAlways, TypeCorrect, PTL DEF Spec
=============================================================================
