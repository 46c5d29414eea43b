-------------------------- MODULE SanityRun_proofs --------------------------
(***************************************************************************)
(* What upWithSanityCheck() promises, for any number of files, contents,   *)
(* edits and statements of a check: the invariants of SanityRun that TLC   *)
(* checks on a small instance.                                             *)
(***************************************************************************)
EXTENDS SanityRun, TLAPS

-----------------------------------------------------------------------------
(* The inductive invariant.                                                *)

Untouched(f) == row[f] = Nothing /\ effects[f] = Nothing /\ f \notin torn

Unexecuted == {"next", "pre", "load", "up"}
Handling == {"pre", "load", "up", "record", "post", "undo", "unrecord"}

(* The loop: files before the one in hand are applied, those after it are  *)
(* untouched, and it has its report exactly when the loop has broken.      *)
Progress ==
  /\ pc \in Handling \cup {"stopped"} => cur \in Files
  /\ \A f \in Files :
       /\ f < cur => report[f] = "applied"
       /\ f > cur => report[f] = "none" /\ Untouched(f)
       /\ f = cur =>
            IF pc = "stopped" THEN report[f] \notin {"none", "applied"}
                              ELSE report[f] = "none"
       /\ f = cur /\ pc \in Unexecuted => Untouched(f)

(* The readings of the file in hand are of one content, unless it is a     *)
(* MongoDB file that was edited; its pre-check, if any, has passed.        *)
Readings ==
  pc \in Handling =>
    /\ pc = "load" => kind = "mongo"
    /\ checks \in Contents /\ body \in Contents
    /\ kind = "maria" \/ cur \notin edited => body = checks
    /\ kind = "mongo" /\ cur \notin edited => disk[cur] = body
    /\ pc # "pre" /\ checks \in HasPre => <<cur, "pre", checks>> \in passed

(* How far the file in hand has come, and what is in place by then.        *)
Stages ==
  /\ pc = "record" => effects[cur] = body /\ <<cur, body>> \in did
  /\ pc = "post" => checks \in HasPost
  /\ pc \in {"post", "undo"} =>
       /\ effects[cur] = body /\ row[cur] = body /\ cur \notin torn
       /\ <<cur, body>> \in did
  /\ pc \in {"undo", "unrecord"} => autoRollback /\ cur \in failedPost
  /\ pc = "record" => cur \notin torn
  /\ pc = "unrecord" /\ (kind = "maria" \/ cur \notin edited) =>
       effects[cur] = Nothing /\ cur \notin torn

IInv ==
  /\ TypeOK /\ Progress /\ Readings /\ Stages
  /\ AppliedWasChecked /\ DownOnlyForCompleted /\ ReportIsTrue

-----------------------------------------------------------------------------
(* The variables have their types.                                         *)

LEMMA HandFacts ==
  ASSUME IInv, pc \in Handling
  PROVE  cur \in Files /\ checks \in Contents /\ body \in Contents
BY DEF IInv, Progress, Readings

LEMMA Ranges ==
  ASSUME TypeOK
  PROVE  /\ cur <= N => cur \in Files
         /\ cur \in Files => cur + 1 \in 1..N + 1
         /\ 1..CheckLen \subseteq 0..CheckLen
         /\ late > 0 => late - 1 \in 0..CheckLen
<1>1. /\ N \in Nat /\ CheckLen \in Nat
      /\ cur \in 1..N + 1 /\ late \in 0..CheckLen
  BY FileAssumption DEF TypeOK
<1> QED  BY <1>1 DEF Files

LEMMA TypeStep == IInv /\ [Next]_vars => TypeOK'
<1> SUFFICES ASSUME IInv, [Next]_vars PROVE TypeOK'
  OBVIOUS
<1>0. TypeOK
  BY DEF IInv
<1>h. pc \in Handling =>
        cur \in Files /\ checks \in Contents /\ body \in Contents
  BY HandFacts
<1>r. /\ cur <= N => cur \in Files
      /\ cur \in Files => cur + 1 \in 1..N + 1
      /\ 1..CheckLen \subseteq 0..CheckLen
      /\ late > 0 => late - 1 \in 0..CheckLen
  BY <1>0, Ranges
<1>d. /\ pc = "up" => did \cup {<<cur, body>>} \subseteq Files \X Contents
      /\ pc = "undo" =>
           undid \cup {<<cur, ToUndo>>} \subseteq Files \X Contents
  BY <1>0, <1>h DEF TypeOK, Handling, ToUndo
<1>p. pc \in Checking =>
        passed \cup {<<cur, pc, checks>>}
          \subseteq Files \X Checking \X Contents
  BY <1>0, <1>h DEF TypeOK, Handling, Checking
<1>c. cur \in Files => disk[cur] \in Contents
  BY <1>0 DEF TypeOK
<1> USE <1>0, <1>h, <1>r, <1>c DEF Handling
<1> USE DEF TypeOK, vars, config, dirVars, dbVars, lateVars, history,
            Stop, Says, Execute, Checking, Ended, Reports
<1>1. CASE AllDone  BY <1>1 DEF AllDone
<1>2. CASE ReadFile  BY <1>2 DEF ReadFile
<1>3. CASE ReadAgain  BY <1>3 DEF ReadAgain
<1>4. CASE CheckTimesOut  BY <1>4 DEF CheckTimesOut, CheckFailed
<1>5. CASE UpCompletes  BY <1>5, <1>d DEF UpCompletes
<1>6. CASE UpFails  BY <1>6 DEF UpFails
<1>7. CASE Record  BY <1>7 DEF Record
<1>8. CASE RecordFails  BY <1>8 DEF RecordFails
<1>9. CASE NothingToUndo  BY <1>9 DEF NothingToUndo
<1>10. CASE DownCompletes  BY <1>10, <1>d DEF DownCompletes
<1>11. CASE DownFails  BY <1>11 DEF DownFails
<1>12. CASE Unrecord  BY <1>12 DEF Unrecord
<1>13. CASE UnrecordFails  BY <1>13 DEF UnrecordFails
<1>14. CASE CheckPasses  BY <1>14, <1>p DEF CheckPasses
<1>15. CASE CheckFails  BY <1>15 DEF CheckFails, CheckFailed
<1>16. CASE CheckReturnsNothing  BY <1>16 DEF CheckReturnsNothing
<1>17. CASE LateAnswer  BY <1>17 DEF LateAnswer
<1>18. CASE LateSend  BY <1>18 DEF LateSend
<1>19. CASE Edit
  <2>1. disk' \in [Files -> Contents] /\ edited' \subseteq Files
    <3>1. PICK f \in Editable \ edited, c \in Contents :
            /\ disk' = [disk EXCEPT ![f] = c]
            /\ edited' = edited \cup {f}
      BY <1>19 DEF Edit
    <3>2. f \in Files
      BY FileAssumption
    <3> QED  BY <3>1, <3>2
  <2> QED  BY <1>19, <2>1 DEF Edit
<1>20. CASE Crash  BY <1>20 DEF Crash
<1>21. CASE UNCHANGED vars  BY <1>21
<1> QED
  BY <1>1, <1>2, <1>3, <1>4, <1>5, <1>6, <1>7, <1>8, <1>9, <1>10, <1>11,
     <1>12, <1>13, <1>14, <1>15, <1>16, <1>17, <1>18, <1>19, <1>20, <1>21
  DEF Next, Proceed, Answer

-----------------------------------------------------------------------------
(* Every step keeps the rest of the inductive invariant.                   *)

(* ReadFile() to UnrecordFails() are steps of the file in hand: those      *)
(* before it keep their report, those after it stay untouched.             *)
LEMMA ProgressStep == IInv /\ [Next]_vars => Progress'
<1> SUFFICES ASSUME IInv, [Next]_vars PROVE Progress'
  OBVIOUS
<1>0. /\ Progress
      /\ cur <= N => cur \in Files
      /\ report \in [Files -> Reports]
      /\ effects \in [Files -> Contents \cup {Nothing}]
      /\ row \in [Files -> Contents \cup {Nothing}]
      /\ \A f \in Files : f \in Nat
      /\ cur \in Nat
  BY Ranges, FileAssumption DEF IInv, TypeOK, Files
<1> USE <1>0 DEF Progress, Untouched, Handling, Unexecuted
<1> USE DEF vars, config, dirVars, dbVars, lateVars, history,
            Stop, Says, Execute, Checking, Ended, CheckFailed
<1>1. CASE AllDone  BY <1>1 DEF AllDone
<1>2. CASE ReadFile  BY <1>2 DEF ReadFile
<1>3. CASE ReadAgain  BY <1>3 DEF ReadAgain
<1>4. CASE CheckTimesOut  BY <1>4 DEF CheckTimesOut, CheckFailed
<1>5. CASE UpCompletes  BY <1>5 DEF UpCompletes
<1>6. CASE UpFails  BY <1>6 DEF UpFails
<1>7. CASE Record  BY <1>7 DEF Record
<1>8. CASE RecordFails  BY <1>8 DEF RecordFails
<1>9. CASE NothingToUndo  BY <1>9 DEF NothingToUndo
<1>10. CASE DownCompletes  BY <1>10 DEF DownCompletes
<1>11. CASE DownFails  BY <1>11 DEF DownFails
<1>12. CASE Unrecord  BY <1>12 DEF Unrecord
<1>13. CASE UnrecordFails  BY <1>13 DEF UnrecordFails
<1>14. CASE CheckPasses  BY <1>14 DEF CheckPasses
<1>15. CASE CheckFails  BY <1>15 DEF CheckFails, CheckFailed
<1>16. CASE CheckReturnsNothing  BY <1>16 DEF CheckReturnsNothing
<1>17. CASE LateAnswer  BY <1>17 DEF LateAnswer
<1>18. CASE LateSend  BY <1>18 DEF LateSend
<1>19. CASE Edit  BY <1>19 DEF Edit
<1>20. CASE Crash  BY <1>20 DEF Crash
<1>21. CASE UNCHANGED vars  BY <1>21
<1> QED
  BY <1>1, <1>2, <1>3, <1>4, <1>5, <1>6, <1>7, <1>8, <1>9, <1>10, <1>11,
     <1>12, <1>13, <1>14, <1>15, <1>16, <1>17, <1>18, <1>19, <1>20, <1>21
  DEF Next, Proceed, Answer

(* Reading the file again (ReadAgain) or an edit of it in between: what is *)
(* executed is of the content checked, but for an edited MongoDB file.     *)
LEMMA ReadingsStep == IInv /\ [Next]_vars => Readings'
<1> SUFFICES ASSUME IInv, [Next]_vars PROVE Readings'
  OBVIOUS
<1>0. /\ Readings
      /\ cur <= N => cur \in Files
      /\ disk \in [Files -> Contents]
  BY Ranges DEF IInv, TypeOK
<1> USE <1>0 DEF Readings, Handling
<1> USE DEF vars, config, dirVars, dbVars, lateVars, history,
            Stop, Says, Execute, Checking, Ended, CheckFailed
<1>1. CASE AllDone  BY <1>1 DEF AllDone
<1>2. CASE ReadFile  BY <1>2 DEF ReadFile
<1>3. CASE ReadAgain  BY <1>3, ContentAssumption DEF ReadAgain
<1>4. CASE CheckTimesOut  BY <1>4 DEF CheckTimesOut, CheckFailed
<1>5. CASE UpCompletes  BY <1>5 DEF UpCompletes
<1>6. CASE UpFails  BY <1>6 DEF UpFails
<1>7. CASE Record  BY <1>7 DEF Record
<1>8. CASE RecordFails  BY <1>8 DEF RecordFails
<1>9. CASE NothingToUndo  BY <1>9 DEF NothingToUndo
<1>10. CASE DownCompletes  BY <1>10 DEF DownCompletes
<1>11. CASE DownFails  BY <1>11 DEF DownFails
<1>12. CASE Unrecord  BY <1>12 DEF Unrecord
<1>13. CASE UnrecordFails  BY <1>13 DEF UnrecordFails
<1>14. CASE CheckPasses  BY <1>14 DEF CheckPasses
<1>15. CASE CheckFails  BY <1>15 DEF CheckFails, CheckFailed
<1>16. CASE CheckReturnsNothing  BY <1>16 DEF CheckReturnsNothing
<1>17. CASE LateAnswer  BY <1>17 DEF LateAnswer
<1>18. CASE LateSend  BY <1>18 DEF LateSend
<1>19. CASE Edit  BY <1>19 DEF Edit
<1>20. CASE Crash  BY <1>20 DEF Crash
<1>21. CASE UNCHANGED vars  BY <1>21
<1> QED
  BY <1>1, <1>2, <1>3, <1>4, <1>5, <1>6, <1>7, <1>8, <1>9, <1>10, <1>11,
     <1>12, <1>13, <1>14, <1>15, <1>16, <1>17, <1>18, <1>19, <1>20, <1>21
  DEF Next, Proceed, Answer

(* Up, its row, the post-check and the rollback follow one another.        *)
LEMMA StagesStep == IInv /\ [Next]_vars => Stages'
<1> SUFFICES ASSUME IInv, [Next]_vars PROVE Stages'
  OBVIOUS
<1>0. /\ Stages /\ Progress
      /\ cur <= N => cur \in Files
      /\ pc \in Handling => cur \in Files
      /\ effects \in [Files -> Contents \cup {Nothing}]
      /\ row \in [Files -> Contents \cup {Nothing}]
  BY Ranges DEF IInv, TypeOK, Progress
<1> USE <1>0 DEF Stages, Handling
<1> USE DEF vars, config, dirVars, dbVars, lateVars, history,
            Stop, Says, Execute, Checking, Ended, CheckFailed
<1>1. CASE AllDone  BY <1>1 DEF AllDone
<1>2. CASE ReadFile  BY <1>2 DEF ReadFile
<1>3. CASE ReadAgain  BY <1>3 DEF ReadAgain
<1>4. CASE CheckTimesOut  BY <1>4 DEF CheckTimesOut, CheckFailed
<1>5. CASE UpCompletes
  <2>1. cur \in Files /\ cur \notin torn
    BY <1>5 DEF UpCompletes, Progress, Untouched, Unexecuted
  <2> QED  BY <1>5, <2>1 DEF UpCompletes
<1>6. CASE UpFails  BY <1>6 DEF UpFails
<1>7. CASE Record  BY <1>7 DEF Record
<1>8. CASE RecordFails  BY <1>8 DEF RecordFails
<1>9. CASE NothingToUndo  BY <1>9 DEF NothingToUndo
<1>10. CASE DownCompletes
  <2>1. kind = "maria" \/ cur \notin edited => ToUndo = body
    BY <1>10 DEF IInv, TypeOK, Readings, DownCompletes, ToUndo
  <2> QED  BY <1>10, <2>1 DEF DownCompletes
<1>11. CASE DownFails  BY <1>11 DEF DownFails
<1>12. CASE Unrecord  BY <1>12 DEF Unrecord
<1>13. CASE UnrecordFails  BY <1>13 DEF UnrecordFails
<1>14. CASE CheckPasses  BY <1>14 DEF CheckPasses
<1>15. CASE CheckFails  BY <1>15 DEF CheckFails, CheckFailed
<1>16. CASE CheckReturnsNothing  BY <1>16 DEF CheckReturnsNothing
<1>17. CASE LateAnswer  BY <1>17 DEF LateAnswer
<1>18. CASE LateSend  BY <1>18 DEF LateSend
<1>19. CASE Edit  BY <1>19 DEF Edit
<1>20. CASE Crash  BY <1>20 DEF Crash
<1>21. CASE UNCHANGED vars  BY <1>21
<1> QED
  BY <1>1, <1>2, <1>3, <1>4, <1>5, <1>6, <1>7, <1>8, <1>9, <1>10, <1>11,
     <1>12, <1>13, <1>14, <1>15, <1>16, <1>17, <1>18, <1>19, <1>20, <1>21
  DEF Next, Proceed, Answer

(* A file becomes "applied" in Record, without a post-check, or in         *)
(* CheckPasses; afterwards nothing of it changes.                          *)
LEMMA AppliedStep == IInv /\ [Next]_vars => AppliedWasChecked'
<1> SUFFICES ASSUME IInv, [Next]_vars PROVE AppliedWasChecked'
  OBVIOUS
<1>0. /\ AppliedWasChecked
      /\ cur <= N => cur \in Files
      /\ pc \in Handling => cur \in Files
      /\ \A f \in Files : f = cur /\ pc \notin Ended => report[f] = "none"
      /\ report \in [Files -> Reports]
      /\ effects \in [Files -> Contents \cup {Nothing}]
      /\ row \in [Files -> Contents \cup {Nothing}]
  BY Ranges DEF IInv, TypeOK, Progress, Ended
<1>n. Nothing \notin Contents
  BY ContentAssumption
<1>h. pc \in {"record", "post"} =>
        /\ effects[cur] = body /\ body # Nothing /\ cur \in Files
        /\ kind = "maria" \/ cur \notin edited => checks = body
        /\ checks \in HasPre => <<cur, "pre", checks>> \in passed
        /\ pc = "post" => row[cur] = body
  BY <1>n DEF IInv, Progress, Readings, Stages, Handling
<1> USE <1>0, <1>n DEF AppliedWasChecked, CheckedBy, Handling
<1> USE DEF vars, config, dirVars, dbVars, lateVars, history,
            Stop, Says, Execute, Checking, Ended, CheckFailed
<1>1. CASE AllDone  BY <1>1 DEF AllDone
<1>2. CASE ReadFile  BY <1>2 DEF ReadFile
<1>3. CASE ReadAgain  BY <1>3 DEF ReadAgain
<1>4. CASE CheckTimesOut  BY <1>4 DEF CheckTimesOut, CheckFailed
<1>5. CASE UpCompletes  BY <1>5 DEF UpCompletes
<1>6. CASE UpFails  BY <1>6 DEF UpFails
<1>7. CASE Record  BY <1>7, <1>h DEF Record
<1>8. CASE RecordFails  BY <1>8 DEF RecordFails
<1>9. CASE NothingToUndo  BY <1>9 DEF NothingToUndo
<1>10. CASE DownCompletes  BY <1>10 DEF DownCompletes
<1>11. CASE DownFails  BY <1>11 DEF DownFails
<1>12. CASE Unrecord  BY <1>12 DEF Unrecord
<1>13. CASE UnrecordFails  BY <1>13 DEF UnrecordFails
<1>14. CASE CheckPasses  BY <1>14, <1>h DEF CheckPasses
<1>15. CASE CheckFails  BY <1>15 DEF CheckFails, CheckFailed
<1>16. CASE CheckReturnsNothing  BY <1>16 DEF CheckReturnsNothing
<1>17. CASE LateAnswer  BY <1>17 DEF LateAnswer
<1>18. CASE LateSend  BY <1>18 DEF LateSend
<1>19. CASE Edit  BY <1>19 DEF Edit
<1>20. CASE Crash  BY <1>20 DEF Crash
<1>21. CASE UNCHANGED vars  BY <1>21
<1> QED
  BY <1>1, <1>2, <1>3, <1>4, <1>5, <1>6, <1>7, <1>8, <1>9, <1>10, <1>11,
     <1>12, <1>13, <1>14, <1>15, <1>16, <1>17, <1>18, <1>19, <1>20, <1>21
  DEF Next, Proceed, Answer

(* Only DownCompletes adds to what was undone.                             *)
LEMMA DownStep == IInv /\ [Next]_vars => DownOnlyForCompleted'
<1> SUFFICES ASSUME IInv, [Next]_vars PROVE DownOnlyForCompleted'
  OBVIOUS
<1>0. DownOnlyForCompleted
  BY DEF IInv
<1> USE <1>0 DEF DownOnlyForCompleted
<1> USE DEF vars, config, dirVars, dbVars, lateVars, history,
            Stop, Says, Execute, Checking, Ended, CheckFailed
<1>1. CASE AllDone  BY <1>1 DEF AllDone
<1>2. CASE ReadFile  BY <1>2 DEF ReadFile
<1>3. CASE ReadAgain  BY <1>3 DEF ReadAgain
<1>4. CASE CheckTimesOut  BY <1>4 DEF CheckTimesOut, CheckFailed
<1>5. CASE UpCompletes  BY <1>5 DEF UpCompletes
<1>6. CASE UpFails  BY <1>6 DEF UpFails
<1>7. CASE Record  BY <1>7 DEF Record
<1>8. CASE RecordFails  BY <1>8 DEF RecordFails
<1>9. CASE NothingToUndo  BY <1>9 DEF NothingToUndo
<1>10. CASE DownCompletes
  <2>1. /\ autoRollback /\ cur \in failedPost /\ <<cur, body>> \in did
        /\ body \in Contents
        /\ kind = "maria" \/ cur \notin edited => ToUndo = body
    BY <1>10 DEF IInv, TypeOK, Readings, Stages, Handling, DownCompletes,
                 ToUndo
  <2> QED  BY <1>10, <2>1 DEF DownCompletes
<1>11. CASE DownFails  BY <1>11 DEF DownFails
<1>12. CASE Unrecord  BY <1>12 DEF Unrecord
<1>13. CASE UnrecordFails  BY <1>13 DEF UnrecordFails
<1>14. CASE CheckPasses  BY <1>14 DEF CheckPasses
<1>15. CASE CheckFails  BY <1>15 DEF CheckFails, CheckFailed
<1>16. CASE CheckReturnsNothing  BY <1>16 DEF CheckReturnsNothing
<1>17. CASE LateAnswer  BY <1>17 DEF LateAnswer
<1>18. CASE LateSend  BY <1>18 DEF LateSend
<1>19. CASE Edit  BY <1>19 DEF Edit
<1>20. CASE Crash  BY <1>20 DEF Crash
<1>21. CASE UNCHANGED vars  BY <1>21
<1> QED
  BY <1>1, <1>2, <1>3, <1>4, <1>5, <1>6, <1>7, <1>8, <1>9, <1>10, <1>11,
     <1>12, <1>13, <1>14, <1>15, <1>16, <1>17, <1>18, <1>19, <1>20, <1>21
  DEF Next, Proceed, Answer

(* The reports of a failure are made in the step that breaks the loop.     *)
LEMMA ReportStep == IInv /\ [Next]_vars => ReportIsTrue'
<1> SUFFICES ASSUME IInv, [Next]_vars PROVE ReportIsTrue'
  OBVIOUS
<1>0. /\ ReportIsTrue
      /\ pc \in Handling => cur \in Files
      /\ cur <= N => cur \in Files
      /\ report \in [Files -> Reports]
      /\ row \in [Files -> Contents \cup {Nothing}]
  BY Ranges DEF IInv, TypeOK, Progress
<1>p. pc # "stopped" => \A f \in Files : report[f] \in {"none", "applied"}
  <2> SUFFICES ASSUME pc # "stopped", NEW f \in Files
               PROVE  report[f] \in {"none", "applied"}
    OBVIOUS
  <2>1. f < cur \/ f = cur \/ f > cur
    BY FileAssumption DEF IInv, TypeOK, Files
  <2> QED  BY <2>1 DEF IInv, Progress
<1>h. /\ pc = "pre" => Untouched(cur)
      /\ pc = "post" => row[cur] = effects[cur] /\ row[cur] # Nothing
      /\ pc = "unrecord" /\ (kind = "maria" \/ cur \notin edited) =>
           effects[cur] = Nothing /\ cur \notin torn
  BY ContentAssumption
  DEF IInv, Progress, Readings, Stages, Handling, Unexecuted
<1> USE <1>0, <1>p, <1>h DEF ReportIsTrue, Untouched, Handling
<1> USE DEF vars, config, dirVars, dbVars, lateVars, history,
            Stop, Says, Execute, Checking, Ended, CheckFailed
<1>1. CASE AllDone  BY <1>1 DEF AllDone
<1>2. CASE ReadFile  BY <1>2 DEF ReadFile
<1>3. CASE ReadAgain  BY <1>3 DEF ReadAgain
<1>4. CASE CheckTimesOut  BY <1>4 DEF CheckTimesOut, CheckFailed
<1>5. CASE UpCompletes  BY <1>5 DEF UpCompletes
<1>6. CASE UpFails  BY <1>6 DEF UpFails
<1>7. CASE Record  BY <1>7 DEF Record
<1>8. CASE RecordFails  BY <1>8 DEF RecordFails
<1>9. CASE NothingToUndo  BY <1>9 DEF NothingToUndo
<1>10. CASE DownCompletes  BY <1>10 DEF DownCompletes
<1>11. CASE DownFails  BY <1>11 DEF DownFails
<1>12. CASE Unrecord  BY <1>12 DEF Unrecord
<1>13. CASE UnrecordFails  BY <1>13 DEF UnrecordFails
<1>14. CASE CheckPasses  BY <1>14 DEF CheckPasses
<1>15. CASE CheckFails  BY <1>15 DEF CheckFails, CheckFailed
<1>16. CASE CheckReturnsNothing  BY <1>16 DEF CheckReturnsNothing
<1>17. CASE LateAnswer  BY <1>17 DEF LateAnswer
<1>18. CASE LateSend  BY <1>18 DEF LateSend
<1>19. CASE Edit  BY <1>19 DEF Edit
<1>20. CASE Crash  BY <1>20 DEF Crash
<1>21. CASE UNCHANGED vars  BY <1>21
<1> QED
  BY <1>1, <1>2, <1>3, <1>4, <1>5, <1>6, <1>7, <1>8, <1>9, <1>10, <1>11,
     <1>12, <1>13, <1>14, <1>15, <1>16, <1>17, <1>18, <1>19, <1>20, <1>21
  DEF Next, Proceed, Answer

-----------------------------------------------------------------------------
(* The theorems.                                                           *)

LEMMA Start == Init => IInv
<1> SUFFICES ASSUME Init PROVE IInv
  OBVIOUS
<1> USE FileAssumption DEF Init
<1>1. TypeOK
  <2>1. 1 \in 1..N + 1 /\ 0 \in 0..CheckLen
    OBVIOUS
  <2> QED  BY <2>1 DEF TypeOK, Reports
<1>2. Progress
  BY DEF Progress, Handling, Untouched, Files
<1>3. Readings /\ Stages
  BY DEF Readings, Stages, Handling
<1>4. AppliedWasChecked /\ DownOnlyForCompleted /\ ReportIsTrue
  BY DEF AppliedWasChecked, DownOnlyForCompleted, ReportIsTrue
<1> QED  BY <1>1, <1>2, <1>3, <1>4 DEF IInv

LEMMA Step == IInv /\ [Next]_vars => IInv'
BY TypeStep, ProgressStep, ReadingsStep, StagesStep, AppliedStep, DownStep,
   ReportStep
DEF IInv

LEMMA Inductive == Spec => []IInv
BY Start, Step, PTL DEF Spec

(* The variables of a batch have their types.                              *)
THEOREM TypeCorrect == Spec => []TypeOK
<1>1. IInv => TypeOK
  BY DEF IInv
<1> QED  BY <1>1, Inductive, PTL

(* upWithSanityCheck(): a file reported as applied is recorded with the    *)
(* content in effect, and this passed its own checks.                      *)
THEOREM AppliedFilesWereChecked == Spec => []AppliedWasChecked
<1>1. IInv => AppliedWasChecked
  BY DEF IInv
<1> QED  BY <1>1, Inductive, PTL

(* upWithSanityCheck(): after a file that was not applied, later files are *)
(* neither executed nor recorded.                                          *)
THEOREM FailureStopsBatch == Spec => []StopsAtFailure
<1>1. IInv => StopsAtFailure
  <2> SUFFICES ASSUME IInv, NEW f \in Files, NEW g \in Files, f < g,
                      report[f] \notin {"none", "applied"}
               PROVE  report[g] = "none" /\ Untouched(g)
    BY DEF StopsAtFailure, Untouched
  <2>1. f \in Nat /\ g \in Nat /\ cur \in Nat
    BY FileAssumption DEF IInv, TypeOK, Files
  <2>2. ~(f < cur) /\ ~(f > cur)
    BY DEF IInv, Progress
  <2>3. g > cur
    BY <2>1, <2>2
  <2> QED  BY <2>3 DEF IInv, Progress
<1> QED  BY <1>1, Inductive, PTL

(* The "down" closure of upWithSanityCheck(): Down is executed only for a  *)
(* file whose Up completed and whose post-check failed, and it is the one  *)
(* that belongs to that Up.                                                *)
THEOREM DownFollowsUp == Spec => []DownOnlyForCompleted
<1>1. IInv => DownOnlyForCompleted
  BY DEF IInv
<1> QED  BY <1>1, Inductive, PTL

(* The summary of a batch: refused files are untouched, rolled back ones   *)
(* are undone, those left in place are in effect and recorded.             *)
THEOREM ReportsAreTrue == Spec => []ReportIsTrue
<1>1. IInv => ReportIsTrue
  BY DEF IInv
<1> QED  BY <1>1, Inductive, PTL
=============================================================================
