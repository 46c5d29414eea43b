-------------------------- MODULE LockGuard_proofs --------------------------
(***************************************************************************)
(* What executeWithLockGuard() keeps, for any number of statements,        *)
(* sections, attempts and limits: that it implements StatementOrder, and   *)
(* the invariants of LockGuard that TLC checks on a small instance.        *)
(***************************************************************************)
EXTENDS LockGuard, TLAPS

-----------------------------------------------------------------------------
(* The inductive invariant.                                                *)

(* What took effect is what the loop has passed, in order, and the loop    *)
(* stands inside its section, at the end of it once all of it ran.         *)
Position ==
  /\ took = [i \in 1..next - 1 |-> i]
  /\ Start(section) <= next /\ next <= Last[section] + 1
  /\ pc = "begin" => next = Start(section)
  /\ pc = "restore" /\ ~error => next = Last[section] + 1
  /\ outcome = "done" => next = Total + 1

(* An exception passes through the finally block only, and to the end.     *)
Control ==
  /\ pc = "end" <=> outcome # "running"
  /\ error => pc \in {"restore", "end"}
  /\ pc = "restore" => limit[section] # NoLimit
  /\ stopped # {} => error \/ pc = "end"

(* While no exception is on its way, the attempts of the statement to be   *)
(* sent are counted right and those after it were never sent.              *)
Counting ==
  /\ attempt > 1 =>
       pc = "end" \/ (pc \in {"query", "sleep"} /\ next <= Last[section])
  /\ pc \in {"query", "sleep"} => enabled /\ split[section]
  /\ ~error /\ outcome = "running" =>
       \A i \in 1..Total :
         i >= next => sent[i] = IF i = next THEN attempt - 1 ELSE 0

(* The limit that will be put back is the session's own.                   *)
Limiting ==
  /\ pc = "begin" => session = NoLimit \/ leaked
  /\ pc = "limit" => session = previous /\ limit[section] # NoLimit
  /\ pc = "guard" =>
       session = limit[section] \/ (leaked /\ limit[section] = NoLimit)
  /\ pc \notin {"begin", "end"} /\ limit[section] # NoLimit =>
       previous = NoLimit \/ leaked

IInv ==
  /\ TypeOK /\ Position /\ Control /\ Counting /\ Limiting
  /\ AttemptsBounded /\ OwnLimit /\ LimitPutBack

-----------------------------------------------------------------------------
(* Facts about sections, attempts and counting.                            *)

LEMMA SectionFacts ==
  ASSUME NEW s \in 1..Sections
  PROVE  /\ Last[s] \in 0..Total
         /\ Start(s) \in 1..Total + 1
         /\ Start(s) <= Last[s] + 1
         /\ s + 1 \in 1..Sections => Start(s + 1) = Last[s] + 1
         /\ s = Sections => Last[s] = Total
BY SectionAssumption DEF Start

(* A statement belongs to one section.                                     *)
LEMMA OneSection ==
  ASSUME NEW s \in 1..Sections, NEW t \in 1..Sections,
         NEW i \in Start(s)..Last[s], i \in Start(t)..Last[t]
  PROVE  s = t
<1>1. ASSUME NEW a \in 1..Sections, NEW b \in 1..Sections, a < b
      PROVE  Last[a] < Start(b)
  <2>1. b - 1 \in 1..Sections /\ a <= b - 1 /\ b # 1
    BY <1>1, SectionAssumption
  <2>2. Last[a] <= Last[b - 1] /\ Last[a] \in Nat /\ Last[b - 1] \in Nat
    BY <2>1, SectionAssumption
  <2> QED  BY <2>1, <2>2 DEF Start
<1>2. ~(s < t) /\ ~(t < s)
  BY <1>1, SectionFacts
<1> QED  BY <1>2, SectionAssumption

LEMMA OneStepOn ==
  ASSUME NEW s \in 1..Sections, NEW n \in Nat, NEW m \in Nat,
         Start(s) <= n, n <= Last[s], n <= m, m <= n + 1
  PROVE  Start(s) <= m /\ m <= Last[s] + 1
<1>1. Start(s) \in Nat /\ Last[s] \in Nat
  BY SectionFacts, SectionAssumption
<1> QED  BY <1>1

LEMMA AttemptFacts ==
  /\ AttemptsAtMost \in Nat /\ 1 <= AttemptsAtMost
  /\ MaxRetries > 1 => AttemptsAtMost = MaxRetries
BY RetryAssumption DEF AttemptsAtMost

(* The sequence 1, 2, ..., n.                                              *)
LEMMA CountingUp ==
  ASSUME NEW n \in Nat
  PROVE  /\ [i \in 1..n |-> i] \in Seq(Nat)
         /\ Len([i \in 1..n |-> i]) = n
         /\ Append([i \in 1..n |-> i], n + 1) = [i \in 1..n + 1 |-> i]
OBVIOUS

(* Where a statement is sent, it is one of the section's, it was sent once *)
(* for each attempt made at it, and nothing failed before.                 *)
LEMMA SendingFacts ==
  ASSUME IInv, Sending
  PROVE  /\ next \in 1..Total /\ next \in Start(section)..Last[section]
         /\ section \in 1..Sections
         /\ error = FALSE /\ outcome = "running" /\ stopped = {}
         /\ sent[next] = attempt - 1
         /\ \A i \in 1..Total : i > next => sent[i] = 0
         /\ attempt \in Nat /\ 1 <= attempt
         /\ attempt <= Attempts(section)
         /\ Len(took) = next - 1
         /\ Append(took, next) = [i \in 1..next |-> i]
<1> USE DEF IInv, Sending
<1>1. /\ section \in 1..Sections /\ next \in 1..Total + 1
      /\ attempt \in 1..AttemptsAtMost
      /\ next <= Last[section] /\ Start(section) <= next
      /\ took = [i \in 1..next - 1 |-> i]
  BY DEF TypeOK, Position
<1>2. next \in 1..Total /\ next \in Start(section)..Last[section]
  BY <1>1, SectionFacts, SectionAssumption
<1>3. error = FALSE /\ outcome = "running" /\ stopped = {}
  BY DEF TypeOK, Control
<1>4. /\ sent[next] = attempt - 1
      /\ \A i \in 1..Total : i > next => sent[i] = 0
  BY <1>2, <1>3, SectionAssumption DEF Counting
<1>5. attempt <= Attempts(section)
  BY <1>1, AttemptFacts DEF Counting, Attempts
<1>6. Len(took) = next - 1 /\ Append(took, next) = [i \in 1..next |-> i]
  <2>1. next - 1 \in Nat /\ (next - 1) + 1 = next
    BY <1>1, SectionAssumption
  <2> QED  BY <1>1, <2>1, CountingUp
<1> QED  BY <1>1, <1>2, <1>3, <1>4, <1>5, <1>6, AttemptFacts

(* After a statement was sent once more, every statement is still within   *)
(* its attempts.                                                           *)
LEMMA SentOnceMore ==
  ASSUME IInv, Sending, sent' = [sent EXCEPT ![next] = @ + 1],
         UNCHANGED config
  PROVE  /\ AttemptsBounded'
         /\ sent' \in [1..Total -> Nat]
         /\ sent'[next] = attempt
         /\ \A i \in 1..Total : i > next => sent'[i] = 0
<1>1. sent \in [1..Total -> Nat]
  BY DEF IInv, TypeOK
<1>2. /\ sent' \in [1..Total -> Nat]
      /\ sent'[next] = attempt
      /\ \A i \in 1..Total : i # next => sent'[i] = sent[i]
  BY <1>1, SendingFacts
<1>3. ASSUME NEW s \in 1..Sections, NEW i \in Start(s)..Last[s]
      PROVE  sent'[i] <= Attempts(s)
  <2>1. i \in 1..Total
    BY SectionFacts, SectionAssumption
  <2>2. CASE i = next
    BY <1>2, <2>2, SendingFacts, OneSection
  <2>3. CASE i # next
    BY <1>2, <2>1, <2>3 DEF IInv, AttemptsBounded
  <2> QED  BY <2>2, <2>3
<1>4. ASSUME NEW s \in 1..Sections PROVE Attempts(s)' = Attempts(s)
  BY DEF Attempts, config
<1>5. AttemptsBounded'
  BY <1>3, <1>4 DEF AttemptsBounded
<1> QED  BY <1>2, <1>5, SendingFacts, SectionAssumption

LEMMA AtSectionEnd ==
  ASSUME IInv, next > Last[section]
  PROVE  /\ section \in 1..Sections /\ next \in 1..Total + 1
         /\ Start(section) <= next /\ next = Last[section] + 1
<1>1. /\ section \in 1..Sections /\ next \in 1..Total + 1
      /\ Start(section) <= next /\ next <= Last[section] + 1
  BY DEF IInv, TypeOK, Position
<1>2. Last[section] \in Nat /\ next \in Nat
  BY <1>1, SectionFacts, SectionAssumption
<1> QED  BY <1>1, <1>2

(* The caller goes on from a section of which everything ran.              *)
LEMMA GoOnFacts ==
  ASSUME IInv, GoOn, next > Last[section]
  PROVE  /\ section' \in 1..Sections
         /\ Start(section') <= next /\ next <= Last[section'] + 1
         /\ pc' \in {"begin", "end"}
         /\ pc' = "begin" => next = Start(section') /\ outcome' = outcome
         /\ pc' = "end" => outcome' = "done" /\ next = Total + 1
<1>1. /\ section \in 1..Sections /\ next \in 1..Total + 1
      /\ Start(section) <= next /\ next = Last[section] + 1
  BY AtSectionEnd
<1>2. CASE section = Sections
  BY <1>1, <1>2, SectionFacts, SectionAssumption DEF GoOn
<1>3. CASE section # Sections
  <2>1. section' = section + 1 /\ section' \in 1..Sections
    BY <1>1, <1>3, SectionAssumption DEF GoOn
  <2>2. Start(section') = Last[section] + 1
    BY <1>1, <2>1, SectionFacts
  <2>3. Start(section') <= Last[section'] + 1
    BY <2>1, SectionFacts
  <2> QED  BY <1>1, <1>3, <2>1, <2>2, <2>3 DEF GoOn
<1> QED  BY <1>2, <1>3

-----------------------------------------------------------------------------
(* The invariant holds at first, and every step keeps it.                  *)

LEMMA InitIInv == Init => IInv
<1> SUFFICES ASSUME Init PROVE IInv
  OBVIOUS
<1>1. 1 \in 1..Sections
  BY SectionAssumption
<1>2. Start(1) = 1
  BY DEF Start
<1>3. Position
  BY <1>1, <1>2, SectionFacts DEF Init, Position
<1>4. /\ took \in Seq(Nat) /\ attempt \in 1..AttemptsAtMost
      /\ next \in 1..Total + 1
  BY AttemptFacts, SectionAssumption DEF Init
<1>5. TypeOK
  BY <1>1, <1>4 DEF Init, TypeOK, Places
<1>6. Control /\ Counting /\ Limiting /\ OwnLimit /\ LimitPutBack
  BY SectionAssumption
  DEF Init, Control, Counting, Limiting, OwnLimit, LimitPutBack
<1>7. AttemptsBounded
  <2>1. \A i \in 1..Total : sent[i] = 0
    BY DEF Init
  <2>2. \A s \in 1..Sections : Start(s)..Last[s] \subseteq 1..Total
    BY SectionFacts, SectionAssumption
  <2>3. \A s \in 1..Sections : Attempts(s) \in Nat
    BY AttemptFacts DEF Attempts
  <2> QED  BY <2>1, <2>2, <2>3 DEF AttemptsBounded
<1> QED  BY <1>3, <1>5, <1>6, <1>7 DEF IInv

LEMMA ReadLimitKeeps == IInv /\ ReadLimit => IInv'
<1> SUFFICES ASSUME IInv, ReadLimit PROVE IInv'
  OBVIOUS
<1> USE DEF ReadLimit, Fails, config, server, limits
<1>1. TypeOK'
  BY LimitAssumption DEF IInv, TypeOK, Places
<1>2. Position'
  BY DEF IInv, TypeOK, Position, Control
<1>3. Control'
  BY DEF IInv, TypeOK, Control, Limiting
<1>4. Counting'
  BY DEF IInv, TypeOK, Counting, Control
<1>5. Limiting' /\ OwnLimit' /\ LimitPutBack'
  BY DEF IInv, TypeOK, Limiting, Control, OwnLimit, LimitPutBack
<1>6. AttemptsBounded'
  BY DEF IInv, AttemptsBounded, Attempts
<1> QED  BY <1>1, <1>2, <1>3, <1>4, <1>5, <1>6 DEF IInv

LEMMA SetLimitKeeps == IInv /\ SetLimit => IInv'
<1> SUFFICES ASSUME IInv, SetLimit PROVE IInv'
  OBVIOUS
<1> USE DEF SetLimit, Fails, config, server, limits
<1>1. TypeOK'
  BY LimitAssumption DEF IInv, TypeOK, Places
<1>2. Position'
  BY DEF IInv, TypeOK, Position, Control
<1>3. Control'
  BY DEF IInv, TypeOK, Control, Limiting
<1>4. Counting'
  BY DEF IInv, TypeOK, Counting, Control
<1>5. Limiting' /\ OwnLimit' /\ LimitPutBack'
  BY DEF IInv, TypeOK, Limiting, Control, OwnLimit, LimitPutBack
<1>6. AttemptsBounded'
  BY DEF IInv, AttemptsBounded, Attempts
<1> QED  BY <1>1, <1>2, <1>3, <1>4, <1>5, <1>6 DEF IInv

LEMMA SkipSectionKeeps == IInv /\ SkipSection => IInv'
<1> SUFFICES ASSUME IInv, SkipSection PROVE IInv'
  OBVIOUS
<1> USE DEF SkipSection, config, server, limits
<1>1. section \in 1..Sections /\ next > Last[section] /\ GoOn
  BY DEF IInv, TypeOK
<1>2. TypeOK'
  BY <1>1, GoOnFacts DEF GoOn, IInv, TypeOK, Places
<1>3. Position'
  BY <1>1, GoOnFacts DEF IInv, TypeOK, Position, Control
<1>4. Control'
  BY <1>1, GoOnFacts DEF GoOn, IInv, TypeOK, Control
<1>5. Counting'
  BY <1>1, GoOnFacts DEF IInv, TypeOK, Counting, Control
<1>6. Limiting' /\ OwnLimit' /\ LimitPutBack'
  BY <1>1, GoOnFacts
  DEF IInv, TypeOK, Limiting, Control, OwnLimit, LimitPutBack
<1>7. AttemptsBounded'
  BY DEF IInv, AttemptsBounded, Attempts
<1> QED  BY <1>1, <1>2, <1>3, <1>4, <1>5, <1>6, <1>7 DEF IInv

LEMMA EnterGuardKeeps == IInv /\ EnterGuard => IInv'
<1> SUFFICES ASSUME IInv, EnterGuard PROVE IInv'
  OBVIOUS
<1> USE DEF EnterGuard, Throw, Fails, config, server, limits
<1>1. TypeOK'
  BY LimitAssumption DEF IInv, TypeOK, Places
<1>2. Position'
  BY DEF IInv, TypeOK, Position, Control
<1>3. Control'
  BY DEF IInv, TypeOK, Control, Limiting
<1>4. Counting'
  BY DEF IInv, TypeOK, Counting, Control
<1>5. Limiting' /\ OwnLimit' /\ LimitPutBack'
  BY DEF IInv, TypeOK, Limiting, Control, OwnLimit, LimitPutBack
<1>6. AttemptsBounded'
  BY DEF IInv, AttemptsBounded, Attempts
<1> QED  BY <1>1, <1>2, <1>3, <1>4, <1>5, <1>6 DEF IInv

LEMMA StatementRunsKeeps == IInv /\ StatementRuns => IInv'
<1> SUFFICES ASSUME IInv, StatementRuns PROVE IInv'
  OBVIOUS
<1> USE DEF StatementRuns, config, server, limits
<1>1. /\ Sending
      /\ took' = [i \in 1..next |-> i]
      /\ next' = next + 1 /\ next' - 1 = next /\ next' \in 1..Total + 1
      /\ next \in Nat
  BY SendingFacts, SectionAssumption
<1>2. sent' \in [1..Total -> Nat] /\ AttemptsBounded'
      /\ \A i \in 1..Total : i > next => sent'[i] = 0
  BY <1>1, SentOnceMore
<1>3. took' \in Seq(Nat)
  BY <1>1, CountingUp
<1>4. attempt' \in 1..AttemptsAtMost
  BY AttemptFacts
<1>5. TypeOK'
  BY <1>1, <1>2, <1>3, <1>4 DEF IInv, TypeOK
<1>6. Start(section) <= next' /\ next' <= Last[section] + 1
  BY <1>1, SendingFacts, SectionFacts
<1>7. Position'
  BY <1>1, <1>6, SendingFacts DEF Sending, Position
<1>8. Control'
  BY DEF IInv, Control
<1>9. Counting'
  BY <1>1, <1>2, SendingFacts, SectionAssumption DEF IInv, Sending, Counting
<1>10. Limiting' /\ OwnLimit' /\ LimitPutBack'
  BY DEF IInv, Limiting, OwnLimit, LimitPutBack
<1> QED  BY <1>2, <1>5, <1>7, <1>8, <1>9, <1>10 DEF IInv

(* SectionEnds goes on at once, or to the finally block.                   *)
LEMMA SectionEndsKeeps == IInv /\ SectionEnds => IInv'
<1> SUFFICES ASSUME IInv, SectionEnds PROVE IInv'
  OBVIOUS
<1> USE DEF SectionEnds, config, server, limits
<1>0. attempt = 1
  <2>1. ~(next <= Last[section])
    BY AtSectionEnd, SectionFacts, SectionAssumption
  <2>2. attempt \in Nat /\ 1 <= attempt
    BY AttemptFacts DEF IInv, TypeOK
  <2> QED  BY <2>1, <2>2 DEF IInv, Counting
<1>1. CASE limit[section] # NoLimit
  <2> USE <1>1 DEF Return
  <2>1. next = Last[section] + 1
    BY AtSectionEnd
  <2>2. TypeOK'
    BY DEF IInv, TypeOK, Places
  <2>3. Position'
    BY <2>1 DEF IInv, TypeOK, Position, Control
  <2>4. Control'
    BY DEF IInv, TypeOK, Control
  <2>5. Counting'
    BY <1>0 DEF IInv, TypeOK, Counting, Control
  <2>6. Limiting' /\ OwnLimit' /\ LimitPutBack'
    BY DEF IInv, TypeOK, Limiting, OwnLimit, LimitPutBack
  <2>7. AttemptsBounded'
    BY DEF IInv, AttemptsBounded, Attempts
  <2> QED  BY <2>2, <2>3, <2>4, <2>5, <2>6, <2>7 DEF IInv
<1>2. CASE limit[section] = NoLimit
  <2>1. GoOn /\ next > Last[section]
    BY <1>2 DEF Return
  <2>2. TypeOK'
    BY <2>1, GoOnFacts DEF GoOn, IInv, TypeOK, Places
  <2>3. Position'
    BY <2>1, GoOnFacts DEF IInv, TypeOK, Position, Control
  <2>4. Control'
    BY <2>1, GoOnFacts DEF IInv, TypeOK, Control
  <2>5. Counting'
    BY <1>0, <2>1, GoOnFacts DEF IInv, TypeOK, Counting, Control
  <2>6. Limiting' /\ OwnLimit' /\ LimitPutBack'
    BY <1>2, <2>1, GoOnFacts DEF IInv, TypeOK, Limiting, OwnLimit, LimitPutBack
  <2>7. AttemptsBounded'
    BY DEF IInv, AttemptsBounded, Attempts
  <2> QED  BY <2>2, <2>3, <2>4, <2>5, <2>6, <2>7 DEF IInv
<1> QED  BY <1>1, <1>2

LEMMA StatementFailsKeeps == IInv /\ StatementFails => IInv'
<1> SUFFICES ASSUME IInv, StatementFails PROVE IInv'
  OBVIOUS
<1> USE DEF StatementFails, config, server, limits
<1>1. Sending /\ next \in Nat /\ next \in 1..Total
  BY SendingFacts, SectionAssumption
<1>2. /\ next' \in 1..Total + 1 /\ next' - 1 \in Nat
      /\ next <= next' /\ next' <= next + 1
      /\ took' = [i \in 1..next' - 1 |-> i]
  <2>1. CASE UNCHANGED took
    <3>1. next' = next
      BY <1>1, <2>1, SendingFacts
    <3> QED  BY <1>1, <2>1, <3>1, SectionAssumption DEF IInv, Position
  <2>2. CASE took' = Append(took, next)
    <3>1. took' = [i \in 1..next |-> i]
      BY <1>1, <2>2, SendingFacts
    <3>2. Len(took') = next
      BY <1>1, <3>1, CountingUp
    <3>3. next' = next + 1
      BY <1>1, <3>2, SendingFacts
    <3>4. next' - 1 = next
      BY <1>1, <3>3
    <3> QED  BY <1>1, <3>1, <3>3, <3>4, SectionAssumption
  <2> QED  BY <2>1, <2>2
<1>3. took' \in Seq(Nat)
  BY <1>2, CountingUp
<1>4. sent' \in [1..Total -> Nat] /\ AttemptsBounded'
  BY <1>1, SentOnceMore
<1>5. attempt' \in 1..AttemptsAtMost
  BY AttemptFacts
<1>6. /\ pc' \in {"restore", "end"} /\ error' \in BOOLEAN
      /\ pc' = "restore" => error' /\ outcome' = "running"
      /\ pc' = "end" => outcome' = "failed"
      /\ pc' = "restore" <=> limit[section] # NoLimit
  BY <1>1, SendingFacts DEF Throw, Fails
<1>7. TypeOK'
  BY <1>1, <1>2, <1>3, <1>4, <1>5, <1>6 DEF IInv, TypeOK, Places, Throw, Fails
<1>8. Start(section) <= next' /\ next' <= Last[section] + 1
  <2>1. section \in 1..Sections
    BY <1>1, SendingFacts
  <2> HIDE DEF StatementFails
  <2>2. next' \in Nat
    BY <1>2, SectionAssumption
  <2>3. Start(section) <= next /\ next <= Last[section]
    BY <1>1 DEF IInv, Position, Sending
  <2> QED  BY <1>1, <1>2, <2>1, <2>2, <2>3, OneStepOn
<1>9. Position'
  BY <1>1, <1>2, <1>6, <1>8, SendingFacts DEF Position
<1>10. Control'
  BY <1>1, <1>6, SendingFacts DEF Control, Throw, Fails
<1>11. Counting'
  BY <1>6 DEF Counting
<1>12. Limiting' /\ OwnLimit' /\ LimitPutBack'
  <2>1. limit[section] # NoLimit => previous = NoLimit \/ leaked
    BY <1>1 DEF IInv, Limiting, Sending
  <2>2. limit[section] = NoLimit => session = NoLimit \/ leaked
    BY <1>1 DEF IInv, OwnLimit, Sending
  <2> QED  BY <1>6, <2>1, <2>2 DEF Limiting, OwnLimit, LimitPutBack
<1> QED  BY <1>4, <1>7, <1>9, <1>10, <1>11, <1>12 DEF IInv

LEMMA LockWaitTimesOutKeeps == IInv /\ LockWaitTimesOut => IInv'
<1> SUFFICES ASSUME IInv, LockWaitTimesOut PROVE IInv'
  OBVIOUS
<1> USE DEF LockWaitTimesOut, config, server, limits
<1>1. Sending
  OBVIOUS
<1>2. /\ sent' \in [1..Total -> Nat] /\ AttemptsBounded'
      /\ sent'[next] = attempt
      /\ \A i \in 1..Total : i > next => sent'[i] = 0
  BY <1>1, SentOnceMore
<1>3. CASE pc' = "sleep"
  <2>1. /\ pc = "query" /\ attempt < MaxRetries /\ attempt' = attempt + 1
        /\ UNCHANGED <<error, outcome>>
    BY <1>3 DEF Throw, Fails
  <2>2. attempt \in Nat /\ 1 <= attempt /\ attempt' \in 1..AttemptsAtMost
    BY <1>1, <2>1, SendingFacts, AttemptFacts, RetryAssumption
  <2>3. TypeOK'
    BY <1>2, <1>3, <2>1, <2>2 DEF IInv, TypeOK, Places
  <2>4. Position'
    BY <1>3, <2>1 DEF IInv, Position
  <2>5. Control'
    BY <1>3, <2>1 DEF IInv, Control
  <2>6. Counting'
    BY <1>1, <1>2, <1>3, <2>1, <2>2, SendingFacts, SectionAssumption
    DEF IInv, Counting, Sending
  <2>7. Limiting' /\ OwnLimit' /\ LimitPutBack'
    BY <1>3, <2>1 DEF IInv, Limiting, OwnLimit, LimitPutBack
  <2> QED  BY <1>2, <2>3, <2>4, <2>5, <2>6, <2>7 DEF IInv
<1>4. CASE pc' # "sleep"
  <2>1. Throw /\ attempt' = 1
    BY <1>4
  <2>2. attempt' \in 1..AttemptsAtMost
    BY <2>1, AttemptFacts
  <2>3. /\ pc' \in {"restore", "end"} /\ error' \in BOOLEAN
        /\ pc' = "restore" => error' /\ outcome' = "running"
        /\ pc' = "end" => outcome' = "failed"
        /\ pc' = "restore" <=> limit[section] # NoLimit
    BY <1>1, <2>1, SendingFacts DEF Throw, Fails
  <2>4. TypeOK'
    BY <1>2, <2>2, <2>3 DEF IInv, TypeOK, Places
  <2>5. Position'
    BY <2>3 DEF IInv, Position
  <2>6. Control'
    BY <1>1, <2>3, SendingFacts DEF Control
  <2>7. Counting'
    BY <2>1, <2>3 DEF Counting
  <2>8. Limiting' /\ OwnLimit' /\ LimitPutBack'
    <3>1. limit[section] # NoLimit => previous = NoLimit \/ leaked
      BY <1>1 DEF IInv, Limiting, Sending
    <3>2. limit[section] = NoLimit => session = NoLimit \/ leaked
      BY <1>1 DEF IInv, OwnLimit, Sending
    <3> QED  BY <2>3, <3>1, <3>2 DEF Limiting, OwnLimit, LimitPutBack
  <2> QED  BY <1>2, <2>4, <2>5, <2>6, <2>7, <2>8 DEF IInv
<1> QED  BY <1>3, <1>4

LEMMA SendAgainKeeps == IInv /\ SendAgain => IInv'
<1> SUFFICES ASSUME IInv, SendAgain PROVE IInv'
  OBVIOUS
<1> USE DEF SendAgain, config, server, limits
<1>1. TypeOK'
  BY LimitAssumption DEF IInv, TypeOK, Places
<1>2. Position'
  BY DEF IInv, TypeOK, Position, Control
<1>3. Control'
  BY DEF IInv, TypeOK, Control, Limiting
<1>4. Counting'
  BY DEF IInv, TypeOK, Counting, Control
<1>5. Limiting' /\ OwnLimit' /\ LimitPutBack'
  BY DEF IInv, TypeOK, Limiting, Control, OwnLimit, LimitPutBack
<1>6. AttemptsBounded'
  BY DEF IInv, AttemptsBounded, Attempts
<1> QED  BY <1>1, <1>2, <1>3, <1>4, <1>5, <1>6 DEF IInv

LEMMA RestoreLimitKeeps == IInv /\ RestoreLimit => IInv'
<1> SUFFICES ASSUME IInv, RestoreLimit PROVE IInv'
  OBVIOUS
<1> USE DEF RestoreLimit, config, server, limits
<1>1. /\ session' \in Limits \cup {NoLimit} /\ leaked' \in BOOLEAN
      /\ session' = NoLimit \/ leaked'
  <2>1. previous = NoLimit \/ leaked
    BY DEF IInv, Limiting, Control
  <2>2. CASE session' = previous /\ UNCHANGED leaked
    BY <2>1, <2>2 DEF IInv, TypeOK
  <2>3. CASE leaked' = TRUE /\ UNCHANGED session
    BY <2>3 DEF IInv, TypeOK
  <2> QED  BY <2>2, <2>3
<1>2. CASE error
  <2> USE <1>2 DEF Fails
  <2>1. TypeOK'
    BY <1>1 DEF IInv, TypeOK, Places
  <2>2. Position'
    BY DEF IInv, Position
  <2>3. Control'
    BY DEF IInv, Control
  <2>4. Counting'
    BY DEF IInv, Counting
  <2>5. Limiting' /\ OwnLimit' /\ LimitPutBack'
    BY <1>1 DEF Limiting, OwnLimit, LimitPutBack
  <2>6. AttemptsBounded'
    BY DEF IInv, AttemptsBounded, Attempts
  <2> QED  BY <2>1, <2>2, <2>3, <2>4, <2>5, <2>6 DEF IInv
<1>3. CASE ~error
  <2>1. GoOn /\ next > Last[section]
    BY <1>3, SectionFacts, SectionAssumption DEF IInv, TypeOK, Position
  <2>2. TypeOK'
    BY <1>1, <2>1, GoOnFacts DEF GoOn, IInv, TypeOK, Places
  <2>3. Position'
    BY <2>1, GoOnFacts DEF IInv, TypeOK, Position, Control
  <2>4. Control'
    BY <1>3, <2>1, GoOnFacts DEF IInv, TypeOK, Control
  <2>5. Counting'
    BY <1>3, <2>1, GoOnFacts DEF IInv, TypeOK, Counting, Control
  <2>6. Limiting' /\ OwnLimit' /\ LimitPutBack'
    BY <1>1, <2>1, GoOnFacts DEF Limiting, OwnLimit, LimitPutBack
  <2>7. AttemptsBounded'
    BY DEF IInv, AttemptsBounded, Attempts
  <2> QED  BY <2>2, <2>3, <2>4, <2>5, <2>6, <2>7 DEF IInv
<1> QED  BY <1>2, <1>3

LEMMA CrashKeeps == IInv /\ Crash => IInv'
<1> SUFFICES ASSUME IInv, Crash PROVE IInv'
  OBVIOUS
<1> USE DEF Crash, Fails, config, server, limits
<1>1. TypeOK'
  BY LimitAssumption DEF IInv, TypeOK, Places
<1>2. Position'
  BY DEF IInv, TypeOK, Position, Control
<1>3. Control'
  BY DEF IInv, TypeOK, Control, Limiting
<1>4. Counting'
  BY DEF IInv, TypeOK, Counting, Control
<1>5. Limiting' /\ OwnLimit' /\ LimitPutBack'
  BY DEF IInv, TypeOK, Limiting, Control, OwnLimit, LimitPutBack
<1>6. AttemptsBounded'
  BY DEF IInv, AttemptsBounded, Attempts
<1> QED  BY <1>1, <1>2, <1>3, <1>4, <1>5, <1>6 DEF IInv

LEMMA StepKeepsIInv == IInv /\ [Next]_vars => IInv'
<1> SUFFICES ASSUME IInv, [Next]_vars PROVE IInv'
  OBVIOUS
<1>1. CASE UNCHANGED vars
  BY <1>1
  DEF vars, config, server, limits, IInv, TypeOK, Position, Control, Counting,
      Limiting, AttemptsBounded, Attempts, OwnLimit, LimitPutBack
<1>2. CASE Next
  BY <1>2, ReadLimitKeeps, SetLimitKeeps, SkipSectionKeeps, EnterGuardKeeps,
     StatementRunsKeeps, SectionEndsKeeps, StatementFailsKeeps,
     LockWaitTimesOutKeeps, SendAgainKeeps, RestoreLimitKeeps, CrashKeeps
  DEF Next, Step
<1> QED  BY <1>1, <1>2

LEMMA AlwaysIInv == Spec => []IInv
BY InitIInv, StepKeepsIInv, PTL DEF Spec

-----------------------------------------------------------------------------
(* Every variable of the guard keeps its type, and the attempts made at a  *)
(* statement their bound.                                                  *)
THEOREM TypeCorrect == Spec => []TypeOK
<1>1. IInv => TypeOK
  BY DEF IInv
<1> QED  BY <1>1, AlwaysIInv, PTL

(* No statement is sent more often than the guard promises.                *)
THEOREM AttemptsAreBounded == Spec => []AttemptsBounded
<1>1. IInv => AttemptsBounded
  BY DEF IInv
<1> QED  BY <1>1, AlwaysIInv, PTL

(* Statements execute under the limit of their own file.                   *)
THEOREM LimitsAreKept == Spec => []OwnLimit
<1>1. IInv => OwnLimit
  BY DEF IInv
<1> QED  BY <1>1, AlwaysIInv, PTL

(* What the caller executes after the statements is under no limit, if it  *)
(* could be put back.                                                      *)
THEOREM LimitsArePutBack == Spec => []LimitPutBack
<1>1. IInv => LimitPutBack
  BY DEF IInv
<1> QED  BY <1>1, AlwaysIInv, PTL

(* A statement that was stopped or refused is never sent again.            *)
THEOREM StoppedIsFinal == Spec => StoppedForGood
<1>1. ASSUME IInv, [Next]_vars
      PROVE  [\A i \in stopped : sent'[i] = sent[i]]_vars
  <2>1. CASE Sending
    BY <1>1, <2>1, SendingFacts
  <2>2. CASE ~Sending
    <3>1. UNCHANGED sent
      BY <1>1, <2>2
      DEF vars, server, Next, Step, ReadLimit, SetLimit, SkipSection,
          EnterGuard, StatementRuns, SectionEnds, StatementFails,
          LockWaitTimesOut, SendAgain, RestoreLimit, Crash
    <3> QED  BY <3>1
  <2> QED  BY <2>1, <2>2
<1> QED  BY <1>1, AlwaysIInv, PTL DEF Spec, StoppedForGood

(* With retries, batches, lost answers, limits and crashes, the guard is   *)
(* an implementation of StatementOrder: each statement takes effect at     *)
(* most once and in order, and success is told only after all of them.     *)
THEOREM KeepsTheOrder == Spec => ImplementsOrder
<1>1. Init => Order!Init
  BY DEF Init, Order!Init
<1>2. ASSUME IInv, [Next]_vars
      PROVE  [Order!Next]_<<took, outcome>>
  <2> USE DEF server
  <2>1. /\ pc # "end" => outcome = "running"
        /\ pc = "end" => outcome # "running"
        /\ Total \in Nat
    BY <1>2, SectionAssumption DEF IInv, TypeOK, Control
  <2>2. IInv'
    BY <1>2, StepKeepsIInv
  <2>3. ASSUME UNCHANGED took, outcome' \in {outcome, "failed"},
               outcome' # outcome => outcome = "running"
        PROVE  [Order!Next]_<<took, outcome>>
    BY <2>3 DEF Order!Next, Order!Stop
  <2>4. ASSUME UNCHANGED took, outcome = "running", outcome' = "done"
        PROVE  [Order!Next]_<<took, outcome>>
    <3>1. took' = [i \in 1..Total |-> i]
      BY <2>1, <2>2, <2>4 DEF IInv, Position
    <3>2. Len(took) = Total
      BY <2>1, <2>4, <3>1, CountingUp
    <3> QED  BY <2>4, <3>2 DEF Order!Next, Order!Complete
  <2>5. CASE UNCHANGED vars
    BY <2>3, <2>5 DEF vars
  <2>6. CASE ReadLimit
    BY <2>1, <2>3, <2>6 DEF ReadLimit, Fails
  <2>7. CASE SetLimit
    BY <2>1, <2>3, <2>7 DEF SetLimit, Fails
  <2>8. CASE SkipSection
    BY <2>1, <2>3, <2>4, <2>8 DEF SkipSection, GoOn
  <2>9. CASE EnterGuard
    BY <2>1, <2>3, <2>9 DEF EnterGuard, Throw, Fails
  <2>10. CASE StatementRuns
    <3>1. next = Len(took) + 1 /\ Len(took) < Total /\ outcome = "running"
      BY <1>2, <2>1, <2>10, SendingFacts DEF StatementRuns
    <3> QED  BY <2>10, <3>1 DEF StatementRuns, Order!Next, Order!Execute
  <2>11. CASE SectionEnds
    BY <2>1, <2>3, <2>4, <2>11 DEF SectionEnds, Return, GoOn
  <2>12. CASE StatementFails
    <3>1. next = Len(took) + 1 /\ Len(took) < Total /\ outcome = "running"
      BY <1>2, <2>1, <2>12, SendingFacts DEF StatementFails
    <3>2. outcome' \in {"running", "failed"}
      BY <2>12, <3>1 DEF StatementFails, Throw, Fails
    <3>3. CASE UNCHANGED took
      BY <2>3, <3>1, <3>2, <3>3
    <3>4. CASE took' = Append(took, next)
      BY <3>1, <3>2, <3>4
      DEF Order!Next, Order!Execute, Order!ExecuteAndStop
    <3> QED  BY <2>12, <3>3, <3>4 DEF StatementFails
  <2>13. CASE LockWaitTimesOut
    <3>1. outcome = "running"
      BY <1>2, <2>13, SendingFacts DEF LockWaitTimesOut
    <3> QED  BY <2>3, <2>13, <3>1 DEF LockWaitTimesOut, Throw, Fails
  <2>14. CASE SendAgain
    BY <2>3, <2>14 DEF SendAgain
  <2>15. CASE RestoreLimit
    BY <2>1, <2>3, <2>4, <2>15 DEF RestoreLimit, Fails, GoOn
  <2>16. CASE Crash
    BY <2>3, <2>16 DEF Crash, Fails
  <2> QED
    BY <1>2, <2>5, <2>6, <2>7, <2>8, <2>9, <2>10, <2>11, <2>12, <2>13, <2>14,
       <2>15, <2>16 DEF Next, Step
<1> QED  BY <1>1, <1>2, AlwaysIInv, PTL DEF Spec, ImplementsOrder, Order!Spec
=============================================================================
