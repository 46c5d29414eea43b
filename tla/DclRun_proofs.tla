---------------------------- MODULE DclRun_proofs ----------------------------
(***************************************************************************)
(* Theorems about DclRun and Notifications, for any number of runs,        *)
(* instances, files, statements, accounts, emails and faults.              *)
(***************************************************************************)
EXTENDS DclRun, OrderLemmas, SequenceTheorems

-----------------------------------------------------------------------------
(* The copies of one name, by run id.                                      *)

Over(c, S, k) ==
  {e \in S : \E i \in DOMAIN c :
     /\ c[i] = e
     /\ Cardinality({j \in DOMAIN c : j > i /\ c[j] \in S}) >= k}

LEMMA BeyondIsOver ==
  ASSUME NEW n, NEW S, NEW k
  PROVE  Beyond(n, S, k) = Over(copies[n], S, k)
BY DEF Beyond, Over

(* More copies to choose from: what was old enough is old enough.          *)
LEMMA MoreIsOver ==
  ASSUME NEW c \in Seq(Emails), NEW T, NEW S \in SUBSET T, NEW k \in Nat
  PROVE  Over(c, S, k) \subseteq Over(c, T, k)
<1> SUFFICES ASSUME NEW e \in Over(c, S, k)
             PROVE  e \in Over(c, T, k)
  OBVIOUS
<1>1. PICK i \in DOMAIN c :
        /\ c[i] = e
        /\ Cardinality({j \in DOMAIN c : j > i /\ c[j] \in S}) >= k
  BY DEF Over
<1> DEFINE A == {j \in DOMAIN c : j > i /\ c[j] \in S}
           B == {j \in DOMAIN c : j > i /\ c[j] \in T}
<1>2. IsFiniteSet(B)
  <2>1. IsFiniteSet(1..Len(c)) /\ DOMAIN c = 1..Len(c)
    BY FS_Interval
  <2> QED  BY <2>1, FS_Subset
<1>3. A \in SUBSET B
  OBVIOUS
<1>4. Cardinality(A) <= Cardinality(B) /\ Cardinality(B) \in Nat
      /\ Cardinality(A) \in Nat
  BY <1>2, <1>3, FS_Subset, FS_CardinalityType
<1>5. Cardinality(B) >= k
  BY <1>1, <1>4
<1> QED  BY <1>1, <1>5 DEF Over

(* Among all copies, those with at least k after them.                     *)
LEMMA OverAll ==
  ASSUME NEW c \in Seq(Emails), NEW k \in Nat, NEW e
  PROVE  e \in Over(c, ToSet(c), k) <=>
           \E i \in 1..Len(c) : c[i] = e /\ Len(c) - i >= k
<1>1. DOMAIN c = 1..Len(c) /\ Len(c) \in Nat
  OBVIOUS
<1>2. ASSUME NEW i \in 1..Len(c)
      PROVE  Cardinality({j \in DOMAIN c : j > i /\ c[j] \in ToSet(c)})
               = Len(c) - i
  <2>1. {j \in DOMAIN c : j > i /\ c[j] \in ToSet(c)} = (i + 1)..Len(c)
    BY <1>1 DEF ToSet
  <2>2. Cardinality((i + 1)..Len(c)) = Len(c) - i
    BY <1>1, FS_Interval
  <2> QED  BY <2>1, <2>2
<1>3. \A i \in 1..Len(c) : c[i] \in ToSet(c)
  BY <1>1 DEF ToSet
<1> QED  BY <1>1, <1>2, <1>3 DEF Over

(* A new copy, wherever its id sorts, leaves as many after each of them.   *)
LEMMA InsertedIsOver ==
  ASSUME NEW c \in Seq(Emails), NEW x \in Emails, NEW p \in 1..(Len(c) + 1),
         NEW k \in Nat
  PROVE  /\ InsertAt(c, p, x) \in Seq(Emails)
         /\ Over(c, ToSet(c), k)
              \subseteq Over(InsertAt(c, p, x), ToSet(InsertAt(c, p, x)), k)
<1> DEFINE d == InsertAt(c, p, x)
           s == SubSeq(c, 1, p - 1)
           t == SubSeq(c, p, Len(c))
<1>1. Len(c) \in Nat /\ p \in Nat /\ p - 1 <= Len(c) /\ p >= 1
  OBVIOUS
<1>2. /\ s \in Seq(Emails) /\ Len(s) = p - 1
      /\ \A i \in 1..p - 1 : s[i] = c[i]
  BY <1>1
<1>3. /\ t \in Seq(Emails) /\ Len(t) = Len(c) - p + 1
      /\ \A i \in 1..Len(c) - p + 1 : t[i] = c[p + i - 1]
  BY <1>1
<1>4. d = s \o <<x>> \o t
  BY DEF InsertAt
<1> HIDE DEF s, t, d
<1>5. /\ d \in Seq(Emails) /\ Len(d) = Len(c) + 1
      /\ \A i \in 1..p - 1 : d[i] = s[i]
      /\ \A i \in 1..Len(c) - p + 1 : d[p + i] = t[i]
  <2> DEFINE u == s \o <<x>>
  <2>1. /\ u \in Seq(Emails) /\ Len(u) = p
        /\ \A i \in 1..p - 1 : u[i] = s[i]
    BY <1>1, <1>2
  <2> HIDE DEF u
  <2>2. d = u \o t
    BY <1>4 DEF u
  <2>3. /\ u \o t \in Seq(Emails) /\ Len(u \o t) = Len(u) + Len(t)
        /\ \A i \in 1..Len(u) + Len(t) :
             (u \o t)[i] = IF i <= Len(u) THEN u[i] ELSE t[i - Len(u)]
    BY <1>3, <2>1, ConcatProperties
  <2>4. \A i \in 1..p - 1 : d[i] = s[i]
    BY <1>1, <1>3, <2>1, <2>2, <2>3
  <2>5. ASSUME NEW i \in 1..Len(c) - p + 1
        PROVE  d[p + i] = t[i]
    <3>1. p + i \in 1..Len(u) + Len(t) /\ ~(p + i <= Len(u))
          /\ p + i - Len(u) = i
      BY SMTT(60), <1>1, <1>3, <2>1
    <3> QED  BY <2>2, <2>3, <3>1
  <2> QED  BY <1>1, <1>3, <2>1, <2>2, <2>3, <2>4, <2>5
<1>6. ASSUME NEW e \in Over(c, ToSet(c), k)
      PROVE  e \in Over(d, ToSet(d), k)
  <2>1. PICK i \in 1..Len(c) : c[i] = e /\ Len(c) - i >= k
    BY <1>6, OverAll
  <2>2. CASE i < p
    <3>1. i \in 1..p - 1 /\ i \in 1..Len(d)
      BY <1>1, <1>5, <2>2
    <3>2. d[i] = e /\ Len(d) - i >= k
      BY <1>1, <1>2, <1>5, <2>1, <3>1
    <3> QED  BY <1>5, <3>1, <3>2, OverAll
  <2>3. CASE ~(i < p)
    <3>1. i - p + 1 \in 1..Len(c) - p + 1 /\ i + 1 \in 1..Len(d)
      BY <1>1, <1>5, <2>3
    <3>2. p + (i - p + 1) - 1 = i /\ p + (i - p + 1) = i + 1
      BY <1>1
    <3>3. t[i - p + 1] = c[i] /\ d[i + 1] = t[i - p + 1]
      BY <1>3, <1>5, <3>1, <3>2
    <3>4. d[i + 1] = e /\ Len(d) - (i + 1) >= k
      BY <1>1, <1>5, <2>1, <3>3
    <3> QED  BY <1>5, <3>1, <3>4, OverAll
  <2> QED  BY <2>2, <2>3
<1> QED  BY <1>5, <1>6 DEF d

-----------------------------------------------------------------------------
(* The constants, and what follows from them.                              *)

LEMMA ConstantFacts ==
  /\ N \in Nat /\ Files \subseteq Nat
  /\ \A f \in Files : f \in 0..(N + 1)
  /\ Instances \in Seq(Places)
  /\ \A i \in Places : Kind[i] \in {"maria", "mongo"}
  /\ \A c \in Contents : /\ Script[c] \in Seq([op : Ops, on : Accounts])
                         /\ Len(Script[c]) \in Nat
                         /\ DOMAIN Script[c] = 1..Len(Script[c])
                         /\ DOMAIN Script[c] \subseteq 1..Longest
                         /\ \A k \in DOMAIN Script[c] :
                              /\ Script[c][k].op \in Ops
                              /\ Script[c][k].on \in Accounts
                         /\ Sha[c] \in Sums
  /\ NoFile \notin Contents /\ NoSum \notin Sums
  /\ NoAccount \notin Secrets /\ Given \notin Secrets /\ Mute \notin Secrets
  /\ NoAccount # Given
<1>1. ASSUME NEW c \in Contents
      PROVE  /\ Script[c] \in Seq([op : Ops, on : Accounts])
             /\ Len(Script[c]) \in Nat
             /\ DOMAIN Script[c] = 1..Len(Script[c])
             /\ DOMAIN Script[c] \subseteq 1..Longest
             /\ \A k \in DOMAIN Script[c] :
                  /\ Script[c][k].op \in Ops
                  /\ Script[c][k].on \in Accounts
             /\ Sha[c] \in Sums
  <2>1. /\ Script[c] \in Seq([op : Ops, on : Accounts])
        /\ Len(Script[c]) <= Longest /\ Sha[c] \in Sums
    BY ScriptAssumption
  <2>2. /\ Len(Script[c]) \in Nat /\ DOMAIN Script[c] = 1..Len(Script[c])
        /\ DOMAIN Script[c] \subseteq 1..Longest
    BY <2>1, LenProperties DEF Longest
  <2>3. \A k \in DOMAIN Script[c] :
          Script[c][k] \in [op : Ops, on : Accounts]
    BY <2>1, <2>2, ElementOfSeq
  <2> QED  BY <2>1, <2>2, <2>3
<1>2. N \in Nat /\ \A i \in Places : Kind[i] \in {"maria", "mongo"}
  BY ScriptAssumption
<1>3. /\ NoFile \notin Contents /\ NoSum \notin Sums
      /\ NoAccount \notin Secrets /\ Given \notin Secrets /\ Mute \notin Secrets
      /\ NoAccount # Given
  BY ScriptAssumption
<1>4. Files \subseteq Nat /\ \A f \in Files : f \in 0..(N + 1)
  BY <1>2 DEF Files
<1> QED  BY <1>1, <1>2, <1>3, <1>4, InstanceAssumption

-----------------------------------------------------------------------------
(* What a run does, one action at a time.                                  *)

(* A capture sees the accounts there are or, after an error, none.         *)
Captures(r) ==
  \E seen \in SUBSET Accounts :
    CaptureBefore(r, seen) \/ After(r, seen) \/ VerifyCapture(r, seen)

Moves(r) ==
  \/ Start(r) \/ Gate(r) \/ Forget(r) \/ Begin(r) \/ NextFile(r) \/ Look(r)
  \/ Execute(r) \/ FileDone(r) \/ Record(r) \/ Copy(r) \/ Replace(r)
  \/ ReadCopies(r) \/ RemoveCopy(r) \/ NextInstance(r) \/ VerifyNext(r)
  \/ FileFails(r) \/ VerifyFails(r) \/ Captures(r) \/ Fails(r)
  \/ SaveFails(r) \/ CleanupFails(r) \/ SummaryFails(r) \/ Crash(r)

LEMMA NextMoves ==
  ASSUME Next
  PROVE  \/ \E r \in Runs :
              /\ Moves(r)
              /\ \/ UNCHANGED faults
                 \/ faults < MaxFaults[policy] /\ faults' = faults + 1
         \/ Edit /\ UNCHANGED faults
<1>1. ASSUME NEW r \in Runs, Step(r)
      PROVE  Moves(r)
  <2>1. Existing(Here(r)) \in SUBSET Accounts
    BY DEF Existing
  <2> QED  BY <1>1, <2>1 DEF Step, Moves, Captures
<1>2. ASSUME NEW r \in Runs, Fault(r)
      PROVE  Moves(r)
  <2>1. {} \in SUBSET Accounts
    OBVIOUS
  <2> QED  BY <1>2, <2>1 DEF Fault, Moves, Captures
<1> QED  BY <1>1, <1>2 DEF Next

-----------------------------------------------------------------------------
(* The variables have their types.                                         *)

(* What a run has in hand: an instance, and a file whose content it listed *)
(* and, but for a MongoDB module without placeholders, executes.           *)
HandOf(r) ==
  /\ Active(r) => mem[r].queue # <<>>
  /\ pc[r] = "verify" => mem[r].cmd = "dcl:verify"
  /\ pc[r] \in Working \ {"verify", "exec"} => mem[r].cmd # "dcl:verify"
  /\ pc[r] \in {"look", "exec", "sum"} =>
       mem[r].file \in Files /\ mem[r].list[mem[r].file] \in Contents
  /\ pc[r] = "look" => Kind[Here(r)] = "maria"
  /\ pc[r] \in {"look", "exec"} =>
       \/ mem[r].body = Source(mem[r])
       \/ mem[r].cmd # "dcl:verify" /\ ~Generates(Source(mem[r]))
  /\ pc[r] = "exec" => mem[r].at >= 1
  /\ pc[r] = "look" => mem[r].at = 1
  /\ mem[r].cmd # "dcl:verify" => mem[r].pass = 0
Hands == \A r \in Runs : HandOf(r)

LEMMA MemoryFacts ==
  ASSUME TypeOK, NEW r \in Runs
  PROVE  /\ mem[r] \in Memory
         /\ mem[r].cmd \in {"none", "dcl", "dcl-all", "dcl:verify"}
         /\ mem[r].queue \in Seq(Places)
         /\ mem[r].queue # <<>> => /\ Here(r) \in Places
                                   /\ Tail(mem[r].queue) \in Seq(Places)
         /\ mem[r].list \in [Files -> Contents \cup {NoFile}]
         /\ mem[r].known \in [Files -> Sums \cup {NoSum}]
         /\ mem[r].orphans \subseteq Files
         /\ mem[r].file \in 0..(N + 1) /\ mem[r].at \in Nat
         /\ mem[r].pass \in 0..2
         /\ mem[r].body \in Contents \cup {NoFile}
         /\ mem[r].found \subseteq Accounts /\ mem[r].made \subseteq Accounts
         /\ mem[r].before \subseteq Accounts /\ mem[r].bare \subseteq Accounts
         /\ mem[r].events \in [Accounts -> Event]
         /\ mem[r].victims \subseteq Emails
         /\ mem[r].applied \in BOOLEAN /\ mem[r].error \in BOOLEAN
         /\ mem[r].bad \in BOOLEAN /\ mem[r].validate \in BOOLEAN
         /\ mem[r].skipped \in BOOLEAN /\ mem[r].failure \in BOOLEAN
<1>1. mem[r] \in Memory
  BY DEF TypeOK
<1>2. mem[r].queue \in Seq(Places)
  BY <1>1 DEF Memory
<1>3. ASSUME mem[r].queue # <<>>
      PROVE  Here(r) \in Places /\ Tail(mem[r].queue) \in Seq(Places)
  BY <1>2, <1>3 DEF Here
<1> QED  BY <1>1, <1>2, <1>3 DEF Memory

LEMMA BlankFacts ==
  /\ Blank \in Memory
  /\ Quiet \in [Accounts -> Event]
  /\ Unlisted \in [Files -> Contents \cup {NoFile}]
  /\ Unknown \in [Files -> Sums \cup {NoSum}]
<1>1. /\ Quiet \in [Accounts -> Event]
      /\ Unlisted \in [Files -> Contents \cup {NoFile}]
      /\ Unknown \in [Files -> Sums \cup {NoSum}]
  BY DEF Quiet, Nothing, Event, Unlisted, Unknown
<1>2. 0 \in 0..(N + 1) /\ <<>> \in Seq(Places)
  BY ConstantFacts
<1> QED  BY <1>1, <1>2 DEF Memory, Blank

(* The row of an account: nothing told, nothing changed, or the last       *)
(* change.                                                                 *)
LEMMA MergeFacts ==
  ASSUME NEW prev \in Event, NEW n \in Nat, NEW K \in SUBSET (1..n),
         NEW told \in [K -> Event]
  PROVE  /\ Merge(prev, told) \in Event
         /\ (\E k \in K : told[k].kind # "no_change") =>
              \E k \in K :
                /\ told[k].kind # "no_change"
                /\ \A l \in K : told[l].kind # "no_change" => l <= k
                /\ Merge(prev, told).pw = told[k].pw
                /\ Merge(prev, told).kind \in {"new", told[k].kind}
         /\ (\A k \in K : told[k].kind = "no_change") =>
              IF prev.kind = "nothing" /\ K # {}
              THEN Merge(prev, told) = [kind |-> "no_change", pw |-> Mute]
              ELSE Merge(prev, told) = prev
<1> DEFINE C == {k \in K : told[k].kind # "no_change"}
<1>d. DOMAIN told = K /\ \A k \in K : told[k] \in Event
  OBVIOUS
<1>1. CASE C = {}
  <2>1. Merge(prev, told) = IF prev.kind = "nothing" /\ K # {}
                            THEN [kind |-> "no_change", pw |-> Mute]
                            ELSE prev
    <3>1. CASE prev.kind = "nothing" /\ K # {}
      BY <1>d, <1>1, <3>1 DEF Merge
    <3>2. CASE ~(prev.kind = "nothing" /\ K # {})
      BY <1>d, <1>1, <3>2 DEF Merge
    <3> QED  BY <3>1, <3>2
  <2>2. [kind |-> "no_change", pw |-> Mute] \in Event
    BY DEF Event
  <2> QED  BY <1>1, <2>1, <2>2
<1>2. CASE C # {}
  <2>1. C \subseteq Nat /\ \A k \in C : k <= n
    <3>1. \A k \in K : k \in Nat /\ k <= n
      OBVIOUS
    <3>2. C \subseteq K
      OBVIOUS
    <3> HIDE DEF C
    <3> QED  BY <3>1, <3>2
  <2>2. \E k \in C : \A l \in C : l <= k
    BY <1>2, <2>1, NatMaximum
  <2>3. \E k \in C : \A l \in C : k >= l
    BY <2>1, <2>2
  <2>4. Max(C) \in C /\ \A l \in C : Max(C) >= l
    BY <2>3 DEF Max
  <2> DEFINE k == Max(C)
             isNew == prev.kind = "new" \/ \E l \in C : told[l].kind = "new"
  <2>5. Merge(prev, told) =
          [told[k] EXCEPT !.kind = IF isNew THEN "new" ELSE told[k].kind]
    BY <1>d, <1>2 DEF Merge
  <2> HIDE DEF k, isNew
  <2>6. told[k] \in Event /\ k \in C
    BY <1>d, <2>4 DEF k
  <2>7. /\ Merge(prev, told) \in Event
        /\ Merge(prev, told).pw = told[k].pw
        /\ Merge(prev, told).kind \in {"new", told[k].kind}
    BY <2>5, <2>6 DEF Event
  <2>8. \A l \in K : told[l].kind # "no_change" => l <= k
    BY <2>1, <2>4 DEF k
  <2> QED  BY <1>2, <2>6, <2>7, <2>8
<1> QED  BY <1>1, <1>2

KindOf(r, k) == IF Kind[Here(r)] = "maria" THEN MariaKind(mem[r], k)
                                           ELSE MongoKind(mem[r], k)

(* The statements of a file that its events are about.                     *)
Reported(r, lists, a) ==
  {k \in Placeholders(Source(mem[r])) :
     /\ Script[mem[r].body][k].on = a
     /\ Misaligned(mem[r], lists) => KindOf(r, k) # "no_change"}

SecretAt(r, k) == [run |-> r, file |-> mem[r].file, at |-> k, pass |-> 1]

(* The events after a file, in terms of its statements.                    *)
LEMMA RecordedFacts ==
  ASSUME TypeOK, Hands, NEW r \in Runs, NEW lists \in BOOLEAN,
         pc[r] = "exec", mem[r].cmd # "dcl:verify"
  PROVE  /\ Recorded(r, lists) \in [Accounts -> Event]
         /\ \A a \in Accounts :
              LET e == Recorded(r, lists)[a] IN
              /\ (\E k \in Reported(r, lists, a) : KindOf(r, k) # "no_change")
                 => \E k \in Reported(r, lists, a) :
                      /\ KindOf(r, k) # "no_change"
                      /\ \A l \in Reported(r, lists, a) :
                           KindOf(r, l) # "no_change" => l <= k
                      /\ e.pw = IF Misaligned(mem[r], lists) THEN Mute
                                ELSE SecretAt(r, k)
                      /\ e.kind \in {"new", KindOf(r, k)}
              /\ (\A k \in Reported(r, lists, a) : KindOf(r, k) = "no_change")
                 => IF /\ mem[r].events[a].kind = "nothing"
                       /\ Reported(r, lists, a) # {}
                    THEN e = [kind |-> "no_change", pw |-> Mute]
                    ELSE e = mem[r].events[a]
<1> DEFINE m == mem[r]
<1>1. /\ m.file \in Files /\ Source(m) \in Contents
      /\ m.events \in [Accounts -> Event]
      /\ Here(r) \in Places
  BY MemoryFacts DEF Hands, HandOf, Source, Active, Working
<1>2. Placeholders(Source(m)) \subseteq 1..Longest
  BY <1>1, ConstantFacts DEF Placeholders
<1>b. Placeholders(Source(m)) # {} => m.body = Source(m)
  BY DEF Hands, HandOf, Generates, Placeholders
<1>3. ASSUME NEW k \in Placeholders(Source(m))
      PROVE  KindOf(r, k) \in {"new", "password_changed", "no_change"}
  <2>1. MariaKind(m, k) \in {"new", "password_changed", "no_change"}
    BY DEF MariaKind
  <2>2. MongoKind(m, k) \in {"new", "password_changed", "no_change"}
    BY DEF MongoKind
  <2> QED  BY <2>1, <2>2 DEF KindOf
<1> DEFINE Unheard(k) == KindOf(r, k) = "no_change" \/ Misaligned(m, lists)
           EventAt(k) == [kind |-> KindOf(r, k),
                          pw |-> IF Unheard(k) THEN Mute ELSE SecretAt(r, k)]
           told(a) == [k \in Reported(r, lists, a) |-> EventAt(k)]
<1>4. Recorded(r, lists) = [a \in Accounts |-> Merge(m.events[a], told(a))]
  BY DEF Recorded, Reported, KindOf, SecretAt
<1>5. ASSUME NEW k \in Placeholders(Source(m))
      PROVE  EventAt(k) \in Event
  <2>1. SecretAt(r, k) \in Secrets
    BY <1>1, <1>2 DEF SecretAt, Secrets
  <2> QED  BY <1>3, <2>1 DEF Event
<1>6. ASSUME NEW a \in Accounts
      PROVE  /\ Reported(r, lists, a) \in SUBSET (1..Longest)
             /\ told(a) \in [Reported(r, lists, a) -> Event]
  BY <1>2, <1>5 DEF Reported
<1>7. Longest \in Nat
  BY DEF Longest
<1> DEFINE K(a) == Reported(r, lists, a)
<1>8. ASSUME NEW a \in Accounts
      PROVE  /\ Merge(m.events[a], told(a)) \in Event
             /\ (\E k \in K(a) : told(a)[k].kind # "no_change") =>
                  \E k \in K(a) :
                    /\ told(a)[k].kind # "no_change"
                    /\ \A l \in K(a) : told(a)[l].kind # "no_change" => l <= k
                    /\ Merge(m.events[a], told(a)).pw = told(a)[k].pw
                    /\ Merge(m.events[a], told(a)).kind
                         \in {"new", told(a)[k].kind}
             /\ (\A k \in K(a) : told(a)[k].kind = "no_change") =>
                  IF m.events[a].kind = "nothing" /\ K(a) # {}
                  THEN Merge(m.events[a], told(a))
                         = [kind |-> "no_change", pw |-> Mute]
                  ELSE Merge(m.events[a], told(a)) = m.events[a]
  <2>1. m.events[a] \in Event
    BY <1>1
  <2> HIDE DEF told
  <2> QED  BY <1>6, <1>7, <2>1, MergeFacts
<1>9. ASSUME NEW a \in Accounts, NEW k \in K(a)
      PROVE  /\ told(a)[k].kind = KindOf(r, k)
             /\ KindOf(r, k) # "no_change" =>
                  told(a)[k].pw = IF Misaligned(m, lists) THEN Mute
                                  ELSE SecretAt(r, k)
  OBVIOUS
<1> HIDE DEF told
<1> QED  BY <1>4, <1>8, <1>9

LEMMA MemoryUpdates ==
  ASSUME NEW m \in Memory
  PROVE  /\ \A S \in SUBSET Files : [m EXCEPT !.orphans = S] \in Memory
         /\ \A S \in SUBSET Accounts : [m EXCEPT !.before = S] \in Memory
         /\ \A l \in [Files -> Contents \cup {NoFile}],
               k \in [Files -> Sums \cup {NoSum}] :
              [m EXCEPT !.list = l, !.known = k] \in Memory
         /\ \A l \in [Files -> Contents \cup {NoFile}],
               k \in [Files -> Sums \cup {NoSum}], s \in BOOLEAN :
              [m EXCEPT !.skipped = s, !.list = l, !.known = k] \in Memory
         /\ \A f \in Files, b \in Contents \cup {NoFile}, s \in BOOLEAN :
              [m EXCEPT !.file = f, !.at = 1, !.skipped = s, !.body = b,
                        !.found = {}, !.made = {}] \in Memory
         /\ \A S \in SUBSET Accounts : [m EXCEPT !.found = S] \in Memory
         /\ \A k \in Nat, S \in SUBSET Accounts :
              [m EXCEPT !.at = k, !.made = S] \in Memory
         /\ \A e \in [Accounts -> Event] : [m EXCEPT !.events = e] \in Memory
         /\ [m EXCEPT !.applied = TRUE, !.body = NoFile,
                      !.found = {}, !.made = {}] \in Memory
         /\ [m EXCEPT !.error = TRUE, !.body = NoFile, !.found = {},
               !.made = {}, !.list = Unlisted, !.known = Unknown] \in Memory
         /\ \A x \in BOOLEAN, S \in SUBSET Accounts :
              [m EXCEPT !.bad = x, !.before = {}, !.bare = S] \in Memory
         /\ [m EXCEPT !.events = Quiet, !.bare = {}] \in Memory
         /\ \A S \in SUBSET Emails : [m EXCEPT !.victims = S] \in Memory
         /\ \A l \in [Files -> Contents \cup {NoFile}], f \in Files,
               b \in Contents \cup {NoFile} :
              [m EXCEPT !.list = l, !.file = f, !.at = 1, !.pass = 1,
                        !.body = b] \in Memory
         /\ \A S \in SUBSET Accounts :
              [m EXCEPT !.before = S, !.pass = 2, !.at = 1] \in Memory
         /\ \A x \in BOOLEAN :
              [m EXCEPT !.bad = x, !.before = {}, !.body = NoFile] \in Memory
<1>0. /\ Quiet \in [Accounts -> Event]
      /\ Unlisted \in [Files -> Contents \cup {NoFile}]
      /\ Unknown \in [Files -> Sums \cup {NoSum}]
      /\ \A f \in Files : f \in 0..(N + 1)
      /\ 1 \in Nat /\ 1 \in 0..2 /\ 2 \in 0..2
  BY BlankFacts, ConstantFacts
<1>1. \A S \in SUBSET Files : [m EXCEPT !.orphans = S] \in Memory
  BY <1>0 DEF Memory
<1>2. \A S \in SUBSET Accounts : [m EXCEPT !.before = S] \in Memory
  BY <1>0 DEF Memory
<1>3. \A l \in [Files -> Contents \cup {NoFile}],
          k \in [Files -> Sums \cup {NoSum}] :
         [m EXCEPT !.list = l, !.known = k] \in Memory
  BY <1>0 DEF Memory
<1>4. \A l \in [Files -> Contents \cup {NoFile}],
          k \in [Files -> Sums \cup {NoSum}], s \in BOOLEAN :
         [m EXCEPT !.skipped = s, !.list = l, !.known = k] \in Memory
  BY ZenonT(60), <1>0 DEF Memory
<1>5. \A f \in Files, b \in Contents \cup {NoFile}, s \in BOOLEAN :
         [m EXCEPT !.file = f, !.at = 1, !.skipped = s, !.body = b,
                   !.found = {}, !.made = {}] \in Memory
  BY ZenonT(60), <1>0 DEF Memory
<1>6. \A S \in SUBSET Accounts : [m EXCEPT !.found = S] \in Memory
  BY <1>0 DEF Memory
<1>7. \A k \in Nat, S \in SUBSET Accounts :
         [m EXCEPT !.at = k, !.made = S] \in Memory
  BY <1>0 DEF Memory
<1>8. \A e \in [Accounts -> Event] : [m EXCEPT !.events = e] \in Memory
  BY <1>0 DEF Memory
<1>9. [m EXCEPT !.applied = TRUE, !.body = NoFile,
                 !.found = {}, !.made = {}] \in Memory
  BY <1>0 DEF Memory
<1>10. [m EXCEPT !.error = TRUE, !.body = NoFile, !.found = {},
          !.made = {}, !.list = Unlisted, !.known = Unknown] \in Memory
  BY <1>0 DEF Memory
<1>11. \A x \in BOOLEAN, S \in SUBSET Accounts :
         [m EXCEPT !.bad = x, !.before = {}, !.bare = S] \in Memory
  BY <1>0 DEF Memory
<1>12. [m EXCEPT !.events = Quiet, !.bare = {}] \in Memory
  BY <1>0 DEF Memory
<1>13. \A S \in SUBSET Emails : [m EXCEPT !.victims = S] \in Memory
  BY <1>0 DEF Memory
<1>14. \A l \in [Files -> Contents \cup {NoFile}], f \in Files,
          b \in Contents \cup {NoFile} :
         [m EXCEPT !.list = l, !.file = f, !.at = 1, !.pass = 1,
                   !.body = b] \in Memory
  BY ZenonT(60), <1>0 DEF Memory
<1>15. \A S \in SUBSET Accounts :
         [m EXCEPT !.before = S, !.pass = 2, !.at = 1] \in Memory
  BY <1>0 DEF Memory
<1>16. \A x \in BOOLEAN :
         [m EXCEPT !.bad = x, !.before = {}, !.body = NoFile] \in Memory
  BY <1>0 DEF Memory
<1> QED
  BY <1>1, <1>2, <1>3, <1>4, <1>5, <1>6, <1>7, <1>8, <1>9, <1>10, <1>11, <1>12, <1>13, <1>14, <1>15, <1>16

LEMMA BlankUpdates ==
  ASSUME NEW m \in Memory
  PROVE  /\ \A c \in {"dcl", "dcl-all", "dcl:verify"}, v \in BOOLEAN,
               q \in Seq(Places) :
              [Blank EXCEPT !.cmd = c, !.validate = v, !.queue = q] \in Memory
         /\ \A x \in BOOLEAN :
              [[Blank EXCEPT !.cmd = m.cmd, !.queue = m.queue,
                             !.validate = m.validate, !.bad = m.bad]
                 EXCEPT !.bad = TRUE, !.failure = x] \in Memory
         /\ \A q \in Seq(Places) :
              [[Blank EXCEPT !.cmd = m.cmd, !.queue = m.queue,
                             !.validate = m.validate, !.bad = m.bad]
                 EXCEPT !.queue = q] \in Memory
BY ZenonT(60), BlankFacts DEF Memory

(* Losing and Throw, which several actions share.                          *)
LEMMA LosingFacts ==
  ASSUME TypeOK, NEW r \in Runs, NEW i \in Places, NEW P, Losing(r, i, P)
  PROVE  /\ fate' \in [Places -> [Accounts -> {"open", "mailed", "lost"}]]
         /\ \A j \in Places, a \in Accounts :
              \/ fate'[j][a] = fate[j][a]
              \/ fate'[j][a] = "lost"
         /\ \A a \in Accounts :
              /\ accounts[i][a] \in Secrets /\ accounts[i][a].run = r
              /\ accounts[i][a] \in P
              => fate'[i][a] # "open"
<1>1. fate \in [Places -> [Accounts -> {"open", "mailed", "lost"}]]
  BY DEF TypeOK
<1>2. PICK row :
        /\ row = [a \in Accounts |->
                    IF /\ accounts[i][a] \in Secrets /\ accounts[i][a].run = r
                       /\ accounts[i][a] \in P /\ fate[i][a] = "open"
                    THEN "lost" ELSE fate[i][a]]
        /\ fate' = [fate EXCEPT ![i] = row]
  BY <1>1 DEF Losing
<1>3. row \in [Accounts -> {"open", "mailed", "lost"}]
  BY <1>1, <1>2
<1>4. \A a \in Accounts :
        /\ row[a] = fate[i][a] \/ row[a] = "lost"
        /\ /\ accounts[i][a] \in Secrets /\ accounts[i][a].run = r
           /\ accounts[i][a] \in P
           => row[a] # "open"
  BY <1>1, <1>2
<1>5. /\ fate' \in [Places -> [Accounts -> {"open", "mailed", "lost"}]]
      /\ fate'[i] = row /\ \A j \in Places \ {i} : fate'[j] = fate[j]
  BY <1>1, <1>2, <1>3
<1> QED  BY <1>4, <1>5

LEMMA ThrowFacts ==
  ASSUME TypeOK, Hands, NEW r \in Runs, Active(r), Throw(r)
  PROVE  /\ mem' \in [Runs -> Memory]
         /\ pc' \in [Runs -> Working \cup Ended \cup {"ready"}]
         /\ claims' \in [Runs -> SUBSET (Places \X Files \X Contents)]
         /\ Here(r) \in Places
         /\ Losing(r, Here(r), Secrets)
<1>1. Here(r) \in Places /\ mem[r] \in Memory
  BY MemoryFacts DEF Hands, HandOf
<1>2. [Afresh(r) EXCEPT !.bad = TRUE, !.failure = (mem[r].cmd = "dcl")]
        \in Memory
  <2>1. (mem[r].cmd = "dcl") \in BOOLEAN
    OBVIOUS
  <2> QED  BY <1>1, <2>1, BlankUpdates DEF Afresh
<1>3. mem' \in [Runs -> Memory]
  BY <1>2, BlankFacts DEF Throw, Exit, Remember, TypeOK
<1>4. pc' \in [Runs -> Working \cup Ended \cup {"ready"}]
  BY DEF Throw, Exit, Goto, TypeOK, Working, Ended
<1>5. claims' \in [Runs -> SUBSET (Places \X Files \X Contents)]
  BY DEF Throw, Exit, TypeOK
<1> QED  BY <1>1, <1>3, <1>4, <1>5 DEF Throw

LEMMA SecretFacts ==
  ASSUME TypeOK, Hands, NEW r \in Runs, pc[r] = "exec",
         mem[r].at \in DOMAIN Script[mem[r].body], mem[r].body # NoFile
  PROVE  /\ Here(r) \in Places
         /\ mem[r].body \in Contents /\ mem[r].at \in 1..Longest
         /\ Script[mem[r].body][mem[r].at].on \in Accounts
         /\ Script[mem[r].body][mem[r].at].op \in Ops
         /\ mem[r].at \in Nat /\ mem[r].file \in Files
         /\ Secret(r) \in Secrets /\ Secret(r).run = r
         /\ Secret(r).file = mem[r].file /\ Secret(r).at = mem[r].at
         /\ mem[r].cmd # "dcl:verify" => Secret(r).pass = 1
         /\ Password(r) \in Passwords
<1>1. /\ mem[r].body \in Contents /\ mem[r].file \in Files
      /\ Here(r) \in Places /\ mem[r].at \in Nat
  BY MemoryFacts DEF Hands, HandOf, Active, Working
<1>2. mem[r].at \in 1..Longest
      /\ Script[mem[r].body][mem[r].at].on \in Accounts
      /\ Script[mem[r].body][mem[r].at].op \in Ops
  BY <1>1, ConstantFacts
<1>3. Secret(r) \in Secrets
  BY <1>1, <1>2 DEF Secret, Secrets
<1>4. mem[r].cmd # "dcl:verify" => mem[r].pass = 0
  BY DEF Hands, HandOf
<1>5. /\ Secret(r).run = r /\ Secret(r).file = mem[r].file
      /\ Secret(r).at = mem[r].at
      /\ mem[r].cmd # "dcl:verify" => Secret(r).pass = 1
  BY <1>4 DEF Secret
<1> QED  BY <1>1, <1>2, <1>3, <1>5 DEF Password, Passwords

(* The statement in hand changes at most the password of its account: to   *)
(* one that this run has made, to one nobody generated, or to none.        *)
LEMMA LeavesFacts ==
  ASSUME NEW op \in Ops, NEW old, NEW secret
  PROVE  /\ Leaves(op, old, secret) \in {old, secret, NoAccount, Given}
         /\ op = "drop" => Leaves(op, old, secret) = NoAccount
         /\ op \in {"replace", "reset"} => Leaves(op, old, secret) = secret
         /\ op \in {"create", "other"} =>
              IF old = NoAccount
              THEN Leaves(op, old, secret)
                     = IF op = "create" THEN secret ELSE Given
              ELSE Leaves(op, old, secret) = old
BY DEF Leaves, Ops

(* What executing a statement does to the servers.                         *)
LEMMA ExecuteFacts ==
  ASSUME TypeOK, Hands, NEW r \in Runs, Execute(r)
  PROVE  LET i == Here(r)
             m == mem[r]
             s == Script[m.body][m.at]
             old == accounts[i][s.on]
             new == Leaves(s.op, old, Password(r))
             stale == s.op = "create" /\ s.on \in m.found
                      /\ ~DropsBefore(m.body, m.at)
         IN  /\ i \in Places /\ s.on \in Accounts /\ s.op \in Ops
             /\ m.body \in Contents /\ m.at \in DOMAIN Script[m.body]
             /\ s.op = "reset" => old # NoAccount
             /\ accounts' \in [Places -> [Accounts -> Passwords]]
             /\ accounts'[i][s.on] = new
             /\ fate' \in [Places -> [Accounts -> {"open", "mailed", "lost"}]]
             /\ fate'[i][s.on] = IF new = old THEN fate[i][s.on]
                                 ELSE IF /\ new = Secret(r)
                                         /\ stale \/ m.cmd = "dcl:verify"
                                      THEN "lost" ELSE "open"
             /\ \A j \in Places, a \in Accounts : j # i \/ a # s.on =>
                  accounts'[j][a] = accounts[j][a] /\ fate'[j][a] = fate[j][a]
             /\ mem'[r] = [m EXCEPT !.at = m.at + 1,
                  !.made = IF s.op \in {"create", "replace"} /\ new # old
                           THEN m.made \cup {s.on} ELSE m.made]
             /\ mem' = [mem EXCEPT ![r] = mem'[r]]
<1> DEFINE i == Here(r)
           m == mem[r]
           s == Script[m.body][m.at]
           old == accounts[i][s.on]
           new == Leaves(s.op, old, Password(r))
           stale == s.op = "create" /\ s.on \in m.found
                    /\ ~DropsBefore(m.body, m.at)
<1>1. /\ i \in Places /\ s.on \in Accounts /\ s.op \in Ops
      /\ m.body \in Contents /\ m.at \in DOMAIN Script[m.body]
      /\ Password(r) \in Passwords
  BY SecretFacts DEF Execute
<1>2. /\ accounts \in [Places -> [Accounts -> Passwords]]
      /\ fate \in [Places -> [Accounts -> {"open", "mailed", "lost"}]]
      /\ mem \in [Runs -> Memory]
  BY DEF TypeOK
<1>3. old \in Passwords /\ new \in Passwords
  <2>1. old \in Passwords
    BY <1>1, <1>2
  <2>2. s.op \in Ops /\ Password(r) \in Passwords
    BY <1>1
  <2> HIDE DEF s, old, i, m
  <2>3. new \in {old, Password(r), NoAccount, Given}
    BY <2>2, LeavesFacts
  <2> HIDE DEF new
  <2> QED  BY <2>1, <2>2, <2>3 DEF Passwords
<1>4. /\ s.op = "reset" => old # NoAccount
      /\ accounts' = [accounts EXCEPT ![i][s.on] = new]
      /\ fate' = IF new = old THEN fate
                 ELSE [fate EXCEPT ![i][s.on] =
                         IF new = Secret(r) /\ (stale \/ m.cmd = "dcl:verify")
                         THEN "lost" ELSE "open"]
      /\ mem' = [mem EXCEPT ![r] =
           [m EXCEPT !.at = m.at + 1,
              !.made = IF s.op \in {"create", "replace"} /\ new # old
                       THEN m.made \cup {s.on} ELSE m.made]]
  BY DEF Execute, Remember
<1> HIDE DEF new, stale, old, s, i, m
<1>5. /\ accounts' \in [Places -> [Accounts -> Passwords]]
      /\ accounts'[i][s.on] = new
      /\ \A j \in Places, a \in Accounts :
           j # i \/ a # s.on => accounts'[j][a] = accounts[j][a]
  BY <1>1, <1>2, <1>3, <1>4
<1>6. /\ fate' \in [Places -> [Accounts -> {"open", "mailed", "lost"}]]
      /\ fate'[i][s.on] = IF new = old THEN fate[i][s.on]
                          ELSE IF /\ new = Secret(r)
                                  /\ stale \/ m.cmd = "dcl:verify"
                               THEN "lost" ELSE "open"
      /\ \A j \in Places, a \in Accounts :
           j # i \/ a # s.on => fate'[j][a] = fate[j][a]
  BY <1>1, <1>2, <1>4
<1>7. PICK x : x = [m EXCEPT !.at = m.at + 1,
              !.made = IF s.op \in {"create", "replace"} /\ new # old
                       THEN m.made \cup {s.on} ELSE m.made]
  OBVIOUS
<1>8. mem' = [mem EXCEPT ![r] = x]
  BY <1>4, <1>7
<1>9. mem'[r] = x /\ mem' = [mem EXCEPT ![r] = mem'[r]]
  BY <1>2, <1>8
<1> QED  BY ZenonT(60), <1>1, <1>4, <1>5, <1>6, <1>7, <1>9
         DEF new, stale, old, s, i, m

LEMMA MoveType ==
  ASSUME TypeOK, Hands, NEW r \in Runs, Moves(r),
         faults' \in 0..MaxFaults[policy]
  PROVE  TypeOK'
<1> DEFINE m == mem[r]
           i == Here(r)
<1>m. /\ m \in Memory /\ m.queue \in Seq(Places)
      /\ m.list \in [Files -> Contents \cup {NoFile}]
      /\ m.orphans \subseteq Files /\ m.made \subseteq Accounts
      /\ m.file \in 0..(N + 1) /\ m.at \in Nat
      /\ m.body \in Contents \cup {NoFile}
      /\ m.events \in [Accounts -> Event] /\ m.victims \subseteq Emails
      /\ m.skipped \in BOOLEAN /\ m.bad \in BOOLEAN /\ m.error \in BOOLEAN
  BY MemoryFacts
<1>q. Active(r) => i \in Places /\ Tail(m.queue) \in Seq(Places)
  BY MemoryFacts DEF Hands, HandOf
<1>f. pc[r] \in {"look", "exec", "sum"} =>
        m.file \in Files /\ m.list[m.file] \in Contents
  BY DEF Hands, HandOf
<1>k. Blank \in Memory
  BY BlankFacts
<1>d. /\ disk \in [Files -> Contents \cup {NoFile}]
      /\ \A g \in Files : disk[g] \in Contents \cup {NoFile}
      /\ \A j \in Places : sums[j] \in [Files -> Sums \cup {NoSum}]
      /\ sums \in [Places -> [Files -> Sums \cup {NoSum}]]
      /\ claims \in [Runs -> SUBSET (Places \X Files \X Contents)]
      /\ claims[r] \subseteq Places \X Files \X Contents
      /\ copies \in [Names -> Seq(Emails)]
      /\ removed \in [Names -> SUBSET Emails]
  BY DEF TypeOK, MailTypeOK
<1>s. pc[r] = "sum" => WithSum(r) \in [Places -> [Files -> Sums \cup {NoSum}]]
  BY <1>d, <1>f, <1>q, ConstantFacts DEF WithSum, Active, Working
<1> HIDE DEF m, i
<1> USE DEF TypeOK, MailTypeOK, mailVars, world, servers, history,
            Exit, Goto, Remember
<1> USE DEF Working, Ended, Active
<1>1. CASE Start(r)
  <2>1. PICK c \in Commands[policy], v \in BOOLEAN, j \in Places :
          /\ Remember(r, [Blank EXCEPT !.cmd = c, !.validate = v,
                !.queue = IF c = "dcl-all" THEN Instances ELSE <<j>>])
          /\ Goto(r, IF c = "dcl:verify" THEN "verify" ELSE "gate")
    BY <1>1 DEF Start
  <2>2. c \in {"dcl", "dcl-all", "dcl:verify"}
    BY ScriptAssumption
  <2>3. (IF c = "dcl-all" THEN Instances ELSE <<j>>) \in Seq(Places)
    BY ConstantFacts
  <2>4. [Blank EXCEPT !.cmd = c, !.validate = v,
            !.queue = IF c = "dcl-all" THEN Instances ELSE <<j>>] \in Memory
    BY <1>m, <2>2, <2>3, BlankUpdates
  <2>5. mem' \in [Runs -> Memory]
        /\ pc' \in [Runs -> Working \cup Ended \cup {"ready"}]
    BY <2>1, <2>4
  <2> QED  BY <1>1, <2>5 DEF Start
<1>2. CASE Gate(r)
  <2> DEFINE orphans == {f \in Files : sums[i][f] # NoSum /\ disk[f] = NoFile}
  <2>1. [m EXCEPT !.orphans = orphans] \in Memory
    BY <1>m, MemoryUpdates
  <2>2. mem' = [mem EXCEPT ![r] = [m EXCEPT !.orphans = orphans]]
    BY <1>2 DEF Gate, m, i
  <2>3. pc' \in [Runs -> Working \cup Ended \cup {"ready"}]
    BY <1>2 DEF Gate
  <2> HIDE DEF orphans
  <2>4. mem' \in [Runs -> Memory]
    BY <2>1, <2>2
  <2> QED  BY <1>2, <2>3, <2>4 DEF Gate
<1>3. CASE Forget(r)
  <2>1. [m EXCEPT !.orphans = {}] \in Memory
    BY <1>m, MemoryUpdates
  <2>2. PICK row : /\ row = [f \in Files |-> IF f \in m.orphans THEN NoSum
                                            ELSE sums[i][f]]
                   /\ sums' = [sums EXCEPT ![i] = row]
    BY <1>3 DEF Forget, m, i
  <2>3. row \in [Files -> Sums \cup {NoSum}]
    BY <1>3, <1>d, <1>q, <2>2 DEF Forget
  <2> QED  BY ZenonT(60), <1>3, <1>d, <2>1, <2>2, <2>3 DEF Forget, m
<1>4. CASE Begin(r)
  <2>1. i \in Places
    BY <1>4, <1>q DEF Begin
  <2>2. [m EXCEPT !.list = disk, !.known = sums[i]] \in Memory
    BY <1>m, <1>d, <2>1, MemoryUpdates
  <2>3. mem' \in [Runs -> Memory]
    BY <1>4, <2>2 DEF Begin, m, i
  <2>4. {<<i, f, disk[f]>> : f \in {g \in Files : disk[g] # NoFile}}
          \subseteq Places \X Files \X Contents
    BY <1>d, <2>1
  <2>5. claims' \in [Runs -> SUBSET (Places \X Files \X Contents)]
    <3>1. claims' = [claims EXCEPT ![r] = claims[r] \cup
            {<<i, f, disk[f]>> : f \in {g \in Files : disk[g] # NoFile}}]
      BY <1>4 DEF Begin, i
    <3> QED  BY <1>d, <2>4, <3>1
  <2> QED  BY <1>4, <2>3, <2>5 DEF Begin
<1>5. CASE NextFile(r)
  <2>1. claims' \in [Runs -> SUBSET (Places \X Files \X Contents)]
    <3>1. PICK S : claims' = [claims EXCEPT ![r] = claims[r] \ S]
      BY <1>5 DEF NextFile
    <3> QED  BY <1>d, <3>1
  <2>2. mem' \in [Runs -> Memory]
        /\ pc' \in [Runs -> Working \cup Ended \cup {"ready"}]
    <3> DEFINE wanted == Stale(m) \ Refused(m)
               skipped == {f \in Refused(m) : \A g \in wanted : f < g}
               sk == m.skipped \/ skipped # {}
    <3>1. sk \in BOOLEAN
      OBVIOUS
    <3>2. CASE /\ Remember(r, [m EXCEPT !.skipped = sk,
                                 !.list = Unlisted, !.known = Unknown])
               /\ Goto(r, "after")
      <4>1. [m EXCEPT !.skipped = sk, !.list = Unlisted, !.known = Unknown]
              \in Memory
        BY <1>m, <3>1, BlankFacts, MemoryUpdates
      <4> HIDE DEF sk
      <4> QED  BY <3>2, <4>1
    <3>3. ASSUME NEW f \in wanted, NEW body \in {m.list[f], disk[f]},
                 Remember(r, [m EXCEPT !.file = f, !.at = 1,
                   !.skipped = sk, !.body = body, !.found = {}, !.made = {}]),
                 \/ Goto(r, "look") \/ Goto(r, "exec")
          PROVE  mem' \in [Runs -> Memory]
                 /\ pc' \in [Runs -> Working \cup Ended \cup {"ready"}]
      <4>1. f \in Files
        BY DEF Stale
      <4>2. body \in Contents \cup {NoFile}
        BY <1>m, <1>d, <4>1
      <4>3. [m EXCEPT !.file = f, !.at = 1, !.skipped = sk, !.body = body,
               !.found = {}, !.made = {}] \in Memory
        BY <1>m, <3>1, <4>1, <4>2, MemoryUpdates
      <4> HIDE DEF sk
      <4> QED  BY <3>3, <4>3
    <3>4. \/ /\ Remember(r, [m EXCEPT !.skipped = sk,
                               !.list = Unlisted, !.known = Unknown])
             /\ Goto(r, "after")
          \/ \E f \in wanted :
               \E body \in {m.list[f], disk[f]} :
                 /\ Remember(r, [m EXCEPT !.file = f, !.at = 1,
                      !.skipped = sk, !.body = body, !.found = {}, !.made = {}])
                 /\ Goto(r, "look") \/ Goto(r, "exec")
      BY <1>5 DEF NextFile, m
    <3> QED  BY <3>2, <3>3, <3>4
  <2> QED  BY <1>5, <2>1, <2>2 DEF NextFile
<1>6. CASE Look(r)
  <2>1. PICK S \in SUBSET Accounts : mem' = [mem EXCEPT ![r] =
                                               [m EXCEPT !.found = S]]
    BY <1>6 DEF Look, Existing, m
  <2>2. [m EXCEPT !.found = S] \in Memory
    BY <1>m, MemoryUpdates
  <2> QED  BY <1>6, <2>1, <2>2 DEF Look
<1>7. CASE Execute(r)
  <2> DEFINE s == Script[m.body][m.at]
             old == accounts[i][s.on]
             new == Leaves(s.op, old, Password(r))
             made == IF s.op \in {"create", "replace"} /\ new # old
                     THEN m.made \cup {s.on} ELSE m.made
  <2>1. /\ s.on \in Accounts
        /\ accounts' \in [Places -> [Accounts -> Passwords]]
        /\ fate' \in [Places -> [Accounts -> {"open", "mailed", "lost"}]]
        /\ mem'[r] = [m EXCEPT !.at = m.at + 1, !.made = made]
        /\ mem' = [mem EXCEPT ![r] = mem'[r]]
    BY <1>7, ExecuteFacts DEF m, i
  <2> HIDE DEF s, old, new
  <2>2. made \in SUBSET Accounts
    <3>1. made \in {m.made \cup {s.on}, m.made}
      OBVIOUS
    <3> QED  BY <1>m, <2>1, <3>1
  <2> HIDE DEF made
  <2>3. m.at + 1 \in Nat
    BY <1>m
  <2>4. [m EXCEPT !.at = m.at + 1, !.made = made] \in Memory
    BY <1>m, <2>2, <2>3, MemoryUpdates
  <2>5. mem' \in [Runs -> Memory]
    BY ZenonT(60), <2>1, <2>4
  <2> QED  BY <1>7, <2>1, <2>5 DEF Execute
<1>8. CASE FileDone(r)
  <2>1. PICK lists \in BOOLEAN :
          /\ mem' = [mem EXCEPT ![r] = [m EXCEPT !.events = Recorded(r, lists)]]
          /\ IF Misaligned(m, lists)
             THEN Losing(r, i, OfFile(m.file)) ELSE UNCHANGED fate
    BY <1>8 DEF FileDone, m, i
  <2>2. Recorded(r, lists) \in [Accounts -> Event]
    BY <1>8, RecordedFacts DEF FileDone
  <2>3. [m EXCEPT !.events = Recorded(r, lists)] \in Memory
    BY <1>m, <2>2, MemoryUpdates
  <2>4. i \in Places /\ m.file \in Files /\ m.body \in Contents
    BY <1>8, <1>m, <1>q, <1>f DEF FileDone, m
  <2>5. fate' \in [Places -> [Accounts -> {"open", "mailed", "lost"}]]
    BY <2>1, <2>4, LosingFacts
  <2>6. ran' \in [Places -> [Files -> SUBSET Contents]]
    BY <1>8, <2>4 DEF FileDone, m, i
  <2>7. mem' \in [Runs -> Memory]
    BY <2>1, <2>3
  <2> QED  BY <1>8, <2>5, <2>6, <2>7 DEF FileDone
<1>9. CASE Record(r)
  <2>1. [m EXCEPT !.applied = TRUE, !.body = NoFile, !.found = {}, !.made = {}]
          \in Memory
    BY <1>m, MemoryUpdates
  <2> QED  BY <1>9, <1>s, <2>1 DEF Record, m
<1>10. CASE Copy(r)
  <2>1. PICK row :
          /\ row = [a \in Accounts |->
               IF accounts[i][a] \in Secrets /\ m.events[a].pw = accounts[i][a]
               THEN "mailed" ELSE fate[i][a]]
          /\ fate' = [fate EXCEPT ![i] = row]
    BY <1>10 DEF Copy, m, i
  <2>2. row \in [Accounts -> {"open", "mailed", "lost"}]
    BY <1>10, <1>q, <2>1 DEF Copy
  <2>3. fate' \in [Places -> [Accounts -> {"open", "mailed", "lost"}]]
    BY <2>1, <2>2
  <2>4. Name(r) \in Names /\ Email(r) \in Emails
    <3>1. mem[r].failure \in BOOLEAN
      BY MemoryFacts
    <3>2. <<r, mem[r].failure>> \in Runs \X BOOLEAN
      BY <3>1
    <3>3. Name(r) \in Places \cup {"notification"}
      BY <1>10, <1>q DEF Copy, Name, i
    <3> QED  BY <3>2, <3>3, InstanceAssumption DEF Email
  <2>5. copies' \in [Names -> Seq(Emails)]
    <3>1. PICK p \in 1..(Len(copies[Name(r)]) + 1) :
            copies' = [copies EXCEPT ![Name(r)] =
                         InsertAt(copies[Name(r)], p, Email(r))]
      BY <1>10 DEF Copy, WriteCopy
    <3>2. InsertAt(copies[Name(r)], p, Email(r)) \in Seq(Emails)
      BY <1>d, <2>4, KeepAssumption, InsertedIsOver
    <3> QED  BY <1>d, <2>4, <3>1, <3>2
  <2> QED  BY <1>10, <2>3, <2>5 DEF Copy, WriteCopy
<1>11. CASE Replace(r)
  <2>1. [m EXCEPT !.events = Quiet, !.bare = {}] \in Memory
    BY <1>m, MemoryUpdates
  <2> QED  BY <1>11, <2>1 DEF Replace, m
<1>12. CASE ReadCopies(r)
  <2>1. ToRemove(Name(r)) \in SUBSET Emails
    <3>1. Name(r) \in Names
      BY <1>12, <1>q, InstanceAssumption DEF ReadCopies, Name, i
    <3>2. OnDisk(Name(r)) \subseteq Emails
      BY <1>d, <3>1 DEF OnDisk, ToSet
    <3> QED  BY <3>2 DEF ToRemove, Beyond
  <2>2. [m EXCEPT !.victims = ToRemove(Name(r))] \in Memory
    BY <1>m, <2>1, MemoryUpdates
  <2>3. mem' \in [Runs -> Memory]
    BY <1>12, <2>2 DEF ReadCopies, m
  <2> QED  BY <1>12, <2>3 DEF ReadCopies
<1>13. CASE RemoveCopy(r)
  <2>1. PICK e \in m.victims :
          /\ Delete(Name(r), e)
          /\ mem' = [mem EXCEPT ![r] = [m EXCEPT !.victims = m.victims \ {e}]]
    BY <1>13 DEF RemoveCopy, m
  <2>2. [m EXCEPT !.victims = m.victims \ {e}] \in Memory
    BY <1>m, MemoryUpdates
  <2>3. removed' \in [Names -> SUBSET Emails]
    BY <1>m, <1>d, <2>1 DEF Delete
  <2> QED  BY <1>13, <2>1, <2>2, <2>3 DEF RemoveCopy, Delete
<1>14. CASE NextInstance(r)
  <2>1. [Afresh(r) EXCEPT !.queue = Tail(m.queue)] \in Memory
    BY <1>14, <1>m, <1>q, BlankUpdates DEF NextInstance, Afresh, m
  <2>2. mem' \in [Runs -> Memory]
    BY <1>14, <1>k, <2>1 DEF NextInstance, m
  <2>3. claims' \in [Runs -> SUBSET (Places \X Files \X Contents)]
        /\ pc' \in [Runs -> Working \cup Ended \cup {"ready"}]
    BY <1>14, <1>d DEF NextInstance
  <2> QED  BY <1>14, <2>2, <2>3 DEF NextInstance
<1>15. CASE VerifyNext(r)
  <2> DEFINE list == IF m.file = 0 THEN disk ELSE m.list
  <2>1. /\ list \in [Files -> Contents \cup {NoFile}]
        /\ \A f \in Files : list[f] \in Contents \cup {NoFile}
    BY <1>m, <1>d
  <2>2. \A f \in Files : [m EXCEPT !.list = list, !.file = f, !.at = 1,
                             !.pass = 1, !.body = list[f]] \in Memory
    BY <1>m, <2>1, MemoryUpdates
  <2>3. \/ Remember(r, Blank) /\ claims' = [claims EXCEPT ![r] = {}]
           /\ \E l \in Ended : Goto(r, l)
        \/ \E f \in Files :
             /\ Remember(r, [m EXCEPT !.list = list, !.file = f, !.at = 1,
                                      !.pass = 1, !.body = list[f]])
             /\ Goto(r, "exec") /\ UNCHANGED claims
    BY <1>15 DEF VerifyNext, m
  <2> HIDE DEF list
  <2>4. mem' \in [Runs -> Memory]
    <3>1. CASE Remember(r, Blank)
      BY <1>k, <3>1
    <3>2. ASSUME NEW f \in Files,
                 Remember(r, [m EXCEPT !.list = list, !.file = f, !.at = 1,
                                       !.pass = 1, !.body = list[f]])
          PROVE  mem' \in [Runs -> Memory]
      BY <2>2, <3>2
    <3> QED  BY <2>3, <3>1, <3>2
  <2>5. claims' \in [Runs -> SUBSET (Places \X Files \X Contents)]
        /\ pc' \in [Runs -> Working \cup Ended \cup {"ready"}]
    BY <1>d, <2>3
  <2> QED  BY <1>15, <2>4, <2>5 DEF VerifyNext
<1>16. CASE FileFails(r)
  <2>1. [m EXCEPT !.error = TRUE, !.body = NoFile, !.found = {},
               !.made = {}, !.list = Unlisted, !.known = Unknown] \in Memory
    BY <1>m, MemoryUpdates
  <2>2. mem' \in [Runs -> Memory]
    BY <1>16, <2>1 DEF FileFails, m
  <2>3. fate' \in [Places -> [Accounts -> {"open", "mailed", "lost"}]]
    BY <1>16, <1>q, LosingFacts DEF FileFails, i
  <2>4. sums' \in [Places -> [Files -> Sums \cup {NoSum}]]
    BY <1>16, <1>s, <1>d DEF FileFails
  <2> QED  BY <1>16, <2>2, <2>3, <2>4 DEF FileFails
<1>17. CASE VerifyFails(r)
  <2>1. [m EXCEPT !.bad = TRUE, !.before = {}, !.body = NoFile] \in Memory
    BY <1>m, MemoryUpdates
  <2> QED  BY <1>17, <2>1 DEF VerifyFails, m
<1>18. CASE Captures(r)
  <2>1. PICK seen \in SUBSET Accounts :
          CaptureBefore(r, seen) \/ After(r, seen) \/ VerifyCapture(r, seen)
    BY <1>18 DEF Captures
  <2>2. CASE CaptureBefore(r, seen)
    <3>1. [m EXCEPT !.before = seen] \in Memory
      BY <1>m, MemoryUpdates
    <3> QED  BY <2>2, <3>1 DEF CaptureBefore, m
  <2>3. CASE After(r, seen)
    <3>1. Bare(m, seen) \in SUBSET Accounts /\ (m.bad \/ m.error) \in BOOLEAN
      BY DEF Bare
    <3>2. [m EXCEPT !.bad = m.bad \/ m.error, !.before = {},
                    !.bare = Bare(m, seen)] \in Memory
      BY <1>m, <3>1, MemoryUpdates
    <3>3. mem' = [mem EXCEPT ![r] =
            [m EXCEPT !.bad = m.bad \/ m.error, !.before = {},
                      !.bare = Bare(m, seen)]]
      BY <2>3 DEF After, m
    <3>4. pc' \in [Runs -> Working \cup Ended \cup {"ready"}]
      BY <2>3 DEF After
    <3>5. mem' \in [Runs -> Memory]
      BY <3>2, <3>3
    <3> QED  BY <2>3, <3>4, <3>5 DEF After
  <2>4. CASE VerifyCapture(r, seen)
    <3>1. [m EXCEPT !.before = seen, !.pass = 2, !.at = 1] \in Memory
      BY <1>m, MemoryUpdates
    <3>2. [m EXCEPT !.bad = m.bad \/ seen # m.before, !.before = {},
                    !.body = NoFile] \in Memory
      <4>1. (m.bad \/ seen # m.before) \in BOOLEAN
        OBVIOUS
      <4> QED  BY <1>m, <4>1, MemoryUpdates
    <3>3. \/ /\ mem' = [mem EXCEPT ![r] =
                  [m EXCEPT !.before = seen, !.pass = 2, !.at = 1]]
             /\ UNCHANGED pc
          \/ /\ mem' = [mem EXCEPT ![r] =
                  [m EXCEPT !.bad = m.bad \/ seen # m.before, !.before = {},
                            !.body = NoFile]]
             /\ Goto(r, "verify")
      BY <2>4 DEF VerifyCapture, m
    <3>4. mem' \in [Runs -> Memory]
      BY <3>1, <3>2, <3>3
    <3>5. pc' \in [Runs -> Working \cup Ended \cup {"ready"}]
      BY <3>3
    <3> QED  BY <2>4, <3>4, <3>5 DEF VerifyCapture
  <2> QED  BY <2>1, <2>2, <2>3, <2>4
<1>19. CASE Fails(r)
  <2>1. Active(r) /\ Throw(r)
    BY <1>19 DEF Fails
  <2>2. fate' \in [Places -> [Accounts -> {"open", "mailed", "lost"}]]
    BY <2>1, ThrowFacts, LosingFacts
  <2>3. /\ mem' \in [Runs -> Memory]
        /\ pc' \in [Runs -> Working \cup Ended \cup {"ready"}]
        /\ claims' \in [Runs -> SUBSET (Places \X Files \X Contents)]
    BY <2>1, ThrowFacts
  <2> QED  BY <1>19, <2>2, <2>3 DEF Fails
<1>20. CASE SaveFails(r)
  <2>1. CASE mem[r].failure
    BY <1>20, <1>k, <2>1 DEF SaveFails
  <2>2. CASE ~mem[r].failure
    <3>1. Active(r) /\ Throw(r)
      BY <1>20, <2>2 DEF SaveFails
    <3>2. fate' \in [Places -> [Accounts -> {"open", "mailed", "lost"}]]
      BY <3>1, ThrowFacts, LosingFacts
    <3>3. /\ mem' \in [Runs -> Memory]
          /\ pc' \in [Runs -> Working \cup Ended \cup {"ready"}]
          /\ claims' \in [Runs -> SUBSET (Places \X Files \X Contents)]
      BY <3>1, ThrowFacts
    <3> QED  BY <1>20, <3>2, <3>3 DEF SaveFails
  <2> QED  BY <2>1, <2>2
<1>21. CASE CleanupFails(r)
  <2>1. [m EXCEPT !.victims = {}] \in Memory
    BY <1>m, MemoryUpdates
  <2> QED  BY <1>21, <2>1 DEF CleanupFails, m
<1>22. CASE SummaryFails(r)
  BY <1>22, <1>k DEF SummaryFails
<1>23. CASE Crash(r)
  <2>1. Active(r) /\ i \in Places
    BY <1>23, <1>q DEF Crash
  <2>2. fate' \in [Places -> [Accounts -> {"open", "mailed", "lost"}]]
    BY <1>23, <2>1, LosingFacts DEF Crash, i
  <2> QED  BY <1>23, <1>k, <2>2 DEF Crash
<1> QED
  BY <1>1, <1>2, <1>3, <1>4, <1>5, <1>6, <1>7, <1>8, <1>9, <1>10, <1>11,
     <1>12, <1>13, <1>14, <1>15, <1>16, <1>17, <1>18, <1>19, <1>20, <1>21,
     <1>22, <1>23
  DEF Moves

(* A step of one run leaves the memory of the others alone.                *)
LEMMA MoveIsLocal ==
  ASSUME TypeOK, NEW r \in Runs, Moves(r), NEW q \in Runs, q # r
  PROVE  pc'[q] = pc[q] /\ mem'[q] = mem[q] /\ claims'[q] = claims[q]
<1>1. /\ pc \in [Runs -> Working \cup Ended \cup {"ready"}]
      /\ mem \in [Runs -> Memory]
      /\ claims \in [Runs -> SUBSET (Places \X Files \X Contents)]
  BY DEF TypeOK
<1> USE DEF Exit, Goto, Remember, history
<1>2. CASE Start(r) \/ Gate(r) \/ Forget(r) \/ Begin(r)
  BY <1>1, <1>2 DEF Start, Gate, Forget, Begin
<1>3. CASE NextFile(r)
  BY <1>1, <1>3 DEF NextFile
<1>4. CASE Look(r) \/ FileDone(r) \/ Record(r) \/ Copy(r) \/ Replace(r)
  BY <1>1, <1>4 DEF Look, FileDone, Record, Copy, Replace
<1>5. CASE Execute(r)
  BY <1>1, <1>5 DEF Execute
<1>6. CASE ReadCopies(r) \/ RemoveCopy(r) \/ NextInstance(r)
  BY <1>1, <1>6 DEF ReadCopies, RemoveCopy, NextInstance
<1>7. CASE VerifyNext(r)
  BY <1>1, <1>7 DEF VerifyNext
<1>8. CASE FileFails(r) \/ VerifyFails(r) \/ CleanupFails(r)
           \/ SummaryFails(r) \/ Crash(r)
  BY <1>1, <1>8 DEF FileFails, VerifyFails, CleanupFails, SummaryFails, Crash
<1>9. CASE Fails(r)
  BY <1>1, <1>9 DEF Fails, Throw
<1>10. CASE SaveFails(r)
  BY <1>1, <1>10 DEF SaveFails, Throw
<1>11. CASE Captures(r)
  <2>1. PICK seen \in SUBSET Accounts :
          CaptureBefore(r, seen) \/ After(r, seen) \/ VerifyCapture(r, seen)
    BY <1>11 DEF Captures
  <2>2. CASE CaptureBefore(r, seen)
    BY <1>1, <2>2 DEF CaptureBefore
  <2>3. CASE After(r, seen)
    BY <1>1, <2>3 DEF After
  <2>4. CASE VerifyCapture(r, seen)
    BY <1>1, <2>4 DEF VerifyCapture
  <2> QED  BY <2>1, <2>2, <2>3, <2>4
<1> QED
  BY <1>2, <1>3, <1>4, <1>5, <1>6, <1>7, <1>8, <1>9, <1>10, <1>11 DEF Moves

(* The next file that differs, or none.                                    *)
LEMMA NextFileFacts ==
  ASSUME TypeOK, NEW r \in Runs, NextFile(r)
  PROVE  LET m == mem[r]
             gen(f) == Generates(m.list[f])
             wanted == Stale(m) \ Refused(m)
             skips == {f \in Refused(m) : \A g \in wanted : f < g}
         IN  /\ pc[r] = "file"
             /\ claims' = [claims EXCEPT ![r] =
                  claims[r] \ {<<Here(r), f, m.list[f]>> : f \in skips}]
             /\ \/ /\ pc'[r] = "after" /\ wanted = {}
                   /\ mem'[r] = [m EXCEPT !.skipped = m.skipped \/ skips # {},
                                   !.list = Unlisted, !.known = Unknown]
                \/ \E f \in wanted :
                     /\ \A g \in wanted : f <= g
                     /\ mem'[r] = [m EXCEPT !.file = f, !.at = 1,
                          !.skipped = m.skipped \/ skips # {},
                          !.body = IF Kind[Here(r)] = "maria" \/ gen(f)
                                   THEN m.list[f] ELSE disk[f],
                          !.found = {}, !.made = {}]
                     /\ pc'[r] = IF Kind[Here(r)] = "maria" /\ gen(f)
                                 THEN "look" ELSE "exec"
<1>1. /\ pc \in [Runs -> Working \cup Ended \cup {"ready"}]
      /\ mem \in [Runs -> Memory]
  BY DEF TypeOK
<1> QED  BY <1>1 DEF NextFile, Goto, Remember

LEMMA NextFileKeeps ==
  ASSUME TypeOK, NEW r \in Runs, NextFile(r)
  PROVE  LET m == mem[r]
             n == mem'[r]
         IN  /\ n.cmd = m.cmd /\ n.queue = m.queue /\ n.pass = m.pass
             /\ n.validate = m.validate /\ n.before = m.before
             /\ n.events = m.events /\ n.applied = m.applied
             /\ n.error = m.error /\ n.bad = m.bad /\ n.failure = m.failure
             /\ pc'[r] = "after" => n.file = m.file
             /\ pc'[r] # "after" =>
                  /\ n.list = m.list /\ n.known = m.known
                  /\ n.at = 1 /\ n.found = {} /\ n.made = {}
                  /\ n.file \in Stale(m) \ Refused(m)
                  /\ pc'[r] = IF /\ Kind[Here(r)] = "maria"
                                 /\ Generates(m.list[n.file])
                              THEN "look" ELSE "exec"
<1> DEFINE m == mem[r]
           wanted == Stale(m) \ Refused(m)
           skips == {f \in Refused(m) : \A g \in wanted : f < g}
<1>1. m \in Memory
  BY DEF TypeOK
<1>2. PICK x : x = (m.skipped \/ skips # {})
  OBVIOUS
<1> DEFINE n == mem'[r]
<1> HIDE DEF skips, wanted
<1>3. ASSUME mem'[r] = [m EXCEPT !.skipped = x, !.list = Unlisted,
                                 !.known = Unknown]
      PROVE  /\ n.cmd = m.cmd /\ n.queue = m.queue /\ n.pass = m.pass
             /\ n.validate = m.validate /\ n.before = m.before
             /\ n.events = m.events /\ n.applied = m.applied
             /\ n.error = m.error /\ n.bad = m.bad /\ n.failure = m.failure
             /\ n.file = m.file
  BY <1>1, <1>3 DEF Memory
<1>4. ASSUME NEW f \in wanted, NEW b,
             mem'[r] = [m EXCEPT !.file = f, !.at = 1, !.skipped = x,
                          !.body = b, !.found = {}, !.made = {}],
             pc'[r] = IF Kind[Here(r)] = "maria" /\ Generates(m.list[f])
                      THEN "look" ELSE "exec"
      PROVE  /\ pc'[r] # "after"
             /\ pc'[r] = IF /\ Kind[Here(r)] = "maria"
                            /\ Generates(m.list[n.file])
                         THEN "look" ELSE "exec"
             /\ n.cmd = m.cmd /\ n.queue = m.queue /\ n.pass = m.pass
             /\ n.validate = m.validate /\ n.before = m.before
             /\ n.events = m.events /\ n.applied = m.applied
             /\ n.error = m.error /\ n.bad = m.bad /\ n.failure = m.failure
             /\ n.list = m.list /\ n.known = m.known
             /\ n.at = 1 /\ n.found = {} /\ n.made = {}
             /\ n.file \in wanted
  <2>1. /\ n.cmd = m.cmd /\ n.queue = m.queue /\ n.pass = m.pass
        /\ n.validate = m.validate /\ n.before = m.before
        /\ n.events = m.events /\ n.applied = m.applied
        /\ n.error = m.error /\ n.bad = m.bad /\ n.failure = m.failure
        /\ n.list = m.list /\ n.known = m.known
        /\ n.at = 1 /\ n.found = {} /\ n.made = {}
        /\ n.file = f
    BY <1>1, <1>4 DEF Memory
  <2>2. pc'[r] # "after"
    BY <1>4
  <2> HIDE DEF n, m
  <2> QED  BY <1>4, <2>1, <2>2
<1>5. \/ /\ pc'[r] = "after"
         /\ mem'[r] = [m EXCEPT !.skipped = x,
                         !.list = Unlisted, !.known = Unknown]
      \/ \E f \in wanted :
           /\ \E b : mem'[r] = [m EXCEPT !.file = f, !.at = 1,
                !.skipped = x, !.body = b, !.found = {}, !.made = {}]
           /\ pc'[r] = IF Kind[Here(r)] = "maria" /\ Generates(m.list[f])
                       THEN "look" ELSE "exec"
  BY ZenonT(60), <1>2, NextFileFacts DEF wanted, skips
<1>6. CASE \E f \in wanted :
           /\ \E b : mem'[r] = [m EXCEPT !.file = f, !.at = 1,
                !.skipped = x, !.body = b, !.found = {}, !.made = {}]
           /\ pc'[r] = IF Kind[Here(r)] = "maria" /\ Generates(m.list[f])
                       THEN "look" ELSE "exec"
  <2> HIDE DEF n, m
  <2> QED  BY <1>4, <1>6 DEF wanted, n, m
<1>7. CASE /\ pc'[r] = "after"
           /\ mem'[r] = [m EXCEPT !.skipped = x,
                           !.list = Unlisted, !.known = Unknown]
  <2> QED  BY <1>3, <1>7
<1> QED  BY <1>5, <1>6, <1>7

LEMMA HandMove ==
  ASSUME TypeOK, Hands, NEW r \in Runs, Moves(r)
  PROVE  HandOf(r)'
<1> DEFINE m == mem[r]
<1>t. /\ pc \in [Runs -> Working \cup Ended \cup {"ready"}]
      /\ mem \in [Runs -> Memory] /\ m \in Memory
      /\ m.queue \in Seq(Places)
      /\ m.list \in [Files -> Contents \cup {NoFile}]
      /\ disk \in [Files -> Contents \cup {NoFile}]
      /\ TypeOK
  BY MemoryFacts DEF TypeOK
<1>h. HandOf(r)
  BY DEF Hands
<1>b. /\ Blank.cmd # "dcl:verify" /\ Blank.pass = 0
  BY DEF Blank
<1>n. NoFile \notin Contents
  BY ConstantFacts
<1> HIDE DEF m
<1> USE DEF Exit, Goto, Remember, Working, Ended, Active
(* The run stays with the instance, and has no file in hand.               *)
<1>s. ASSUME m.queue # <<>>, m.cmd # "dcl:verify",
             mem'[r].queue = m.queue, mem'[r].cmd = m.cmd,
             mem'[r].pass = m.pass,
             pc'[r] \in Working \ {"verify", "look", "exec", "sum"}
      PROVE  HandOf(r)'
  BY <1>h, <1>s DEF HandOf, m
<1>e. ASSUME mem'[r] = Blank, pc'[r] \in Ended
      PROVE  HandOf(r)'
  BY <1>e, <1>b DEF HandOf
<1>a. /\ Active(r) => m.queue # <<>>
      /\ Active(r) /\ pc[r] \notin {"verify", "exec"} => m.cmd # "dcl:verify"
      /\ m.cmd # "dcl:verify" => m.pass = 0
  BY <1>h DEF HandOf, m
<1>w. ASSUME Active(r), Throw(r)
      PROVE  HandOf(r)'
  <2>1. CASE m.cmd = "dcl:verify"
    BY <1>t, <1>w, <1>e, <2>1 DEF Throw, m
  <2>2. CASE m.cmd # "dcl:verify"
    <3>1. /\ mem'[r] = [Afresh(r) EXCEPT !.bad = TRUE,
                          !.failure = (m.cmd = "dcl")]
          /\ pc'[r] \in {"copy", "next"}
      BY <1>t, <1>w, <2>2 DEF Throw, m
    <3>2. mem'[r].queue = m.queue /\ mem'[r].cmd = m.cmd /\ mem'[r].pass = 0
      BY <3>1 DEF Afresh, Blank, m
    <3> QED  BY <1>a, <1>w, <1>s, <2>2, <3>1, <3>2
  <2> QED  BY <2>1, <2>2
<1>1. CASE Start(r)
  <2>1. PICK c \in Commands[policy], v \in BOOLEAN, j \in Places :
          /\ Remember(r, [Blank EXCEPT !.cmd = c, !.validate = v,
                !.queue = IF c = "dcl-all" THEN Instances ELSE <<j>>])
          /\ Goto(r, IF c = "dcl:verify" THEN "verify" ELSE "gate")
    BY <1>1 DEF Start
  <2>0. /\ mem'[r] = [Blank EXCEPT !.cmd = c, !.validate = v,
                !.queue = IF c = "dcl-all" THEN Instances ELSE <<j>>]
        /\ pc'[r] = IF c = "dcl:verify" THEN "verify" ELSE "gate"
    BY <2>1, <1>t
  <2>2. /\ mem'[r].cmd = c /\ mem'[r].pass = 0
        /\ mem'[r].queue = IF c = "dcl-all" THEN Instances ELSE <<j>>
    BY <2>0 DEF Blank
  <2>3. Instances # <<>>
    BY DEF Places, ToSet
  <2>4. mem'[r].queue # <<>>
    BY <2>2, <2>3
  <2> QED  BY <2>0, <2>2, <2>4 DEF HandOf
<1>2. CASE Gate(r) \/ Forget(r) \/ Begin(r) \/ Record(r) \/ Copy(r)
           \/ Replace(r) \/ FileFails(r) \/ CleanupFails(r)
  <2>1. m.queue # <<>> /\ m.cmd # "dcl:verify"
    BY <1>2, <1>a DEF Gate, Forget, Begin, Record, Copy, Replace, FileFails,
                      CleanupFails, m
  <2>2. /\ mem'[r].queue = m.queue /\ mem'[r].cmd = m.cmd
        /\ mem'[r].pass = m.pass
    <3>1. CASE Gate(r) \/ Forget(r)
      <4>1. PICK x : mem'[r] = [m EXCEPT !.orphans = x]
        BY <3>1, <1>t DEF Gate, Forget, m
      <4> QED  BY <4>1, <1>t DEF Memory
    <3>2. CASE Begin(r)
      <4>1. PICK x, y : mem'[r] = [m EXCEPT !.list = x, !.known = y]
        BY <3>2, <1>t DEF Begin, m
      <4> QED  BY <4>1, <1>t DEF Memory
    <3>4. CASE Record(r)
      <4>1. mem'[r] = [m EXCEPT !.applied = TRUE, !.body = NoFile,
                                !.found = {}, !.made = {}]
        BY <3>4, <1>t DEF Record, m
      <4> QED  BY <4>1, <1>t DEF Memory
    <3>5. CASE Copy(r)
      BY <3>5 DEF Copy, m
    <3>6. CASE Replace(r)
      <4>1. mem'[r] = [m EXCEPT !.events = Quiet, !.bare = {}]
        BY <3>6, <1>t DEF Replace, m
      <4> QED  BY <4>1, <1>t DEF Memory
    <3>7. CASE CleanupFails(r)
      <4>1. mem'[r] = [m EXCEPT !.victims = {}]
        BY <3>7, <1>t DEF CleanupFails, m
      <4> QED  BY <4>1, <1>t DEF Memory
    <3>3. CASE FileFails(r)
      <4>1. mem'[r] = [m EXCEPT !.error = TRUE, !.body = NoFile, !.found = {},
                 !.made = {}, !.list = Unlisted, !.known = Unknown]
        BY <3>3, <1>t DEF FileFails, m
      <4> QED  BY <4>1, <1>t DEF Memory
    <3> QED  BY <1>2, <3>1, <3>2, <3>3, <3>4, <3>5, <3>6, <3>7
  <2>3. pc'[r] \in Working \ {"verify", "look", "exec", "sum"}
    <3>1. CASE Gate(r) \/ Forget(r) \/ Begin(r) \/ Record(r)
      BY <3>1, <1>t DEF Gate, Forget, Begin, Record
    <3>2. CASE Copy(r) \/ Replace(r) \/ FileFails(r) \/ CleanupFails(r)
      BY <3>2, <1>t DEF Copy, Replace, FileFails, CleanupFails
    <3> QED  BY <1>2, <3>1, <3>2
  <2> QED  BY <1>s, <2>1, <2>2, <2>3
<1>3. CASE ReadCopies(r) \/ RemoveCopy(r)
  <2>1. m.queue # <<>> /\ m.cmd # "dcl:verify"
    BY <1>3, <1>a DEF ReadCopies, RemoveCopy, m
  <2>2. /\ mem'[r].queue = m.queue /\ mem'[r].cmd = m.cmd
        /\ mem'[r].pass = m.pass
    BY <1>3, <1>t DEF ReadCopies, RemoveCopy, m, Memory
  <2>3. pc'[r] \in Working \ {"verify", "look", "exec", "sum"}
    BY <1>3, <1>t DEF ReadCopies, RemoveCopy
  <2> QED  BY <1>s, <2>1, <2>2, <2>3
<1>4. CASE NextFile(r)
  <2>1. m.queue # <<>> /\ m.cmd # "dcl:verify" /\ m.pass = 0
    BY <1>4, <1>a DEF NextFile, m
  <2> DEFINE sk == {f \in Refused(m) :
                      \A g \in Stale(m) \ Refused(m) : f < g}
             gen(f) == Generates(m.list[f])
             body(f) == IF Kind[Here(r)] = "maria" \/ gen(f) THEN m.list[f]
                        ELSE disk[f]
  <2>2. \/ /\ pc'[r] = "after"
           /\ mem'[r] = [m EXCEPT !.skipped = m.skipped \/ sk # {},
                                  !.list = Unlisted, !.known = Unknown]
        \/ \E f \in Stale(m) :
             /\ mem'[r] = [m EXCEPT !.file = f, !.at = 1,
                  !.skipped = m.skipped \/ sk # {}, !.body = body(f),
                  !.found = {}, !.made = {}]
             /\ pc'[r] = IF Kind[Here(r)] = "maria" /\ gen(f)
                         THEN "look" ELSE "exec"
    BY <1>4, <1>t, NextFileFacts DEF m
  <2>s. PICK skips : skips = (m.skipped \/ sk # {})
    OBVIOUS
  <2> HIDE DEF sk, gen, body
  <2>3. CASE /\ pc'[r] = "after"
             /\ mem'[r] = [m EXCEPT !.skipped = skips,
                                    !.list = Unlisted, !.known = Unknown]
    <3>1. /\ mem'[r].queue = m.queue /\ mem'[r].cmd = m.cmd
          /\ mem'[r].pass = m.pass
      BY <2>3, <1>t DEF Memory
    <3> QED  BY <1>s, <2>1, <2>3, <3>1
  <2>4. ASSUME NEW f \in Stale(m),
               mem'[r] = [m EXCEPT !.file = f, !.at = 1, !.skipped = skips,
                            !.body = body(f), !.found = {}, !.made = {}],
               pc'[r] = IF Kind[Here(r)] = "maria" /\ gen(f)
                        THEN "look" ELSE "exec"
        PROVE  HandOf(r)'
    <3>0. /\ mem'[r].file = f /\ mem'[r].list = m.list
          /\ mem'[r].queue = m.queue /\ mem'[r].cmd = m.cmd
          /\ mem'[r].pass = m.pass /\ mem'[r].at = 1
          /\ mem'[r].body = body(f)
      BY <2>4, <1>t DEF Memory
    <3>1. f \in Files /\ m.list[f] \in Contents
      BY <1>t DEF Stale
    <3>2. Source(mem'[r]) = m.list[f]
      BY <3>0 DEF Source
    <3>3. Here(r)' = Here(r)
      BY <3>0 DEF Here, m
    <3>4. pc'[r] = "look" => Kind[Here(r)'] = "maria"
      BY <2>4, <3>3
    <3>5. mem'[r].body = Source(mem'[r]) \/ ~Generates(Source(mem'[r]))
      BY <3>0, <3>2 DEF body, gen
    <3>6. pc'[r] \in {"look", "exec"}
      BY <2>4
    <3> QED  BY <2>1, <3>0, <3>1, <3>2, <3>4, <3>5, <3>6 DEF HandOf
  <2> QED  BY <2>2, <2>s, <2>3, <2>4
<1>5. CASE Look(r)
  <2>1. /\ pc'[r] = "exec" /\ mem'[r].queue = m.queue /\ mem'[r].cmd = m.cmd
        /\ mem'[r].file = m.file /\ mem'[r].list = m.list
        /\ mem'[r].body = m.body /\ mem'[r].at = m.at
        /\ mem'[r].pass = m.pass /\ pc[r] = "look"
    BY <1>5, <1>t DEF Look, m, Memory
  <2> QED  BY <1>h, <2>1 DEF HandOf, m, Source
<1>6. CASE Execute(r)
  <2>1. /\ pc'[r] = "exec" /\ mem'[r].queue = m.queue /\ mem'[r].cmd = m.cmd
        /\ mem'[r].file = m.file /\ mem'[r].list = m.list
        /\ mem'[r].body = m.body /\ mem'[r].at = m.at + 1
        /\ mem'[r].pass = m.pass /\ pc[r] = "exec" /\ m.at \in Nat
    <3>1. PICK x : mem'[r] = [m EXCEPT !.at = m.at + 1, !.made = x]
      BY <1>6, <1>t DEF Execute, m
    <3>2. pc'[r] = "exec" /\ pc[r] = "exec"
      BY <1>6, <1>t DEF Execute
    <3> QED  BY <3>1, <3>2, <1>t DEF Memory
  <2> QED  BY <1>h, <2>1 DEF HandOf, m, Source
<1>7. CASE FileDone(r)
  <2>1. /\ pc'[r] = "sum" /\ mem'[r].queue = m.queue /\ mem'[r].cmd = m.cmd
        /\ mem'[r].file = m.file /\ mem'[r].list = m.list
        /\ mem'[r].pass = m.pass /\ pc[r] = "exec" /\ m.cmd # "dcl:verify"
    <3>1. PICK x : mem'[r] = [m EXCEPT !.events = x]
      BY <1>7, <1>t DEF FileDone, m
    <3> QED  BY <1>7, <1>t, <3>1 DEF FileDone, m, Memory
  <2> QED  BY <1>h, <2>1 DEF HandOf, m
<1>8. CASE NextInstance(r)
  <2>1. CASE Tail(m.queue) # <<>>
    <3>1. /\ mem'[r] = [Afresh(r) EXCEPT !.queue = Tail(m.queue)]
          /\ pc'[r] = "gate"
      BY <1>8, <1>t, <2>1 DEF NextInstance, m
    <3>2. /\ mem'[r].queue = Tail(m.queue) /\ mem'[r].cmd = m.cmd
          /\ mem'[r].pass = 0 /\ m.cmd # "dcl:verify"
      BY <1>8, <1>a, <3>1 DEF NextInstance, Afresh, Blank, m
    <3> QED  BY <2>1, <3>1, <3>2 DEF HandOf
  <2>2. CASE Tail(m.queue) = <<>>
    <3>1. mem'[r] = Blank /\ pc'[r] \in Ended
      BY <1>8, <1>t, <2>2 DEF NextInstance, m
    <3> QED  BY <1>e, <3>1
  <2> QED  BY <2>1, <2>2
<1>9. CASE VerifyNext(r)
  <2> DEFINE list == IF m.file = 0 THEN disk ELSE m.list
  <2>1. \/ mem'[r] = Blank /\ pc'[r] \in Ended
        \/ \E f \in Files :
             /\ list[f] # NoFile
             /\ mem'[r] = [m EXCEPT !.list = list, !.file = f, !.at = 1,
                                    !.pass = 1, !.body = list[f]]
             /\ pc'[r] = "exec"
    BY <1>9, <1>t DEF VerifyNext, m
  <2>2. list \in [Files -> Contents \cup {NoFile}]
    BY <1>t
  <2> HIDE DEF list
  <2>3. ASSUME NEW f \in Files, list[f] # NoFile,
               mem'[r] = [m EXCEPT !.list = list, !.file = f, !.at = 1,
                                   !.pass = 1, !.body = list[f]],
               pc'[r] = "exec"
        PROVE  HandOf(r)'
    <3>1. /\ mem'[r].list = list /\ mem'[r].file = f /\ mem'[r].at = 1
          /\ mem'[r].body = list[f] /\ mem'[r].queue = m.queue
          /\ mem'[r].cmd = m.cmd
      BY <2>3, <1>t DEF Memory
    <3>2. m.cmd = "dcl:verify" /\ m.queue # <<>>
      BY <1>9, <1>h, <1>a DEF VerifyNext, HandOf, m
    <3> QED  BY <2>2, <2>3, <3>1, <3>2 DEF HandOf, Source
  <2> QED  BY <1>e, <2>1, <2>3
<1>10. CASE VerifyFails(r)
  <2>1. /\ pc'[r] = "verify" /\ mem'[r].queue = m.queue
        /\ mem'[r].cmd = m.cmd /\ m.cmd = "dcl:verify" /\ m.queue # <<>>
    BY <1>10, <1>t, <1>a DEF VerifyFails, m, Memory
  <2> QED  BY <2>1 DEF HandOf
<1>11. CASE Captures(r)
  <2>1. PICK seen \in SUBSET Accounts :
          CaptureBefore(r, seen) \/ After(r, seen) \/ VerifyCapture(r, seen)
    BY <1>11 DEF Captures
  <2>2. CASE CaptureBefore(r, seen)
    <3>1. /\ m.queue # <<>> /\ m.cmd # "dcl:verify"
          /\ mem'[r].queue = m.queue /\ mem'[r].cmd = m.cmd
          /\ mem'[r].pass = m.pass /\ pc'[r] = "begin"
      BY <2>2, <1>t, <1>a DEF CaptureBefore, m, Memory
    <3> QED  BY <1>s, <3>1
  <2>3. CASE After(r, seen)
    <3>1. m.queue # <<>> /\ m.cmd # "dcl:verify"
      BY <2>3, <1>a DEF After, m
    <3>2. PICK x, y : mem'[r] = [m EXCEPT !.bad = x, !.before = {}, !.bare = y]
      BY <2>3, <1>t DEF After, m
    <3>3. pc'[r] \in {"copy", "next"}
      BY <2>3, <1>t DEF After
    <3>4. /\ mem'[r].queue = m.queue /\ mem'[r].cmd = m.cmd
          /\ mem'[r].pass = m.pass
      BY <3>2, <1>t DEF Memory
    <3> QED  BY <1>s, <3>1, <3>3, <3>4
  <2>4. CASE VerifyCapture(r, seen)
    <3>1. /\ pc[r] = "exec" /\ m.cmd = "dcl:verify" /\ m.queue # <<>>
      BY <2>4, <1>a DEF VerifyCapture, m
    <3>2. \/ /\ mem'[r] = [m EXCEPT !.before = seen, !.pass = 2, !.at = 1]
             /\ pc'[r] = "exec"
          \/ /\ \E x : mem'[r] = [m EXCEPT !.bad = x,
                                  !.before = {}, !.body = NoFile]
             /\ pc'[r] = "verify"
      BY ZenonT(60), <2>4, <1>t DEF VerifyCapture, m
    <3>3. CASE /\ mem'[r] = [m EXCEPT !.before = seen, !.pass = 2, !.at = 1]
               /\ pc'[r] = "exec"
      <4>1. /\ mem'[r].queue = m.queue /\ mem'[r].cmd = m.cmd
            /\ mem'[r].file = m.file /\ mem'[r].list = m.list
            /\ mem'[r].body = m.body /\ mem'[r].at = 1
        BY <3>3, <1>t DEF Memory
      <4> QED  BY <1>h, <3>1, <3>3, <4>1 DEF HandOf, m, Source
    <3>4. ASSUME NEW x, pc'[r] = "verify",
                 mem'[r] = [m EXCEPT !.bad = x, !.before = {}, !.body = NoFile]
          PROVE  HandOf(r)'
      <4>1. mem'[r].queue = m.queue /\ mem'[r].cmd = m.cmd
        BY <3>4, <1>t DEF Memory
      <4> QED  BY <3>1, <3>4, <4>1 DEF HandOf
    <3> QED  BY <3>2, <3>3, <3>4
  <2> QED  BY <2>1, <2>2, <2>3, <2>4
<1>12. CASE Fails(r)
  BY <1>12, <1>w DEF Fails
<1>13. CASE SaveFails(r)
  <2>1. CASE mem[r].failure
    BY <1>13, <1>t, <1>e, <2>1 DEF SaveFails
  <2>2. CASE ~mem[r].failure
    BY <1>13, <1>w, <2>2 DEF SaveFails
  <2> QED  BY <2>1, <2>2
<1>14. CASE SummaryFails(r)
  BY <1>14, <1>t, <1>e DEF SummaryFails
<1>15. CASE Crash(r)
  BY <1>15, <1>t, <1>e DEF Crash
<1> QED
  BY <1>1, <1>2, <1>3, <1>4, <1>5, <1>6, <1>7, <1>8, <1>9, <1>10, <1>11,
     <1>12, <1>13, <1>14, <1>15
  DEF Moves

LEMMA EditType ==
  ASSUME TypeOK, Edit, UNCHANGED faults
  PROVE  TypeOK'
<1>1. disk' \in [Files -> Contents \cup {NoFile}]
  BY DEF Edit, TypeOK
<1>2. edits' \in 0..MaxEdits[policy]'
  <2>1. MaxEdits[policy] \in Nat
    BY ScriptAssumption DEF TypeOK
  <2> QED  BY <2>1 DEF Edit, TypeOK
<1> QED
  BY <1>1, <1>2
  DEF Edit, TypeOK, MailTypeOK, servers, mailVars, history, world

LEMMA InitFacts ==
  ASSUME Init
  PROVE  TypeOK /\ Hands
<1>1. MaxEdits[policy] \in Nat /\ MaxFaults[policy] \in Nat
  BY ScriptAssumption DEF Init
<1>2. disk \in [Files -> Contents \cup {NoFile}]
  BY ScriptAssumption DEF Init
<1>3. accounts \in [Places -> [Accounts -> Passwords]]
  BY DEF Init, Passwords
<1>4. MailTypeOK
  <2>1. <<>> \in Seq(Emails)
    OBVIOUS
  <2> QED  BY <2>1 DEF Init, MailInit, MailTypeOK
<1>5. /\ mem \in [Runs -> Memory]
      /\ sums \in [Places -> [Files -> Sums \cup {NoSum}]]
  BY BlankFacts DEF Init
<1>6. TypeOK
  BY <1>1, <1>2, <1>3, <1>4, <1>5 DEF Init, TypeOK
<1>7. Hands
  BY DEF Init, Hands, HandOf, Active, Working, Blank
<1> QED  BY <1>6, <1>7

(* What the other invariants are relative to.                              *)
Basic == TypeOK /\ Hands

LEMMA BasicStep ==
  ASSUME Basic, [Next]_vars
  PROVE  Basic'
<1> USE DEF Basic
<1>1. ASSUME NEW r \in Runs, Moves(r),
             \/ UNCHANGED faults
             \/ faults < MaxFaults[policy] /\ faults' = faults + 1
      PROVE  Basic'
  <2>1. MaxFaults[policy] \in Nat /\ faults \in 0..MaxFaults[policy]
    BY ScriptAssumption DEF TypeOK
  <2>2. faults' \in 0..MaxFaults[policy]
    BY <1>1, <2>1
  <2>3. TypeOK'
    BY <1>1, <2>2, MoveType
  <2>4. ASSUME NEW q \in Runs
        PROVE  HandOf(q)'
    <3>1. CASE q = r
      BY <1>1, <3>1, HandMove
    <3>2. CASE q # r
      <4>1. pc'[q] = pc[q] /\ mem'[q] = mem[q]
        BY <1>1, <3>2, MoveIsLocal
      <4> QED  BY <4>1 DEF Hands, HandOf, Active, Here
    <3> QED  BY <3>1, <3>2
  <2> QED  BY <2>3, <2>4 DEF Hands
<1>2. CASE Edit /\ UNCHANGED faults
  <2>1. TypeOK'
    BY <1>2, EditType
  <2>2. pc' = pc /\ mem' = mem
    BY <1>2 DEF Edit
  <2>3. Hands'
    BY <2>2 DEF Hands, HandOf, Active, Here
  <2> QED  BY <2>1, <2>3
<1>3. CASE UNCHANGED vars
  BY <1>3 DEF vars, TypeOK, MailTypeOK, Hands, HandOf, Active, Here, world,
              servers, mailVars, history
<1> QED  BY <1>1, <1>2, <1>3, NextMoves

LEMMA BasicAlways == Spec => []Basic
<1>1. Init => Basic
  BY InitFacts DEF Basic
<1>2. Basic /\ [Next]_vars => Basic'
  BY BasicStep
<1> QED  BY <1>1, <1>2, PTL DEF Spec

(* DclRun keeps its types, whatever the runs, the files, the faults and    *)
(* the changes of the developer: repeatable-runner.js and cli.js never     *)
(* leave a run with a file that it has not listed, or without an instance. *)
THEOREM TypeCorrect == Spec => []TypeOK
<1>1. Basic => TypeOK
  BY DEF Basic
<1> QED  BY <1>1, BasicAlways, PTL

-----------------------------------------------------------------------------
(* The newest copies stay.                                                 *)

(* The copies of a name with at least Keep newer ones.                     *)
Old(n) == Over(copies[n], ToSet(copies[n]), Keep)

(* What is deleted, and what a cleanup at work will delete, is old.        *)
VictimsOld ==
  /\ \A n \in Names : removed[n] \subseteq Old(n)
  /\ \A r \in Runs : pc[r] = "remove" => mem[r].victims \subseteq Old(Name(r))

LEMMA NameFacts ==
  ASSUME Basic, NEW r \in Runs, Active(r)
  PROVE  /\ Name(r) \in Names
         /\ Email(r) \in Emails
         /\ copies[Name(r)] \in Seq(Emails)
<1>1. Here(r) \in Places /\ mem[r].failure \in BOOLEAN
  BY MemoryFacts DEF Basic, Hands, HandOf
<1>2. <<r, mem[r].failure>> \in Runs \X BOOLEAN
  BY <1>1
<1>3. Name(r) \in Places \cup {"notification"}
  BY <1>1 DEF Name
<1> QED  BY <1>2, <1>3, InstanceAssumption DEF Email, Basic, TypeOK, MailTypeOK

(* The email directory is the business of three actions.                   *)
LEMMA MailSteps ==
  ASSUME TypeOK, NEW r \in Runs, Moves(r)
  PROVE  \/ Copy(r) \/ ReadCopies(r) \/ RemoveCopy(r)
         \/ UNCHANGED mailVars /\ pc'[r] # "remove"
<1>1. pc \in [Runs -> Working \cup Ended \cup {"ready"}]
  BY DEF TypeOK
<1> USE DEF Exit, Goto, Ended
<1>2. CASE Start(r) \/ Gate(r) \/ Forget(r) \/ Begin(r)
  BY <1>1, <1>2 DEF Start, Gate, Forget, Begin
<1>3. CASE NextFile(r) \/ Look(r) \/ Execute(r) \/ FileDone(r) \/ Record(r)
  BY <1>1, <1>3 DEF NextFile, Look, Execute, FileDone, Record
<1>4. CASE Replace(r) \/ NextInstance(r) \/ VerifyNext(r) \/ VerifyFails(r)
  BY <1>1, <1>4 DEF Replace, NextInstance, VerifyNext, VerifyFails
<1>5. CASE FileFails(r) \/ CleanupFails(r) \/ SummaryFails(r) \/ Crash(r)
  BY <1>1, <1>5 DEF FileFails, CleanupFails, SummaryFails, Crash
<1>6. CASE Fails(r) \/ SaveFails(r)
  BY <1>1, <1>6 DEF Fails, SaveFails, Throw
<1>7. CASE Captures(r)
  BY <1>1, <1>7 DEF Captures, CaptureBefore, After, VerifyCapture
<1> QED
  BY <1>2, <1>3, <1>4, <1>5, <1>6, <1>7 DEF Moves

LEMMA VictimsMove ==
  ASSUME Basic, VictimsOld, NEW r \in Runs, Moves(r)
  PROVE  VictimsOld'
<1>t. /\ TypeOK /\ Keep \in Nat
      /\ pc \in [Runs -> Working \cup Ended \cup {"ready"}]
      /\ mem \in [Runs -> Memory]
      /\ copies \in [Names -> Seq(Emails)]
      /\ removed \in [Names -> SUBSET Emails]
  BY KeepAssumption DEF Basic, TypeOK, MailTypeOK
<1>l. \A q \in Runs : q # r => pc'[q] = pc[q] /\ mem'[q] = mem[q]
  BY <1>t, MoveIsLocal
<1>v. /\ \A n \in Names : removed[n] \subseteq Old(n)
      /\ \A q \in Runs : pc[q] = "remove" => mem[q].victims \subseteq Old(Name(q))
  BY DEF VictimsOld
<1>n. \A q \in Runs : q # r => Name(q)' = Name(q)
  BY <1>l DEF Name, Here
<1>m. \A q \in Runs : pc[q] = "remove" => Name(q) \in Names
  BY NameFacts DEF Active, Working
<1>u. UNCHANGED mailVars => \A n \in Names : Old(n)' = Old(n)
  BY DEF mailVars, Old
<1>1. CASE UNCHANGED mailVars /\ pc'[r] # "remove"
  <2>1. \A n \in Names : removed'[n] \subseteq Old(n)'
    BY <1>1, <1>u, <1>v DEF mailVars
  <2>2. ASSUME NEW q \in Runs, pc'[q] = "remove"
        PROVE  mem'[q].victims \subseteq Old(Name(q))'
    <3>1. q # r /\ pc[q] = "remove" /\ mem'[q] = mem[q] /\ Name(q)' = Name(q)
      BY <1>1, <1>l, <1>n, <2>2
    <3>2. Old(Name(q))' = Old(Name(q))
      BY <1>1, <3>1 DEF mailVars, Old
    <3> QED  BY <1>v, <3>1, <3>2
  <2> QED  BY <2>1, <2>2 DEF VictimsOld
<1>2. CASE Copy(r)
  <2> DEFINE c == copies[Name(r)]
  <2>1. Active(r)
    BY <1>2 DEF Copy, Active, Working
  <2>2. Name(r) \in Names /\ Email(r) \in Emails /\ c \in Seq(Emails)
    BY <2>1, NameFacts
  <2>3. PICK p \in 1..(Len(c) + 1) :
          /\ copies' = [copies EXCEPT ![Name(r)] = InsertAt(c, p, Email(r))]
          /\ removed' = removed
    BY <1>2 DEF Copy, WriteCopy
  <2>4. Over(c, ToSet(c), Keep)
          \subseteq Over(InsertAt(c, p, Email(r)),
                         ToSet(InsertAt(c, p, Email(r))), Keep)
    BY <1>t, <2>2, InsertedIsOver
  <2>5. copies'[Name(r)] = InsertAt(c, p, Email(r))
        /\ \A n \in Names \ {Name(r)} : copies'[n] = copies[n]
    BY <1>t, <2>2, <2>3
  <2> HIDE DEF c
  <2>6. ASSUME NEW n \in Names
        PROVE  Over(copies[n], ToSet(copies[n]), Keep)
                 \subseteq Over(copies'[n], ToSet(copies'[n]), Keep)
    BY <2>4, <2>5 DEF c
  <2>7. \A n \in Names : removed'[n] \subseteq Old(n)'
    BY <1>v, <2>3, <2>6 DEF Old
  <2>8. ASSUME NEW q \in Runs, pc'[q] = "remove"
        PROVE  mem'[q].victims \subseteq Old(Name(q))'
    <3>1. q # r
      BY <1>t, <1>2, <2>8 DEF Copy, Goto
    <3>2. pc[q] = "remove" /\ mem'[q] = mem[q] /\ Name(q)' = Name(q)
      BY <1>l, <1>n, <2>8, <3>1
    <3>3. Name(q) \in Names /\ mem[q].victims \subseteq Old(Name(q))
      BY <1>v, <1>m, <3>2
    <3>4. Old(Name(q))' = Over(copies'[Name(q)], ToSet(copies'[Name(q)]), Keep)
      BY <3>2 DEF Old
    <3> QED  BY <2>6, <3>2, <3>3, <3>4 DEF Old
  <2> QED  BY <2>7, <2>8 DEF VictimsOld
<1>3. CASE ReadCopies(r)
  <2>1. UNCHANGED mailVars /\ Active(r)
    BY <1>3 DEF ReadCopies, Active, Working
  <2>2. /\ mem'[r] = [mem[r] EXCEPT !.victims = ToRemove(Name(r))]
        /\ pc'[r] = IF ToRemove(Name(r)) = {} THEN "next" ELSE "remove"
    BY <1>t, <1>3 DEF ReadCopies, Goto, Remember
  <2>3. /\ mem'[r].victims = ToRemove(Name(r))
        /\ mem'[r].cmd = mem[r].cmd /\ mem'[r].queue = mem[r].queue
    BY <1>t, <2>2 DEF Memory
  <2>4. Name(r)' = Name(r)
    BY <2>3 DEF Name, Here
  <2>5. ToRemove(Name(r)) \subseteq Old(Name(r))
    <3>1. copies[Name(r)] \in Seq(Emails)
      BY <2>1, NameFacts
    <3>2. OnDisk(Name(r)) \in SUBSET ToSet(copies[Name(r)])
      BY DEF OnDisk
    <3>3. Over(copies[Name(r)], OnDisk(Name(r)), Keep) \subseteq Old(Name(r))
      BY <1>t, <3>1, <3>2, MoreIsOver DEF Old
    <3> QED  BY <3>3, BeyondIsOver DEF ToRemove
  <2>6. \A n \in Names : removed'[n] \subseteq Old(n)'
    BY <2>1, <1>u, <1>v DEF mailVars
  <2>7. ASSUME NEW q \in Runs, pc'[q] = "remove"
        PROVE  mem'[q].victims \subseteq Old(Name(q))'
    <3>1. Name(q)' = Name(q)
      BY <1>n, <2>4
    <3>2. Old(Name(q))' = Old(Name(q))
      BY <2>1, <3>1 DEF mailVars, Old
    <3>3. CASE q = r
      BY <2>3, <2>5, <3>2, <3>3
    <3>4. CASE q # r
      BY <1>v, <1>l, <2>7, <3>2, <3>4
    <3> QED  BY <3>3, <3>4
  <2> QED  BY <2>6, <2>7 DEF VictimsOld
<1>4. CASE RemoveCopy(r)
  <2>1. PICK e \in mem[r].victims :
          /\ removed' = [removed EXCEPT ![Name(r)] = removed[Name(r)] \cup {e}]
          /\ copies' = copies
          /\ mem'[r] = [mem[r] EXCEPT !.victims = mem[r].victims \ {e}]
    BY <1>t, <1>4 DEF RemoveCopy, Delete, Remember
  <2>2. /\ mem'[r].victims = mem[r].victims \ {e}
        /\ mem'[r].cmd = mem[r].cmd /\ mem'[r].queue = mem[r].queue
    BY <1>t, <2>1 DEF Memory
  <2>3. Name(r)' = Name(r) /\ pc[r] = "remove"
    BY <1>4, <2>2 DEF Name, Here, RemoveCopy
  <2>4. \A n : Old(n)' = Old(n)
    BY <2>1 DEF Old
  <2>5. mem[r].victims \subseteq Old(Name(r))
    BY <1>v, <2>3
  <2>6. \A n \in Names : removed'[n] \subseteq Old(n)'
    BY <1>t, <1>v, <2>1, <2>4, <2>5
  <2>7. ASSUME NEW q \in Runs, pc'[q] = "remove"
        PROVE  mem'[q].victims \subseteq Old(Name(q))'
    <3>1. Name(q)' = Name(q)
      BY <1>n, <2>3
    <3>2. Old(Name(q))' = Old(Name(q))
      BY <2>1, <3>1 DEF Old
    <3>3. CASE q = r
      BY <2>2, <2>5, <3>2, <3>3
    <3>4. CASE q # r
      BY <1>v, <1>l, <2>7, <3>2, <3>4
    <3> QED  BY <3>3, <3>4
  <2> QED  BY <2>6, <2>7 DEF VictimsOld
<1> QED  BY <1>t, <1>1, <1>2, <1>3, <1>4, MailSteps

(* pruneMatching() of reporter.js: however the cleanups of the runs        *)
(* interleave with their writes and with one another, and whatever the     *)
(* order of the run ids, a copy is deleted only if Keep newer ones of its  *)
(* name have been written: the newest Keep are never touched.              *)
THEOREM NewestCopiesStay == Spec => []NewestKept
<1>1. Init => VictimsOld
  BY DEF Init, MailInit, VictimsOld
<1>2. Basic /\ VictimsOld /\ [Next]_vars => VictimsOld'
  <2> SUFFICES ASSUME Basic, VictimsOld, [Next]_vars
               PROVE  VictimsOld'
    OBVIOUS
  <2>1. ASSUME NEW r \in Runs, Moves(r)
        PROVE  VictimsOld'
    BY <2>1, VictimsMove
  <2>2. CASE UNCHANGED <<pc, mem, mailVars>>
    BY <2>2 DEF VictimsOld, Old, Name, Here, mailVars
  <2> QED  BY <2>1, <2>2, NextMoves DEF Edit, vars
<1>3. VictimsOld => NewestKept
  BY BeyondIsOver DEF VictimsOld, NewestKept, Old
<1> QED  BY <1>1, <1>2, <1>3, BasicAlways, PTL DEF Spec

-----------------------------------------------------------------------------
(* No generated password is lost in silence.                               *)

(* Statements of c strictly between two places leave a password of a as it *)
(* is, if there is one.                                                    *)
Harmless(c, first, last, a) ==
  \A k \in (first + 1)..(last - 1) :
    Script[c][k].on = a => Script[c][k].op \in {"create", "other"}

Target(c, a) ==
  \E k \in DOMAIN Script[c] :
    Script[c][k].on = a /\ Script[c][k].op \in {"create", "replace"}

(* The event of an earlier file tells p, and the file in hand, as far as   *)
(* it has come, has done nothing that it will report otherwise.            *)
Told(r, a, p) ==
  LET m == mem[r] IN
  /\ m.events[a].pw = p /\ m.events[a].kind # "nothing"
  /\ p.file <= m.file
  /\ pc[r] \in {"look", "exec"} => p.file < m.file /\ a \notin m.made
  /\ pc[r] = "exec" =>
       /\ Harmless(m.body, 0, m.at, a)
       /\ Kind[Here(r)] = "maria" /\ Generates(Source(m)) /\ Target(m.body, a)
            => a \in m.found

(* A statement of the file in hand has set p, and its event will tell it.  *)
WillTell(r, a, p) ==
  LET m == mem[r]
      s == Script[m.body][p.at]
  IN  /\ pc[r] = "exec"
      /\ p.file = m.file /\ p.pass = 1 /\ p.at < m.at
      /\ Generates(Source(m))
      /\ p.at \in Placeholders(m.body) /\ s.on = a
      /\ Harmless(m.body, p.at, m.at, a)
      /\ s.op \in {"create", "replace"} => a \in m.made
      /\ Kind[Here(r)] = "maria" =>
           ~ /\ s.op = "create" /\ a \in m.found
             /\ ~DropsBefore(m.body, p.at)

Holding == {"file", "look", "exec", "sum", "after", "copy"}

(* What the run knows of a password of its own that no email shows yet.    *)
Kept(r, i, a) ==
  LET p == accounts[i][a] IN
  p \in Secrets /\ p.run = r /\ fate[i][a] = "open" =>
    /\ pc[r] \in Holding /\ Here(r) = i
    /\ mem[r].cmd # "dcl:verify" /\ ~mem[r].failure
    /\ Told(r, a, p) \/ WillTell(r, a, p)

(* Where a run may still change an account, or has just done.              *)
AtWork == {"gate", "forget", "before", "begin", "file", "look", "exec", "sum",
           "after", "verify"}

(* Events without a file recorded or failed: of the file in hand alone.    *)
Reports(r) ==
  /\ pc[r] \in AtWork => ~mem[r].failure
  /\ pc[r] \in {"gate", "forget", "before", "begin", "file", "look", "exec",
                "verify"} =>
       mem[r].events = Quiet \/ mem[r].applied
  /\ pc[r] = "after" =>
       mem[r].events = Quiet \/ mem[r].applied \/ mem[r].error
KeptAll ==
  \A r \in Runs : Reports(r) /\ \A i \in Places, a \in Accounts : Kept(r, i, a)

(* A step leaves a password as it is, or a statement of the run sets it;   *)
(* only that can open its fate again.                                      *)
LEMMA OpenSteps ==
  ASSUME Basic, NEW q \in Runs, Moves(q), NEW i \in Places, NEW a \in Accounts
  PROVE  \/ /\ accounts'[i][a] = accounts[i][a]
            /\ fate'[i][a] = "open" => fate[i][a] = "open"
         \/ /\ Execute(q) /\ i = Here(q)
            /\ a = Script[mem[q].body][mem[q].at].on
            /\ accounts'[i][a] # accounts[i][a]
            /\ accounts'[i][a] \in Secrets => accounts'[i][a] = Secret(q)
<1>t. /\ TypeOK /\ Hands
      /\ fate \in [Places -> [Accounts -> {"open", "mailed", "lost"}]]
  BY DEF Basic, TypeOK
<1>h. Active(q) => Here(q) \in Places
  BY <1>t, MemoryFacts DEF Hands, HandOf
<1> DEFINE Same == /\ accounts'[i][a] = accounts[i][a]
                   /\ fate'[i][a] = "open" => fate[i][a] = "open"
<1> USE DEF servers, history, Active, Working
<1>1. ASSUME accounts' = accounts, NEW j \in Places, NEW P, Losing(q, j, P)
      PROVE  Same
  <2>1. fate'[i][a] = fate[i][a] \/ fate'[i][a] = "lost"
    BY <1>t, <1>1, LosingFacts
  <2> QED  BY <1>1, <2>1
<1>2. CASE Start(q) \/ Gate(q) \/ Forget(q) \/ Begin(q) \/ NextFile(q)
           \/ Look(q) \/ Record(q)
  BY <1>2 DEF Start, Gate, Forget, Begin, NextFile, Look, Record
<1>3. CASE Execute(q)
  <2> DEFINE s == Script[mem[q].body][mem[q].at]
             old == accounts[Here(q)][s.on]
             new == Leaves(s.op, old, Password(q))
  <2>1. /\ s.op \in Ops
        /\ accounts'[Here(q)][s.on] = new
        /\ new = old => fate'[Here(q)][s.on] = fate[Here(q)][s.on]
    BY <1>3, <1>t, ExecuteFacts
  <2>7. \A j \in Places, b \in Accounts : j # Here(q) \/ b # s.on =>
          accounts'[j][b] = accounts[j][b] /\ fate'[j][b] = fate[j][b]
    BY <1>3, <1>t, ExecuteFacts
  <2>2. new \in {old, Password(q), NoAccount, Given}
    BY <2>1, LeavesFacts
  <2>3. Password(q) \in {Secret(q), Given}
    BY DEF Password
  <2>4. NoAccount \notin Secrets /\ Given \notin Secrets
    BY ConstantFacts
  <2> HIDE DEF s, old, new
  <2>5. CASE i # Here(q) \/ a # s.on \/ new = old
    BY <2>1, <2>5, <2>7 DEF old
  <2>6. CASE i = Here(q) /\ a = s.on /\ new # old
    <3>1. accounts'[i][a] # accounts[i][a]
      BY <2>1, <2>6 DEF old
    <3>2. accounts'[i][a] \in Secrets => accounts'[i][a] = Secret(q)
      BY <2>1, <2>2, <2>3, <2>4, <2>6
    <3> QED  BY <1>3, <2>6, <3>1, <3>2 DEF s
  <2> QED  BY <2>5, <2>6
<1>4. CASE FileDone(q)
  <2>1. /\ accounts' = accounts /\ Active(q)
        /\ \/ UNCHANGED fate
           \/ Losing(q, Here(q), OfFile(mem[q].file))
    BY <1>4 DEF FileDone
  <2> QED  BY <1>1, <1>h, <2>1
<1>5. CASE Copy(q)
  <2>1. PICK row :
          /\ row = [b \in Accounts |->
               IF /\ accounts[Here(q)][b] \in Secrets
                  /\ mem[q].events[b].pw = accounts[Here(q)][b]
               THEN "mailed" ELSE fate[Here(q)][b]]
          /\ fate' = [fate EXCEPT ![Here(q)] = row]
    BY <1>5 DEF Copy
  <2>2. row[a] = "open" => fate[Here(q)][a] = "open"
    BY <2>1
  <2>3. (fate'[i] = row /\ i = Here(q)) \/ fate'[i] = fate[i]
    BY <1>t, <2>1
  <2> QED  BY <1>5, <2>2, <2>3 DEF Copy
<1>6. CASE Replace(q) \/ ReadCopies(q) \/ RemoveCopy(q) \/ NextInstance(q)
           \/ VerifyNext(q) \/ VerifyFails(q) \/ CleanupFails(q)
           \/ SummaryFails(q)
  BY <1>6 DEF Replace, ReadCopies, RemoveCopy, NextInstance, VerifyNext,
              VerifyFails, CleanupFails, SummaryFails
<1>7. CASE FileFails(q)
  <2>1. /\ accounts' = accounts /\ Active(q)
        /\ \/ UNCHANGED fate
           \/ Losing(q, Here(q), OfFile(mem[q].file))
    BY <1>7 DEF FileFails
  <2> QED  BY <1>1, <1>h, <2>1
<1>8. CASE Captures(q)
  BY <1>8 DEF Captures, CaptureBefore, After, VerifyCapture
<1>9. CASE Fails(q) \/ SaveFails(q) \/ Crash(q)
  <2>1. /\ accounts' = accounts /\ Active(q)
        /\ \/ UNCHANGED fate
           \/ Losing(q, Here(q), Secrets)
    BY <1>9 DEF Fails, SaveFails, Crash, Throw
  <2> QED  BY <1>1, <1>h, <2>1
<1> QED
  BY <1>2, <1>3, <1>4, <1>5, <1>6, <1>7, <1>8, <1>9 DEF Moves

LEMMA ReportsMove ==
  ASSUME Basic, NEW r \in Runs, Moves(r), Reports(r)
  PROVE  Reports(r)'
<1> DEFINE m == mem[r]
<1>t. /\ TypeOK /\ m \in Memory
      /\ pc \in [Runs -> Working \cup Ended \cup {"ready"}]
      /\ mem \in [Runs -> Memory]
  BY MemoryFacts DEF Basic, TypeOK
<1>r. /\ pc[r] \in AtWork => ~m.failure
      /\ pc[r] \in {"gate", "forget", "before", "begin", "file", "look",
                    "exec", "verify"} => m.events = Quiet \/ m.applied
      /\ pc[r] = "after" => m.events = Quiet \/ m.applied \/ m.error
  BY DEF Reports
<1> DEFINE Silent == pc'[r] \notin AtWork
<1>q. ASSUME Silent
      PROVE  Reports(r)'
  BY <1>q DEF Reports, AtWork
<1>s. ASSUME pc[r] \in {"gate", "forget", "before", "begin", "file", "look",
                        "exec", "verify"},
             mem'[r].events = m.events, mem'[r].applied = m.applied,
             mem'[r].failure = m.failure
      PROVE  Reports(r)'
  BY <1>r, <1>s DEF Reports, AtWork
<1> HIDE DEF m
<1> USE DEF Goto, Remember, Exit, Ended
<1>1. CASE Start(r)
  <2>0. PICK c \in Commands[policy], v \in BOOLEAN, j \in Places :
          Remember(r, [Blank EXCEPT !.cmd = c, !.validate = v,
                !.queue = IF c = "dcl-all" THEN Instances ELSE <<j>>])
    BY <1>1 DEF Start
  <2>1. mem'[r] = [Blank EXCEPT !.cmd = c, !.validate = v,
                !.queue = IF c = "dcl-all" THEN Instances ELSE <<j>>]
    BY <2>0, <1>t
  <2>2. mem'[r].events = Quiet /\ ~mem'[r].failure
    BY <2>1 DEF Blank
  <2> QED  BY <2>2 DEF Reports
<1>2. CASE Gate(r) \/ Forget(r)
  <2>1. PICK x : mem'[r] = [m EXCEPT !.orphans = x]
    BY <1>2, <1>t DEF Gate, Forget, m
  <2> QED  BY <1>2, <1>s, <1>t, <2>1 DEF Gate, Forget, Memory
<1>3. CASE Begin(r)
  <2>1. PICK x, y : mem'[r] = [m EXCEPT !.list = x, !.known = y]
    BY <1>3, <1>t DEF Begin, m
  <2> QED  BY <1>3, <1>s, <1>t, <2>1 DEF Begin, Memory
<1>4. CASE NextFile(r)
  <2>2. /\ mem'[r].events = m.events /\ mem'[r].applied = m.applied
        /\ mem'[r].failure = m.failure
    BY <1>4, <1>t, NextFileKeeps DEF m
  <2> QED  BY <1>4, <1>s, <2>2 DEF NextFile
<1>5. CASE Look(r)
  <2>1. PICK x : mem'[r] = [m EXCEPT !.found = x]
    BY <1>5, <1>t DEF Look, m
  <2> QED  BY <1>5, <1>s, <1>t, <2>1 DEF Look, Memory
<1>6. CASE Execute(r)
  <2>1. PICK x : mem'[r] = [m EXCEPT !.at = m.at + 1, !.made = x]
    BY <1>6, <1>t DEF Execute, m
  <2> QED  BY <1>6, <1>s, <1>t, <2>1 DEF Execute, Memory
<1>7. CASE Record(r)
  <2>1. mem'[r] = [m EXCEPT !.applied = TRUE, !.body = NoFile, !.found = {},
                            !.made = {}]
        /\ pc'[r] = "file" /\ pc[r] = "sum"
    BY <1>7, <1>t DEF Record, m
  <2>2. mem'[r].applied /\ mem'[r].failure = m.failure
    BY <1>t, <2>1 DEF Memory
  <2> QED  BY <1>r, <2>1, <2>2 DEF Reports, AtWork
<1>8. CASE FileFails(r)
  <2>1. mem'[r] = [m EXCEPT !.error = TRUE, !.body = NoFile, !.found = {},
                     !.made = {}, !.list = Unlisted, !.known = Unknown]
        /\ pc'[r] = "after" /\ pc[r] \in {"look", "exec", "sum"}
    BY <1>8, <1>t DEF FileFails, m
  <2>2. mem'[r].error /\ mem'[r].failure = m.failure
    BY <1>t, <2>1 DEF Memory
  <2> QED  BY <1>r, <2>1, <2>2 DEF Reports, AtWork
<1>9. CASE NextInstance(r)
  <2>1. \/ Silent
        \/ mem'[r] = [Afresh(r) EXCEPT !.queue = Tail(m.queue)]
    BY <1>9, <1>t DEF NextInstance, m, AtWork
  <2>2. ASSUME mem'[r] = [Afresh(r) EXCEPT !.queue = Tail(m.queue)]
        PROVE  mem'[r].events = Quiet /\ ~mem'[r].failure
    BY <2>2 DEF Afresh, Blank
  <2> QED  BY <1>q, <2>1, <2>2 DEF Reports
<1>10. CASE VerifyNext(r)
  <2> DEFINE list == IF m.file = 0 THEN disk ELSE m.list
  <2>1. \/ Silent
        \/ \E f \in Files :
             mem'[r] = [m EXCEPT !.list = list, !.file = f, !.at = 1,
                                 !.pass = 1, !.body = list[f]]
    BY <1>10, <1>t DEF VerifyNext, m, AtWork
  <2> HIDE DEF list
  <2>2. ASSUME NEW f \in Files,
               mem'[r] = [m EXCEPT !.list = list, !.file = f, !.at = 1,
                                   !.pass = 1, !.body = list[f]]
        PROVE  Reports(r)'
    <3>1. /\ mem'[r].events = m.events /\ mem'[r].applied = m.applied
          /\ mem'[r].failure = m.failure
      BY <1>t, <2>2 DEF Memory
    <3>2. pc[r] = "verify"
      BY <1>10 DEF VerifyNext
    <3> QED  BY <1>s, <3>1, <3>2
  <2> QED  BY <1>q, <2>1, <2>2
<1>11. CASE VerifyFails(r)
  <2>1. mem'[r] = [m EXCEPT !.bad = TRUE, !.before = {}, !.body = NoFile]
    BY <1>11, <1>t DEF VerifyFails, m
  <2> QED  BY <1>11, <1>s, <1>t, <2>1 DEF VerifyFails, Memory
<1>12. CASE Captures(r)
  <2>1. PICK seen \in SUBSET Accounts :
          CaptureBefore(r, seen) \/ After(r, seen) \/ VerifyCapture(r, seen)
    BY <1>12 DEF Captures
  <2>2. CASE CaptureBefore(r, seen)
    <3>1. mem'[r] = [m EXCEPT !.before = seen]
      BY <2>2, <1>t DEF CaptureBefore, m
    <3> QED  BY <2>2, <1>s, <1>t, <3>1 DEF CaptureBefore, Memory
  <2>3. CASE After(r, seen)
    BY <2>3, <1>q, <1>t DEF After, AtWork
  <2>4. CASE VerifyCapture(r, seen)
    <3>1. \/ mem'[r] = [m EXCEPT !.before = seen, !.pass = 2, !.at = 1]
          \/ \E x : mem'[r] = [m EXCEPT !.bad = x, !.before = {},
                                        !.body = NoFile]
      BY ZenonT(60), <2>4, <1>t DEF VerifyCapture, m
    <3>2. /\ mem'[r].events = m.events /\ mem'[r].applied = m.applied
          /\ mem'[r].failure = m.failure
      BY <1>t, <3>1 DEF Memory
    <3> QED  BY <2>4, <1>s, <3>2 DEF VerifyCapture
  <2> QED  BY <2>1, <2>2, <2>3, <2>4
<1>13. CASE FileDone(r) \/ Copy(r) \/ Replace(r) \/ ReadCopies(r)
            \/ RemoveCopy(r) \/ CleanupFails(r) \/ SummaryFails(r) \/ Crash(r)
  <2>1. CASE Copy(r) \/ Replace(r) \/ ReadCopies(r)
    BY <2>1, <1>q, <1>t DEF Copy, Replace, ReadCopies, AtWork
  <2>2. CASE RemoveCopy(r) \/ CleanupFails(r) \/ SummaryFails(r) \/ Crash(r)
    BY <2>2, <1>q, <1>t
    DEF RemoveCopy, CleanupFails, SummaryFails, Crash, AtWork
  <2>3. CASE FileDone(r)
    <3>1. PICK x : mem'[r] = [m EXCEPT !.events = x]
      BY <2>3, <1>t DEF FileDone, m
    <3>2. mem'[r].failure = m.failure
      BY <1>t, <3>1 DEF Memory
    <3>3. pc[r] = "exec" /\ pc'[r] = "sum"
      BY <2>3, <1>t DEF FileDone
    <3> QED  BY <1>r, <3>2, <3>3 DEF Reports, AtWork
  <2> QED  BY <1>13, <2>1, <2>2, <2>3
<1>14. CASE Fails(r) \/ SaveFails(r)
  BY <1>14, <1>q, <1>t DEF Fails, SaveFails, Throw, AtWork
<1> QED
  BY <1>1, <1>2, <1>3, <1>4, <1>5, <1>6, <1>7, <1>8, <1>9, <1>10, <1>11,
     <1>12, <1>13, <1>14
  DEF Moves

(* The last answer of a file has come: its events tell what it has set.    *)
LEMMA KeptByFileDone ==
  ASSUME Basic, CreatedOnce, NEW r \in Runs, FileDone(r),
         NEW i \in Places, NEW a \in Accounts,
         accounts[i][a] \in Secrets, accounts[i][a].run = r,
         fate'[i][a] = "open", Here(r) = i,
         Told(r, a, accounts[i][a]) \/ WillTell(r, a, accounts[i][a])
  PROVE  /\ mem'[r].events[a].pw = accounts[i][a]
         /\ mem'[r].events[a].kind # "nothing"
<1> DEFINE m == mem[r]
           p == accounts[i][a]
<1>t. /\ TypeOK /\ Hands /\ m \in Memory /\ mem \in [Runs -> Memory]
      /\ pc[r] = "exec" /\ m.cmd # "dcl:verify"
  BY MemoryFacts DEF Basic, TypeOK, FileDone
<1>b. /\ m.body \in Contents /\ Source(m) \in Contents
      /\ Placeholders(Source(m)) # {} =>
           m.body = Source(m) /\ Generates(Source(m))
      /\ m.at > Len(Script[m.body]) /\ m.at \in Nat
  <2>1. m.body \in Contents /\ m.at > Len(Script[m.body]) /\ m.at \in Nat
    BY <1>t, MemoryFacts DEF FileDone
  <2>2. Source(m) \in Contents
    BY <1>t DEF Hands, HandOf, Source
  <2>3. Placeholders(Source(m)) # {} => Generates(Source(m))
    BY DEF Placeholders, Generates
  <2>4. Generates(Source(m)) => m.body = Source(m)
    BY <1>t DEF Hands, HandOf
  <2> QED  BY <2>1, <2>2, <2>3, <2>4
<1>1. PICK lists \in BOOLEAN :
        /\ mem'[r] = [m EXCEPT !.events = Recorded(r, lists)]
        /\ IF Misaligned(m, lists)
           THEN Losing(r, Here(r), OfFile(m.file)) ELSE UNCHANGED fate
  BY <1>t DEF FileDone, Remember
<1>2. mem'[r].events = Recorded(r, lists)
  BY <1>1, <1>t DEF Memory
<1>3. /\ (\E k \in Reported(r, lists, a) : KindOf(r, k) # "no_change")
         => \E k \in Reported(r, lists, a) :
              /\ KindOf(r, k) # "no_change"
              /\ \A l \in Reported(r, lists, a) :
                   KindOf(r, l) # "no_change" => l <= k
              /\ Recorded(r, lists)[a].pw =
                   IF Misaligned(m, lists) THEN Mute ELSE SecretAt(r, k)
              /\ Recorded(r, lists)[a].kind \in {"new", KindOf(r, k)}
      /\ (\A k \in Reported(r, lists, a) : KindOf(r, k) = "no_change")
         => IF m.events[a].kind = "nothing" /\ Reported(r, lists, a) # {}
            THEN Recorded(r, lists)[a] = [kind |-> "no_change", pw |-> Mute]
            ELSE Recorded(r, lists)[a] = m.events[a]
  BY <1>t, RecordedFacts
<1>4. ASSUME NEW k \in Reported(r, lists, a)
      PROVE  /\ k \in DOMAIN Script[m.body] /\ k \in Nat /\ 0 < k /\ k < m.at
             /\ Script[m.body][k].on = a
             /\ Script[m.body][k].op \in Generating
             /\ m.body = Source(m) /\ Generates(Source(m))
  <2>1. k \in Placeholders(Source(m)) /\ Script[m.body][k].on = a
    BY DEF Reported
  <2>2. m.body = Source(m) /\ Generates(Source(m))
    BY <1>b, <2>1
  <2>3. k \in DOMAIN Script[m.body] /\ Script[m.body][k].op \in Generating
    BY <2>1, <2>2 DEF Placeholders
  <2>4. k \in 1..Len(Script[m.body]) /\ Len(Script[m.body]) \in Nat
    BY <1>b, <2>3, ConstantFacts
  <2> QED  BY <1>b, <2>1, <2>2, <2>3, <2>4
<1> HIDE DEF m, p
<1>5. CASE Told(r, a, p)
  <2>1. /\ m.events[a].pw = p /\ m.events[a].kind # "nothing"
        /\ Harmless(m.body, 0, m.at, a) /\ a \notin m.made
        /\ Kind[Here(r)] = "maria" /\ Generates(Source(m)) /\ Target(m.body, a)
             => a \in m.found
    BY <1>5, <1>t DEF Told, m
  <2>2. ASSUME NEW k \in Reported(r, lists, a)
        PROVE  KindOf(r, k) = "no_change"
    <3>1. \A j \in Nat : 0 < j /\ j < m.at /\ Script[m.body][j].on = a =>
            Script[m.body][j].op \in {"create", "other"}
      BY <1>b, <2>1 DEF Harmless
    <3>2. Script[m.body][k].op = "create"
      BY <1>4, <3>1 DEF Generating
    <3>3. ~DropsBefore(m.body, k)
      BY <1>4, <1>b, <3>1 DEF DropsBefore
    <3>4. CASE Kind[Here(r)] = "maria"
      <4>1. a \in m.found
        BY <1>4, <2>1, <3>2, <3>4 DEF Target
      <4>2. Script[m.body][k].on = a
        BY <1>4
      <4> QED  BY <3>2, <3>3, <3>4, <4>1, <4>2 DEF KindOf, MariaKind, m
    <3>5. CASE Kind[Here(r)] # "maria"
      <4>2. Script[m.body][k].on = a
        BY <1>4
      <4> QED  BY <2>1, <3>2, <3>5, <4>2 DEF KindOf, MongoKind, m
    <3> QED  BY <3>4, <3>5
  <2>3. Recorded(r, lists)[a] = m.events[a]
    BY <1>3, <2>1, <2>2
  <2> QED  BY <1>2, <2>1, <2>3 DEF p
<1>6. CASE WillTell(r, a, p)
  <2>1. /\ p.file = m.file /\ p.pass = 1 /\ p.at < m.at
        /\ Generates(Source(m))
        /\ p.at \in Placeholders(m.body) /\ Script[m.body][p.at].on = a
        /\ Harmless(m.body, p.at, m.at, a)
        /\ Script[m.body][p.at].op \in {"create", "replace"} => a \in m.made
        /\ Kind[Here(r)] = "maria" =>
             ~ /\ Script[m.body][p.at].op = "create" /\ a \in m.found
               /\ ~DropsBefore(m.body, p.at)
    BY <1>6 DEF WillTell, m
  <2>2. p \in Secrets /\ p.run = r /\ fate'[i][a] = "open" /\ p = accounts[i][a]
    BY DEF p
  <2>3. ~Misaligned(m, lists)
    <3>1. ASSUME Losing(r, i, OfFile(m.file))
          PROVE  fate'[i][a] # "open"
      <4>1. p \in OfFile(m.file)
        BY <2>1, <2>2 DEF OfFile
      <4> QED  BY <1>t, <2>2, <3>1, <4>1, LosingFacts
    <3> QED  BY <1>1, <2>2, <3>1 DEF m
  <2>4. m.body = Source(m)
    BY <1>t, <2>1 DEF Hands, HandOf, m
  <2>5. /\ p.at \in DOMAIN Script[m.body]
        /\ Script[m.body][p.at].op \in Generating
        /\ p.at \in Nat
    <3>1. p.at \in DOMAIN Script[m.body]
          /\ Script[m.body][p.at].op \in Generating
      BY <2>1 DEF Placeholders
    <3> QED  BY <1>b, <3>1, ConstantFacts
  <2>6. p.at \in Reported(r, lists, a)
    BY <2>1, <2>3, <2>4 DEF Reported, m
  <2>7. KindOf(r, p.at) \in {"new", "password_changed"}
    <3> DEFINE s == Script[m.body][p.at]
    <3>1. s.on = a /\ s.op \in {"create", "replace", "reset"}
      BY <2>1, <2>5 DEF Generating
    <3> HIDE DEF s
    <3>2. CASE Kind[Here(r)] = "maria"
      <4>1. ~(s.op = "create" /\ a \in m.found /\ ~DropsBefore(m.body, p.at))
        BY <2>1, <3>2 DEF s
      <4>2. MariaKind(m, p.at) \in {"new", "password_changed"}
        BY <3>1, <4>1 DEF MariaKind, s
      <4> QED  BY <3>2, <4>2 DEF KindOf, m
    <3>3. CASE Kind[Here(r)] # "maria"
      <4>1. s.op \in {"create", "replace"} => a \in m.made
        BY <2>1 DEF s
      <4>2. MongoKind(m, p.at) \in {"new", "password_changed"}
        BY <3>1, <4>1 DEF MongoKind, s
      <4> QED  BY <3>3, <4>2 DEF KindOf, m
    <3> QED  BY <3>2, <3>3
  <2>8. ASSUME NEW l \in Reported(r, lists, a), l > p.at
        PROVE  FALSE
    <3>1. \A j \in Nat : p.at < j /\ j < m.at /\ Script[m.body][j].on = a =>
            Script[m.body][j].op \in {"create", "other"}
      BY <1>b, <2>5, <2>1 DEF Harmless
    <3>2. Script[m.body][l].op = "create" /\ Script[m.body][l].on = a
          /\ l \in Nat /\ l \in DOMAIN Script[m.body] /\ l < m.at
      BY <1>4, <2>8, <3>1 DEF Generating
    <3>3. \E d \in p.at..l : Script[m.body][d].op = "drop"
                             /\ Script[m.body][d].on = a
      BY <1>b, <2>1, <2>5, <2>8, <3>2 DEF CreatedOnce, Generating
    <3>4. PICK d \in p.at..l : Script[m.body][d].op = "drop"
                               /\ Script[m.body][d].on = a
      BY <3>3
    <3>5. d # p.at /\ d # l
      BY <2>5, <3>2, <3>4 DEF Generating
    <3>6. d \in Nat /\ p.at < d /\ d < m.at
      BY <1>b, <2>5, <3>2, <3>5
    <3> QED  BY <3>1, <3>4, <3>6
  <2>9. PICK k \in Reported(r, lists, a) :
          /\ KindOf(r, k) # "no_change"
          /\ \A l \in Reported(r, lists, a) :
               KindOf(r, l) # "no_change" => l <= k
          /\ Recorded(r, lists)[a].pw =
               IF Misaligned(m, lists) THEN Mute ELSE SecretAt(r, k)
          /\ Recorded(r, lists)[a].kind \in {"new", KindOf(r, k)}
    BY <1>3, <2>6, <2>7
  <2>10. k = p.at
    <3>1. p.at <= k
      BY <2>6, <2>7, <2>9
    <3>2. ~(k > p.at) /\ k \in Nat
      BY <1>4, <2>8
    <3> QED  BY <2>5, <3>1, <3>2
  <2>11. SecretAt(r, p.at) = p
    BY <2>1, <2>2 DEF SecretAt, Secrets, m
  <2> QED  BY <1>2, <2>3, <2>7, <2>9, <2>10, <2>11 DEF p
<1> QED  BY <1>5, <1>6 DEF p

(* A password that was in force before the step, and that no email shows.  *)
LEMMA KeptSame ==
  ASSUME Basic, CreatedOnce, NEW r \in Runs, Moves(r), Reports(r),
         NEW i \in Places, NEW a \in Accounts, Kept(r, i, a),
         accounts[i][a] \in Secrets, accounts[i][a].run = r,
         fate[i][a] = "open", fate'[i][a] = "open",
         accounts'[i][a] = accounts[i][a]
  PROVE  Kept(r, i, a)'
<1> DEFINE m == mem[r]
           p == accounts[i][a]
<1>t. /\ TypeOK /\ Hands /\ m \in Memory /\ mem \in [Runs -> Memory]
      /\ pc \in [Runs -> Working \cup Ended \cup {"ready"}]
  BY MemoryFacts DEF Basic, TypeOK
<1>k. /\ pc[r] \in Holding /\ Here(r) = i
      /\ m.cmd # "dcl:verify" /\ ~m.failure
      /\ Told(r, a, p) \/ WillTell(r, a, p)
  BY DEF Kept
<1>p. /\ p \in Secrets /\ p.run = r /\ p.file \in Nat /\ p.at \in Nat
      /\ p # Mute /\ p # NoAccount
  <2>1. p.file \in Files /\ p.at \in 1..Longest
    BY DEF Secrets
  <2> QED  BY <2>1, ConstantFacts DEF Longest
<1>l. \A P : Losing(r, i, P) => p \notin P
  BY <1>t, LosingFacts
<1>m. m.file \in Nat /\ m.at \in Nat
  BY <1>t, MemoryFacts, ConstantFacts
<1> HIDE DEF m
<1> USE DEF Goto, Remember
(* The run goes on with the event it has.                                  *)
<1>c. ASSUME Told(r, a, p), pc'[r] \in {"file", "sum", "after", "copy"},
             mem'[r].queue = m.queue, mem'[r].cmd = m.cmd,
             mem'[r].failure = m.failure, mem'[r].events = m.events,
             mem'[r].file = m.file
      PROVE  Kept(r, i, a)'
  <2>1. Here(r)' = i
    BY <1>c, <1>k DEF Here, m
  <2>2. Told(r, a, p)'
    BY <1>c DEF Told, m
  <2> QED  BY <1>c, <1>k, <2>1, <2>2 DEF Kept, Holding
<1>1. CASE NextFile(r)
  <2>1. /\ pc[r] = "file"
        /\ mem'[r].queue = m.queue /\ mem'[r].cmd = m.cmd
        /\ mem'[r].failure = m.failure /\ mem'[r].events = m.events
        /\ pc'[r] = "after" => mem'[r].file = m.file
        /\ pc'[r] # "after" =>
             /\ mem'[r].at = 1 /\ mem'[r].made = {}
             /\ mem'[r].file \in Stale(m) /\ mem'[r].list = m.list
             /\ pc'[r] = IF /\ Kind[Here(r)] = "maria"
                            /\ Generates(m.list[mem'[r].file])
                         THEN "look" ELSE "exec"
    <3>1. pc[r] = "file"
      BY <1>1 DEF NextFile
    <3>2. /\ mem'[r].queue = m.queue /\ mem'[r].cmd = m.cmd
          /\ mem'[r].failure = m.failure /\ mem'[r].events = m.events
          /\ pc'[r] = "after" => mem'[r].file = m.file
      BY <1>1, <1>t, NextFileKeeps DEF m
    <3>3. pc'[r] # "after" =>
            /\ mem'[r].at = 1 /\ mem'[r].made = {}
            /\ mem'[r].file \in Stale(m) /\ mem'[r].list = m.list
            /\ pc'[r] = IF /\ Kind[Here(r)] = "maria"
                           /\ Generates(m.list[mem'[r].file])
                        THEN "look" ELSE "exec"
      BY <1>1, <1>t, NextFileKeeps DEF m
    <3> QED  BY <3>1, <3>2, <3>3
  <2>2. Told(r, a, p)
    BY <1>k, <2>1 DEF WillTell
  <2>3. CASE pc'[r] = "after"
    BY <1>c, <2>1, <2>2, <2>3
  <2>4. CASE pc'[r] # "after"
    <3>1. m.events[a].pw = p /\ m.events[a].kind # "nothing" /\ p.file <= m.file
      BY <2>2 DEF Told, m
    <3>2. mem'[r].file > m.file /\ mem'[r].file \in Nat
      BY <2>1, <2>4, ConstantFacts DEF Stale
    <3>3. p.file < mem'[r].file /\ p.file <= mem'[r].file
      BY <1>m, <1>p, <3>1, <3>2
    <3>4. Harmless(mem'[r].body, 0, 1, a)
      BY DEF Harmless
    <3>5. Here(r)' = i /\ Here(r)' = Here(r)
      BY <1>k, <2>1 DEF Here, m
    <3>6. pc'[r] = "exec" =>
            ~(Kind[Here(r)'] = "maria" /\ Generates(Source(mem'[r])))
      BY <2>1, <2>4, <3>5 DEF Source
    <3>7. Told(r, a, p)'
      BY <2>1, <2>4, <3>1, <3>3, <3>4, <3>6 DEF Told
    <3>8. pc'[r] \in Holding
      BY <2>1, <2>4 DEF Holding
    <3> QED  BY <1>k, <2>1, <3>5, <3>7, <3>8 DEF Kept
  <2> QED  BY <2>3, <2>4
<1>2. CASE Look(r)
  <2> DEFINE S == {b \in Existing(Here(r)) : \E k \in DOMAIN Script[m.body] :
                     /\ Script[m.body][k].on = b
                     /\ Script[m.body][k].op \in {"create", "replace"}}
  <2>1. pc[r] = "look" /\ pc'[r] = "exec" /\ mem'[r] = [m EXCEPT !.found = S]
    BY <1>2, <1>t DEF Look, m
  <2>2. Told(r, a, p)
    BY <1>k, <2>1 DEF WillTell
  <2>3. Target(m.body, a) => a \in S
    BY <1>k, <1>p DEF Target, Existing
  <2> HIDE DEF S
  <2>4. /\ mem'[r].queue = m.queue /\ mem'[r].cmd = m.cmd
        /\ mem'[r].failure = m.failure /\ mem'[r].events = m.events
        /\ mem'[r].file = m.file /\ mem'[r].body = m.body
        /\ mem'[r].at = m.at /\ mem'[r].made = m.made /\ mem'[r].found = S
    BY <1>t, <2>1 DEF Memory
  <2>5. m.at = 1
    BY <1>t, <2>1 DEF Hands, HandOf, m
  <2>6. Harmless(m.body, 0, 1, a)
    BY DEF Harmless
  <2>7. Told(r, a, p)'
    BY <2>1, <2>2, <2>3, <2>4, <2>5, <2>6 DEF Told, m
  <2>8. Here(r)' = i
    BY <1>k, <2>4 DEF Here, m
  <2> QED  BY <1>k, <2>1, <2>4, <2>7, <2>8 DEF Kept, Holding
<1>3. CASE Execute(r)
  <2> DEFINE s == Script[m.body][m.at]
             new == Leaves(s.op, accounts[i][s.on], Password(r))
             made == IF /\ s.op \in {"create", "replace"}
                        /\ new # accounts[i][s.on]
                     THEN m.made \cup {s.on} ELSE m.made
  <2>1. /\ pc[r] = "exec" /\ pc'[r] = "exec"
        /\ mem'[r] = [m EXCEPT !.at = m.at + 1, !.made = made]
    BY <1>3, <1>t, <1>k DEF Execute, m
  <2>2. s.op \in Ops /\ accounts'[i][s.on] = new
    <3> DEFINE t == Script[mem[r].body][mem[r].at]
               old == accounts[Here(r)][t.on]
    <3>1. t.op \in Ops
      BY <1>3, <1>t, ExecuteFacts
    <3>2. accounts'[Here(r)][t.on] = Leaves(t.op, old, Password(r))
      BY <1>3, <1>t, ExecuteFacts
    <3> QED  BY <1>k, <3>1, <3>2 DEF m
  <2>p. m.pass = 0 /\ mem[r].body # NoFile
    BY <1>t, <1>k, <1>3 DEF Hands, HandOf, m, Execute
  <2>3. Password(r) \in {Secret(r), Given} /\ Secret(r).file = m.file
        /\ Secret(r).at = m.at /\ Given \notin Secrets
    BY <1>t, ConstantFacts DEF Password, Secret, m
  <2>4. s.on = a /\ (p.file # m.file \/ p.at # m.at) =>
          s.op \in {"create", "other"}
    <3>1. ASSUME s.on = a, p.file # m.file \/ p.at # m.at
          PROVE  p = new /\ p # Password(r)
      <4>1. p = new
        BY <2>2, <3>1
      <4> HIDE DEF new, s, p
      <4>2. p # Secret(r)
        BY <2>3, <3>1
      <4> QED  BY <1>p, <2>3, <4>1, <4>2
    <3>2. /\ s.op = "drop" => new = NoAccount
          /\ s.op \in {"replace", "reset"} => new = Password(r)
      BY <2>2, LeavesFacts
    <3> HIDE DEF new, s, p
    <3> QED  BY <1>p, <2>2, <3>1, <3>2 DEF Ops
  <2>5. s.on = a => made = m.made
    BY <2>2
  <2>6. m.made \subseteq made /\ made \subseteq m.made \cup {s.on}
    OBVIOUS
  <2> HIDE DEF made, new
  <2>7. /\ mem'[r].queue = m.queue /\ mem'[r].cmd = m.cmd
        /\ mem'[r].failure = m.failure /\ mem'[r].events = m.events
        /\ mem'[r].file = m.file /\ mem'[r].body = m.body
        /\ mem'[r].list = m.list /\ mem'[r].found = m.found
        /\ mem'[r].at = m.at + 1 /\ mem'[r].made = made
    BY <1>t, <2>1 DEF Memory
  <2>8. Here(r)' = i
    BY <1>k, <2>7 DEF Here, m
  <2>9. ASSUME NEW from \in Nat, Harmless(m.body, from, m.at, a),
               p.file # m.file \/ p.at # m.at
        PROVE  Harmless(m.body, from, m.at + 1, a)
    <3>1. \A k \in (from + 1)..(m.at + 1) - 1 :
            k \in (from + 1)..m.at - 1 \/ k = m.at
      BY <1>m
    <3> QED  BY <2>4, <2>9, <3>1 DEF Harmless
  <2>10. CASE Told(r, a, p)
    <3>1. /\ Harmless(m.body, 0, m.at, a) /\ a \notin m.made
          /\ p.file < m.file
          /\ Kind[Here(r)] = "maria" /\ Generates(Source(m))
               /\ Target(m.body, a) => a \in m.found
      BY <2>1, <2>10 DEF Told, m
    <3>2. p.file # m.file
      BY <1>m, <1>p, <3>1
    <3>3. Harmless(m.body, 0, m.at + 1, a)
      BY <2>9, <3>1, <3>2
    <3>4. a \notin made
      BY <2>5, <2>6, <3>1
    <3>5. Source(mem'[r]) = Source(m) /\ Here(r)' = Here(r)
      BY <2>7, <2>8, <1>k DEF Source
    <3>6. Told(r, a, p)'
      BY <2>1, <2>7, <2>10, <3>1, <3>3, <3>4, <3>5 DEF Told, m
    <3> QED  BY <1>k, <2>1, <2>7, <2>8, <3>6 DEF Kept, Holding
  <2>11. CASE WillTell(r, a, p)
    <3>1. /\ p.at < m.at /\ Harmless(m.body, p.at, m.at, a)
      BY <2>11 DEF WillTell, m
    <3>2. Harmless(m.body, p.at, m.at + 1, a) /\ p.at < m.at + 1
      BY <1>m, <1>p, <2>9, <3>1
    <3>5. Source(mem'[r]) = Source(m) /\ Here(r)' = Here(r)
      BY <2>7, <2>8, <1>k DEF Source
    <3>6. WillTell(r, a, p)'
      BY <2>1, <2>6, <2>7, <2>11, <3>2, <3>5 DEF WillTell, m
    <3> QED  BY <1>k, <2>1, <2>7, <2>8, <3>6 DEF Kept, Holding
  <2> QED  BY <1>k, <2>10, <2>11
<1>4. CASE FileDone(r)
  <2>1. /\ mem'[r].events[a].pw = p /\ mem'[r].events[a].kind # "nothing"
    BY <1>4, <1>k, KeptByFileDone
  <2>2. PICK x : mem'[r] = [m EXCEPT !.events = x]
    BY <1>4, <1>t DEF FileDone, m
  <2>3. /\ mem'[r].queue = m.queue /\ mem'[r].cmd = m.cmd
        /\ mem'[r].failure = m.failure /\ mem'[r].file = m.file
    BY <1>t, <2>2 DEF Memory
  <2>4. p.file <= m.file
    BY <1>k, <1>m DEF Told, WillTell, m
  <2>5. pc'[r] = "sum"
    BY <1>4, <1>t DEF FileDone
  <2>6. Told(r, a, p)'
    BY <2>1, <2>3, <2>4, <2>5 DEF Told
  <2>7. Here(r)' = i
    BY <1>k, <2>3 DEF Here, m
  <2> QED  BY <1>k, <2>3, <2>5, <2>6, <2>7 DEF Kept, Holding
<1>5. CASE Record(r)
  <2>1. /\ mem'[r] = [m EXCEPT !.applied = TRUE, !.body = NoFile,
                               !.found = {}, !.made = {}]
        /\ pc[r] = "sum" /\ pc'[r] = "file"
    BY <1>5, <1>t DEF Record, m
  <2>2. Told(r, a, p)
    BY <1>k, <2>1 DEF WillTell
  <2>3. /\ mem'[r].queue = m.queue /\ mem'[r].cmd = m.cmd
        /\ mem'[r].failure = m.failure /\ mem'[r].events = m.events
        /\ mem'[r].file = m.file
    BY <1>t, <2>1 DEF Memory
  <2> QED  BY <1>c, <2>1, <2>2, <2>3
<1>6. CASE FileFails(r)
  <2>1. /\ mem'[r] = [m EXCEPT !.error = TRUE, !.body = NoFile, !.found = {},
                        !.made = {}, !.list = Unlisted, !.known = Unknown]
        /\ pc'[r] = "after"
        /\ pc[r] # "sum" => Losing(r, i, OfFile(m.file))
    BY <1>6, <1>t, <1>k DEF FileFails, m
  <2>2. WillTell(r, a, p) => pc[r] # "sum" /\ p \in OfFile(m.file)
    BY <1>p DEF WillTell, OfFile, m
  <2>3. Told(r, a, p)
    BY <1>k, <1>l, <2>1, <2>2
  <2>4. /\ mem'[r].queue = m.queue /\ mem'[r].cmd = m.cmd
        /\ mem'[r].failure = m.failure /\ mem'[r].events = m.events
        /\ mem'[r].file = m.file
    BY <1>t, <2>1 DEF Memory
  <2> QED  BY <1>c, <2>1, <2>3, <2>4
<1>7. ASSUME NEW seen \in SUBSET Accounts, After(r, seen)
      PROVE  Kept(r, i, a)'
  <2>1. pc[r] = "after"
    BY <1>7 DEF After
  <2>2. Told(r, a, p) /\ m.events[a].pw = p
    BY <1>k, <2>1 DEF WillTell, Told, m
  <2>3. m.events # Quiet
    BY <1>p, <2>2 DEF Quiet, Nothing
  <2>4. m.applied \/ m.error
    BY <2>1, <2>3 DEF Reports, m
  <2>5. pc'[r] = "copy"
    BY <1>7, <1>t, <2>3, <2>4 DEF After, m
  <2>6. PICK x, y : mem'[r] = [m EXCEPT !.bad = x, !.before = {}, !.bare = y]
    BY <1>7, <1>t DEF After, m
  <2>7. /\ mem'[r].queue = m.queue /\ mem'[r].cmd = m.cmd
        /\ mem'[r].failure = m.failure /\ mem'[r].events = m.events
        /\ mem'[r].file = m.file
    BY <1>t, <2>6 DEF Memory
  <2> QED  BY <1>c, <2>2, <2>5, <2>7
<1>8. CASE Copy(r)
  <2>1. Told(r, a, p)
    BY <1>8, <1>k DEF WillTell, Copy
  <2>2. m.events[a].pw = p
    BY <2>1 DEF Told, m
  <2>3. PICK row :
          /\ row = [b \in Accounts |->
               IF accounts[i][b] \in Secrets /\ m.events[b].pw = accounts[i][b]
               THEN "mailed" ELSE fate[i][b]]
          /\ fate' = [fate EXCEPT ![i] = row]
    BY <1>8, <1>k DEF Copy, m
  <2>4. row[a] = "mailed"
    BY <1>p, <2>2, <2>3
  <2>5. fate'[i] = row
    BY <2>3, <1>t DEF TypeOK
  <2> QED  BY <2>4, <2>5
<1>9. CASE Fails(r) \/ SaveFails(r) \/ Crash(r)
  <2>1. Losing(r, i, Secrets)
    BY <1>9, <1>k DEF Fails, SaveFails, Crash, Throw, m
  <2> QED  BY <1>l, <1>p, <2>1
<1>10. CASE \E seen \in SUBSET Accounts :
              CaptureBefore(r, seen) \/ VerifyCapture(r, seen)
  BY <1>10, <1>k DEF CaptureBefore, VerifyCapture, Holding, m
<1>11. CASE Start(r) \/ Gate(r) \/ Forget(r) \/ Begin(r) \/ Replace(r)
            \/ ReadCopies(r) \/ RemoveCopy(r) \/ NextInstance(r)
  BY <1>11, <1>k DEF Start, Gate, Forget, Begin, Replace, ReadCopies,
                     RemoveCopy, NextInstance, Holding
<1>12. CASE VerifyNext(r) \/ VerifyFails(r) \/ CleanupFails(r)
            \/ SummaryFails(r)
  BY <1>12, <1>k DEF VerifyNext, VerifyFails, CleanupFails, SummaryFails,
                     Holding, m
<1> QED
  BY <1>1, <1>2, <1>3, <1>4, <1>5, <1>6, <1>7, <1>8, <1>9, <1>10, <1>11,
     <1>12
  DEF Moves, Captures

(* A password that the step sets.                                          *)
LEMMA KeptNew ==
  ASSUME Basic, NEW r \in Runs, Execute(r), NEW i \in Places,
         NEW a \in Accounts, i = Here(r),
         a = Script[mem[r].body][mem[r].at].on,
         accounts'[i][a] # accounts[i][a],
         accounts'[i][a] = Secret(r), fate'[i][a] = "open", Reports(r)
  PROVE  Kept(r, i, a)'
<1> DEFINE m == mem[r]
           s == Script[m.body][m.at]
           old == accounts[i][s.on]
           new == Leaves(s.op, old, Password(r))
           made == IF s.op \in {"create", "replace"} /\ new # old
                   THEN m.made \cup {s.on} ELSE m.made
           stale == s.op = "create" /\ s.on \in m.found
                    /\ ~DropsBefore(m.body, m.at)
<1>t. /\ TypeOK /\ Hands /\ m \in Memory /\ mem \in [Runs -> Memory]
      /\ pc \in [Runs -> Working \cup Ended \cup {"ready"}]
  BY MemoryFacts DEF Basic, TypeOK
<1>1. /\ pc[r] = "exec" /\ pc'[r] = "exec" /\ m.body # NoFile
      /\ mem'[r] = [m EXCEPT !.at = m.at + 1, !.made = made]
      /\ m.at \in DOMAIN Script[m.body]
  BY <1>t DEF Execute, Goto, Remember
<1>2. s.op \in Ops /\ accounts'[i][s.on] = new
  BY <1>t, ExecuteFacts
<1>3. fate'[i][s.on] = IF new = old THEN fate[i][s.on]
                       ELSE IF new = Secret(r)
                               /\ (stale \/ m.cmd = "dcl:verify")
                            THEN "lost" ELSE "open"
  BY <1>t, ExecuteFacts
<1>s. /\ Secret(r) \in Secrets /\ Secret(r).run = r
      /\ Secret(r).file = m.file /\ Secret(r).at = m.at
      /\ m.cmd # "dcl:verify" => Secret(r).pass = 1
      /\ NoAccount \notin Secrets /\ Given \notin Secrets
      /\ m.at \in Nat
  BY <1>t, <1>1, SecretFacts, ConstantFacts
<1>5. s.on = a
  OBVIOUS
<1> HIDE DEF s, old
<1>4. /\ new \in {old, Password(r), NoAccount, Given}
      /\ s.op = "drop" => new = NoAccount
      /\ s.op = "other" => new \in {old, Given}
  <2>1. s.op \in Ops
    BY <1>2
  <2>2. /\ new \in {old, Password(r), NoAccount, Given}
        /\ s.op = "drop" => new = NoAccount
        /\ s.op = "other" =>
             IF old = NoAccount THEN new = Given ELSE new = old
    BY <2>1, LeavesFacts
  <2> HIDE DEF new
  <2> QED  BY <2>2
<1> HIDE DEF m, s, old, new, made, stale
<1>6. new = Secret(r) /\ new # old
  BY <1>2, <1>5 DEF old
<1>7. ~stale /\ m.cmd # "dcl:verify"
  BY <1>3, <1>5, <1>6
<1>8. Generates(Source(m)) /\ Password(r) = Secret(r)
  BY <1>4, <1>6, <1>s DEF Password, m
<1>9. s.op \in Generating
  BY <1>2, <1>4, <1>6, <1>s DEF Ops, Generating
<1>10. /\ mem'[r].queue = m.queue /\ mem'[r].cmd = m.cmd
       /\ mem'[r].failure = m.failure
       /\ mem'[r].file = m.file /\ mem'[r].body = m.body
       /\ mem'[r].list = m.list /\ mem'[r].found = m.found
       /\ mem'[r].at = m.at + 1 /\ mem'[r].made = made
  BY <1>t, <1>1 DEF Memory
<1>11. Here(r)' = i /\ Source(mem'[r]) = Source(m)
  BY <1>10 DEF Here, Source, m
<1>12. m.at \in Placeholders(m.body)
  BY <1>1, <1>9 DEF Placeholders, s
<1>13. Harmless(m.body, m.at, m.at + 1, a)
  <2>1. m.at \in Nat
    BY <1>s
  <2>2. \A n \in Nat : \A k \in (n + 1)..((n + 1) - 1) : FALSE
    OBVIOUS
  <2> QED  BY Zenon, <2>1, <2>2 DEF Harmless
<1>14. s.op \in {"create", "replace"} => a \in made
  BY <1>5, <1>6 DEF made
<1>15. PICK p : p = accounts'[i][a]
  OBVIOUS
<1>16. /\ p.file = m.file /\ p.at = m.at /\ p.pass = 1
       /\ Script[m.body][p.at] = s
  BY <1>s, <1>7, <1>15 DEF s
<1>17. ~(s.op = "create" /\ a \in m.found /\ ~DropsBefore(m.body, m.at))
  BY <1>5, <1>7 DEF stale
<1>18. WillTell(r, a, p)'
  <2>1. p.at < mem'[r].at
    <3>1. m.at \in Nat /\ p.at = m.at /\ mem'[r].at = m.at + 1
      BY Zenon, <1>s, <1>10, <1>16
    <3> HIDE DEF m
    <3> QED  BY <3>1
  <2> QED
    BY <2>1, <1>1, <1>5, <1>8, <1>10, <1>11, <1>12, <1>13, <1>14, <1>16, <1>17
    DEF WillTell
<1>19. ~m.failure
  BY <1>1 DEF Reports, AtWork, m
<1> QED  BY <1>1, <1>7, <1>10, <1>11, <1>15, <1>18, <1>19 DEF Kept, Holding

LEMMA KeptMove ==
  ASSUME Basic, CreatedOnce, KeptAll, NEW r \in Runs, Moves(r)
  PROVE  KeptAll'
<1>1. ASSUME NEW q \in Runs
      PROVE  Reports(q)'
  <2>1. CASE q = r
    BY <2>1, ReportsMove DEF KeptAll
  <2>2. CASE q # r
    <3>1. pc'[q] = pc[q] /\ mem'[q] = mem[q]
      BY <2>2, MoveIsLocal DEF Basic
    <3> QED  BY <3>1 DEF KeptAll, Reports
  <2> QED  BY <2>1, <2>2
<1>2. ASSUME NEW q \in Runs, NEW i \in Places, NEW a \in Accounts
      PROVE  Kept(q, i, a)'
  <2> SUFFICES ASSUME accounts'[i][a] \in Secrets, accounts'[i][a].run = q,
                      fate'[i][a] = "open"
               PROVE  Kept(q, i, a)'
    BY DEF Kept
  <2>k. Kept(q, i, a) /\ Reports(q)
    BY DEF KeptAll
  <2>1. CASE /\ accounts'[i][a] = accounts[i][a]
             /\ fate'[i][a] = "open" => fate[i][a] = "open"
    <3>1. CASE q = r
      BY <2>1, <2>k, <3>1, KeptSame
    <3>2. CASE q # r
      <4>1. pc'[q] = pc[q] /\ mem'[q] = mem[q]
        BY <3>2, MoveIsLocal DEF Basic
      <4>2. Here(q)' = Here(q)
        BY <4>1 DEF Here
      <4> QED  BY <2>1, <2>k, <4>1, <4>2 DEF Kept, Told, WillTell
    <3> QED  BY <3>1, <3>2
  <2>2. CASE /\ Execute(r) /\ i = Here(r)
             /\ a = Script[mem[r].body][mem[r].at].on
             /\ accounts'[i][a] # accounts[i][a]
             /\ accounts'[i][a] \in Secrets => accounts'[i][a] = Secret(r)
    <3>1. q = r
      <4>1. accounts'[i][a] = Secret(r)
        BY <2>2
      <4>2. Secret(r).run = r
        BY DEF Secret
      <4> QED  BY <4>1, <4>2
    <3> QED  BY <2>2, <2>k, <3>1, KeptNew
  <2> QED  BY <2>1, <2>2, OpenSteps
<1> QED  BY <1>1, <1>2 DEF KeptAll

LEMMA KeptAlways ==
  ASSUME CreatedOnce
  PROVE  Spec => [](Basic /\ KeptAll)
<1>1. Init => KeptAll
  <2> SUFFICES ASSUME Init
               PROVE  KeptAll
    OBVIOUS
  <2>1. ASSUME NEW r \in Runs
        PROVE  Reports(r)
    BY DEF Init, Reports, AtWork
  <2>2. ASSUME NEW r \in Runs, NEW i \in Places, NEW a \in Accounts
        PROVE  accounts[i][a] \notin Secrets
    <3>1. accounts[i][a] \in {Given, NoAccount}
      BY DEF Init
    <3> QED  BY <3>1, ConstantFacts
  <2> QED  BY <2>1, <2>2 DEF KeptAll, Kept
<1>2. Basic /\ KeptAll /\ [Next]_vars => KeptAll'
  <2> SUFFICES ASSUME Basic, KeptAll, [Next]_vars
               PROVE  KeptAll'
    OBVIOUS
  <2>1. ASSUME NEW r \in Runs, Moves(r)
        PROVE  KeptAll'
    BY <2>1, KeptMove
  <2>2. CASE UNCHANGED <<pc, mem, accounts, fate>>
    <3>1. ASSUME NEW r \in Runs
          PROVE  Reports(r)'
      BY <2>2 DEF KeptAll, Reports
    <3>2. ASSUME NEW r \in Runs, NEW i \in Places, NEW a \in Accounts
          PROVE  Kept(r, i, a)'
      <4>1. Here(r)' = Here(r)
        BY <2>2 DEF Here
      <4>2. Kept(r, i, a)
        BY DEF KeptAll
      <4> DEFINE p == accounts[i][a]
      <4>3. p' = p
        BY <2>2
      <4>4. Told(r, a, p) => Told(r, a, p)'
        BY <2>2, <4>1 DEF Told
      <4>5. WillTell(r, a, p) => WillTell(r, a, p)'
        BY <2>2, <4>1 DEF WillTell
      <4> QED  BY <2>2, <4>1, <4>2, <4>4, <4>5 DEF Kept
    <3> QED  BY <3>1, <3>2 DEF KeptAll
  <2> QED
    BY <2>1, <2>2, NextMoves DEF Edit, vars, servers, history
<1> QED  BY <1>1, <1>2, BasicAlways, PTL DEF Spec

(* docs/DCL-PASSWORD.md promises that no generated password is lost in     *)
(* silence.  For any number of runs, overlapping or not, whatever fails    *)
(* and whatever the developer changes: a generated password that is in     *)
(* force, and was neither in an email nor reported as lost, is still in    *)
(* the memory of the run that set it, whose email is still to come.  The   *)
(* files create an account once (CreatedOnce): for others it is false.     *)
THEOREM HandedOverHolds ==
  ASSUME CreatedOnce
  PROVE  Spec => []HandedOver
<1>1. Basic /\ KeptAll => HandedOver
  <2> SUFFICES ASSUME Basic, KeptAll, NEW i \in Places, NEW a \in Accounts,
                      accounts[i][a] \in Secrets, fate[i][a] = "open"
               PROVE  Holds(accounts[i][a].run, i, a)
    BY DEF HandedOver
  <2> DEFINE q == accounts[i][a].run
  <2>1. q \in Runs
    BY DEF Secrets
  <2> HIDE DEF q
  <2>2. Kept(q, i, a)
    BY <2>1 DEF KeptAll
  <2>3. /\ pc[q] \in Holding /\ Here(q) = i
        /\ Told(q, a, accounts[i][a]) \/ WillTell(q, a, accounts[i][a])
    BY <2>2 DEF Kept, q
  <2>4. Active(q)
    BY <2>3 DEF Active, Working, Holding
  <2> QED  BY <2>3, <2>4 DEF Holds, Told, WillTell, q
<1> QED  BY <1>1, KeptAlways, PTL

-----------------------------------------------------------------------------
(* Exit code 0.                                                            *)

Good(i, f, c) ==
  \/ c \in ran[i][f]
  \/ Kind[i] = "mongo" /\ ~Generates(c) /\ edits > 0

(* A recorded checksum is that of a content that was executed.             *)
SumsAreGood ==
  \A i \in Places, f \in Files, c \in Contents :
    sums[i][f] = Sha[c] => Good(i, f, c)

InLoop(r) == pc[r] \in {"file", "look", "exec", "sum"}
             /\ mem[r].cmd # "dcl:verify"

(* What the run has read, and what it has in hand.                         *)
Reading(r) ==
  LET m == mem[r] IN
  /\ pc[r] \in {"gate", "forget", "before", "begin"} => m.file = 0
  /\ Active(r) => \A f \in Files, c \in Contents :
       m.known[f] = Sha[c] => Good(Here(r), f, c)
  /\ InLoop(r) => m.list = disk \/ edits > 0
  /\ InLoop(r) /\ pc[r] \in {"look", "exec"} =>
       \/ m.body = Source(m)
       \/ Kind[Here(r)] = "mongo" /\ ~Generates(Source(m)) /\ edits > 0
  /\ pc[r] = "sum" => Good(Here(r), m.file, Source(m))

(* Still to come in the loop over the files.                               *)
Pending(r, i, f, c) ==
  /\ InLoop(r) /\ i = Here(r) /\ c = mem[r].list[f]
  /\ \/ f > mem[r].file
     \/ f = mem[r].file /\ pc[r] # "file"

(* What the run claims is true, or it knows better.                        *)
Claims(r) ==
  /\ ~Active(r) => claims[r] = {}
  /\ \A i \in Places, f \in Files, c \in Contents :
       <<i, f, c>> \in claims[r] =>
         \/ Good(i, f, c)
         \/ mem[r].bad
         \/ pc[r] = "after" /\ mem[r].error
         \/ Pending(r, i, f, c)

ClaimsGood == SumsAreGood /\ \A r \in Runs : Reading(r) /\ Claims(r)

(* Only a file done adds to what was executed, and no run changes a file.  *)
LEMMA RanSteps ==
  ASSUME Basic, NEW r \in Runs, Moves(r)
  PROVE  /\ policy' = policy /\ disk' = disk /\ edits' = edits
         /\ \A i \in Places, f \in Files : ran[i][f] \subseteq ran'[i][f]
<1>t. TypeOK /\ Hands /\ ran \in [Places -> [Files -> SUBSET Contents]]
  BY DEF Basic, TypeOK
<1> USE DEF world, history
<1>1. CASE FileDone(r)
  <2>1. Here(r) \in Places /\ mem[r].file \in Files
    BY <1>1, <1>t, MemoryFacts DEF FileDone, Hands, HandOf, Active, Working
  <2>2. ran' = [ran EXCEPT ![Here(r)][mem[r].file] =
                  ran[Here(r)][mem[r].file] \cup {mem[r].body}]
    BY <1>1 DEF FileDone
  <2>3. \A i \in Places, f \in Files : ran[i][f] \subseteq ran'[i][f]
    BY <1>t, <2>1, <2>2
  <2> QED  BY <1>1, <2>3 DEF FileDone
<1>2. CASE UNCHANGED <<policy, disk, edits, ran>>
  BY <1>2
<1>3. CASE Start(r) \/ Gate(r) \/ Forget(r) \/ Begin(r) \/ NextFile(r)
           \/ Look(r) \/ Execute(r) \/ Record(r)
  BY <1>2, <1>3 DEF Start, Gate, Forget, Begin, NextFile, Look, Execute, Record
<1>4. CASE Copy(r) \/ Replace(r) \/ ReadCopies(r) \/ RemoveCopy(r)
           \/ NextInstance(r) \/ VerifyNext(r) \/ FileFails(r)
           \/ VerifyFails(r)
  BY <1>2, <1>4 DEF Copy, Replace, ReadCopies, RemoveCopy, NextInstance,
                    VerifyNext, FileFails, VerifyFails
<1>5. CASE Captures(r) \/ Fails(r) \/ SaveFails(r) \/ CleanupFails(r)
           \/ SummaryFails(r) \/ Crash(r)
  BY <1>2, <1>5 DEF Captures, CaptureBefore, After, VerifyCapture, Fails,
                    SaveFails, CleanupFails, SummaryFails, Crash
<1> QED  BY <1>1, <1>3, <1>4, <1>5 DEF Moves

LEMMA GoodGrows ==
  ASSUME Basic, NEW r \in Runs, Moves(r), NEW i \in Places, NEW f \in Files,
         NEW c, Good(i, f, c)
  PROVE  Good(i, f, c)'
BY RanSteps DEF Good

(* A checksum changes to that of the file in hand, or is forgotten.        *)
LEMMA SumSteps ==
  ASSUME Basic, NEW r \in Runs, Moves(r), NEW i \in Places, NEW f \in Files
  PROVE  \/ sums'[i][f] = sums[i][f]
         \/ sums'[i][f] = NoSum
         \/ /\ pc[r] = "sum" /\ i = Here(r) /\ f = mem[r].file
            /\ sums'[i][f] = Sha[Source(mem[r])]
<1>t. /\ TypeOK /\ Hands
      /\ sums \in [Places -> [Files -> Sums \cup {NoSum}]]
  BY DEF Basic, TypeOK
<1> USE DEF servers
<1>1. ASSUME pc[r] = "sum", sums' = WithSum(r)
      PROVE  \/ sums'[i][f] = sums[i][f]
             \/ /\ i = Here(r) /\ f = mem[r].file
                /\ sums'[i][f] = Sha[Source(mem[r])]
  <2>1. sums' = [sums EXCEPT ![Here(r)][mem[r].file] = Sha[Source(mem[r])]]
    BY <1>1 DEF WithSum, Source
  <2> QED  BY <1>t, <2>1
<1>2. CASE Forget(r)
  <2>1. PICK row : /\ row = [g \in Files |-> IF g \in mem[r].orphans
                                            THEN NoSum ELSE sums[Here(r)][g]]
                   /\ sums' = [sums EXCEPT ![Here(r)] = row]
    BY <1>2 DEF Forget
  <2>2. row[f] \in {NoSum, sums[Here(r)][f]}
    BY <2>1
  <2>3. sums'[i] = sums[i] \/ (i = Here(r) /\ sums'[i] = row)
    BY <1>t, <2>1
  <2> QED  BY <2>2, <2>3
<1>3. CASE Record(r)
  BY <1>1, <1>3 DEF Record
<1>4. CASE FileFails(r)
  BY <1>1, <1>4 DEF FileFails
<1>5. CASE Start(r) \/ Gate(r) \/ Begin(r) \/ NextFile(r)
           \/ Look(r) \/ Execute(r) \/ FileDone(r)
  BY <1>5 DEF Start, Gate, Begin, NextFile, Look, Execute, FileDone
<1>6. CASE Copy(r) \/ Replace(r) \/ ReadCopies(r) \/ RemoveCopy(r)
           \/ NextInstance(r) \/ VerifyNext(r) \/ VerifyFails(r)
  BY <1>6 DEF Copy, Replace, ReadCopies, RemoveCopy, NextInstance,
              VerifyNext, VerifyFails
<1>7. CASE Captures(r) \/ Fails(r) \/ SaveFails(r) \/ CleanupFails(r)
           \/ SummaryFails(r) \/ Crash(r)
  BY <1>7 DEF Captures, CaptureBefore, After, VerifyCapture, Fails,
              SaveFails, CleanupFails, SummaryFails, Crash
<1> QED  BY <1>2, <1>3, <1>4, <1>5, <1>6, <1>7 DEF Moves

LEMMA SumsGoodMove ==
  ASSUME Basic, ClaimsGood, NEW r \in Runs, Moves(r)
  PROVE  SumsAreGood'
<1> SUFFICES ASSUME NEW i \in Places, NEW f \in Files, NEW c \in Contents,
                    sums'[i][f] = Sha[c]
             PROVE  Good(i, f, c)'
  BY DEF SumsAreGood
<1>1. Sha[c] # NoSum
  BY ConstantFacts
<1>2. CASE sums'[i][f] = sums[i][f]
  BY <1>2, GoodGrows DEF ClaimsGood, SumsAreGood
<1>3. CASE /\ pc[r] = "sum" /\ i = Here(r) /\ f = mem[r].file
           /\ sums'[i][f] = Sha[Source(mem[r])]
  <2>1. Source(mem[r]) \in Contents
    BY <1>3 DEF Basic, Hands, HandOf, Source
  <2>2. Source(mem[r]) = c
    BY <1>3, <2>1, ScriptAssumption
  <2>3. Good(i, f, c)
    BY <1>3, <2>2 DEF ClaimsGood, Reading
  <2> QED  BY <2>3, GoodGrows
<1> QED  BY <1>1, <1>2, <1>3, SumSteps

(* The run keeps the checksums that it has read, or forgets them.          *)
LEMMA KnownStays ==
  ASSUME Basic, NEW r \in Runs, Moves(r), Reading(r),
         \/ mem'[r].known = Unknown
         \/ /\ Active(r)
            /\ mem'[r].known = mem[r].known /\ mem'[r].queue = mem[r].queue
  PROVE  \A f \in Files, c \in Contents :
           mem'[r].known[f] = Sha[c] => Good(Here(r), f, c)'
<1>1. ASSUME NEW f \in Files, NEW c \in Contents, mem'[r].known[f] = Sha[c]
      PROVE  Good(Here(r), f, c)'
  <2>1. Sha[c] # NoSum
    BY ConstantFacts
  <2>2. /\ Active(r)
        /\ mem'[r].known = mem[r].known /\ mem'[r].queue = mem[r].queue
    BY <1>1, <2>1 DEF Unknown
  <2>3. Good(Here(r), f, c)
    BY <1>1, <2>2 DEF Reading
  <2>4. Here(r) \in Places
    BY <2>2, MemoryFacts DEF Basic, Hands, HandOf
  <2>5. PICK i \in Places : i = Here(r)
    BY <2>4
  <2>6. Good(i, f, c)'
    BY <2>3, <2>5, GoodGrows
  <2>7. Here(r)' = i
    BY <2>2, <2>5 DEF Here
  <2> QED  BY <2>6, <2>7 DEF Good
<1> QED  BY <1>1

LEMMA ReadingMove ==
  ASSUME Basic, ClaimsGood, NEW r \in Runs, Moves(r)
  PROVE  Reading(r)'
<1> DEFINE m == mem[r]
<1>t. /\ TypeOK /\ Hands /\ m \in Memory /\ mem \in [Runs -> Memory]
      /\ pc \in [Runs -> Working \cup Ended \cup {"ready"}]
      /\ disk' = disk /\ edits' = edits
  BY MemoryFacts, RanSteps DEF Basic, TypeOK
<1>r. Reading(r) /\ HandOf(r) /\ SumsAreGood
  BY <1>t DEF ClaimsGood, Hands
<1>k. Blank.known = Unknown /\ Blank.file = 0
  BY DEF Blank
<1> HIDE DEF m
<1> USE DEF Goto, Remember, Exit, Working, Ended, Active
(* Outside the loop.                                                       *)
<1>s. ASSUME pc'[r] \in {"gate", "forget", "before", "begin"}
               => mem'[r].file = 0,
             \/ mem'[r].known = Unknown
             \/ /\ Active(r)
                /\ mem'[r].known = m.known /\ mem'[r].queue = m.queue,
             \/ pc'[r] \notin {"file", "look", "exec", "sum"}
             \/ pc'[r] # "sum" /\ mem'[r].cmd = "dcl:verify"
      PROVE  Reading(r)'
  <2>1. ~InLoop(r)' /\ pc'[r] # "sum"
    BY <1>s DEF InLoop
  <2>2. \A f \in Files, c \in Contents :
          mem'[r].known[f] = Sha[c] => Good(Here(r), f, c)'
    BY <1>s, <1>r, KnownStays DEF m
  <2> QED  BY <1>s, <2>1, <2>2 DEF Reading
<1>e. ASSUME mem'[r] = Blank, pc'[r] \in Ended
      PROVE  Reading(r)'
  BY <1>e, <1>k, <1>s
<1>w. ASSUME Active(r), Throw(r)
      PROVE  Reading(r)'
  <2>1. CASE m.cmd = "dcl:verify"
    BY <1>t, <1>e, <1>w, <2>1 DEF Throw, m
  <2>2. CASE m.cmd # "dcl:verify"
    <3>1. /\ mem'[r] = [Afresh(r) EXCEPT !.bad = TRUE,
                          !.failure = (m.cmd = "dcl")]
          /\ pc'[r] \in {"copy", "next"}
      BY <1>t, <1>w, <2>2 DEF Throw, m
    <3>2. mem'[r].known = Unknown
      BY <3>1 DEF Afresh, Blank
    <3> QED  BY <1>s, <3>1, <3>2
  <2> QED  BY <2>1, <2>2
<1>1. CASE Start(r)
  <2>0. PICK c \in Commands[policy], v \in BOOLEAN, j \in Places :
          /\ Remember(r, [Blank EXCEPT !.cmd = c, !.validate = v,
                !.queue = IF c = "dcl-all" THEN Instances ELSE <<j>>])
          /\ Goto(r, IF c = "dcl:verify" THEN "verify" ELSE "gate")
    BY <1>1 DEF Start
  <2>1. /\ mem'[r] = [Blank EXCEPT !.cmd = c, !.validate = v,
                !.queue = IF c = "dcl-all" THEN Instances ELSE <<j>>]
        /\ pc'[r] \in {"verify", "gate"}
    BY <2>0, <1>t
  <2>2. mem'[r].known = Unknown /\ mem'[r].file = 0
    BY <2>1 DEF Blank
  <2> QED  BY <1>s, <2>1, <2>2
<1>2. CASE Gate(r) \/ Forget(r)
  <2>1. PICK x : mem'[r] = [m EXCEPT !.orphans = x]
    BY <1>2, <1>t DEF Gate, Forget, m
  <2>2. mem'[r].known = m.known /\ mem'[r].queue = m.queue
        /\ mem'[r].file = m.file
    BY <1>t, <2>1 DEF Memory
  <2>3. /\ pc[r] \in {"gate", "forget"} /\ pc'[r] \in {"before", "forget"}
        /\ m.file = 0
    BY <1>2, <1>t, <1>r DEF Gate, Forget, Reading, m
  <2> QED  BY <1>s, <2>2, <2>3
<1>3. CASE Begin(r)
  <2>1. /\ mem'[r] = [m EXCEPT !.list = disk, !.known = sums[Here(r)]]
        /\ pc'[r] = "file" /\ pc[r] = "begin"
    BY <1>3, <1>t DEF Begin, m
  <2>2. /\ mem'[r].list = disk /\ mem'[r].known = sums[Here(r)]
        /\ mem'[r].queue = m.queue
    BY <1>t, <2>1 DEF Memory
  <2>3. Here(r)' = Here(r) /\ Here(r) \in Places
    BY <2>1, <2>2, <1>r, <1>t, MemoryFacts DEF Here, HandOf, m
  <2>4. ASSUME NEW f \in Files, NEW c \in Contents, mem'[r].known[f] = Sha[c]
        PROVE  Good(Here(r), f, c)'
    <3>1. PICK i \in Places : i = Here(r)
      BY <2>3
    <3>2. Good(i, f, c)
      BY <1>r, <2>2, <2>4, <3>1 DEF SumsAreGood
    <3>3. Good(i, f, c)'
      BY <3>2, GoodGrows
    <3> QED  BY <2>3, <3>1, <3>3 DEF Good
  <2> QED  BY <1>t, <2>1, <2>2, <2>4 DEF Reading
<1>4. CASE NextFile(r)
  <2>1. pc[r] = "file" /\ m.cmd # "dcl:verify"
    BY <1>4, <1>r DEF NextFile, HandOf, m
  <2>2. CASE pc'[r] = "after"
    <3>1. PICK x : mem'[r] = [m EXCEPT !.skipped = x, !.list = Unlisted,
                                       !.known = Unknown]
      BY <1>4, <1>t, <2>2, NextFileFacts DEF m
    <3>2. mem'[r].known = Unknown
      BY <1>t, <3>1 DEF Memory
    <3> QED  BY <1>s, <2>2, <3>2
  <2>3. CASE pc'[r] # "after"
    <3>1. /\ mem'[r].list = m.list /\ mem'[r].known = m.known
          /\ mem'[r].queue = m.queue /\ mem'[r].cmd = m.cmd
      BY <1>4, <1>t, <2>3, NextFileKeeps DEF m
    <3>2. pc'[r] \in {"look", "exec"}
      BY <1>4, <1>t, <2>3, NextFileKeeps
    <3>3. \A f \in Files, c \in Contents :
            mem'[r].known[f] = Sha[c] => Good(Here(r), f, c)'
      BY <1>r, <2>1, <3>1, KnownStays DEF m
    <3>4. m.list = disk \/ edits > 0
      BY <1>r, <2>1 DEF Reading, InLoop, m
    <3>w. PICK skips : skips = {f \in Refused(m) :
                                 \A g \in Stale(m) \ Refused(m) : f < g}
      OBVIOUS
    <3>5. PICK f \in Stale(m) \ Refused(m) :
            mem'[r] = [m EXCEPT !.file = f, !.at = 1,
                         !.skipped = m.skipped \/ skips # {},
                         !.body = IF \/ Kind[Here(r)] = "maria"
                                     \/ Generates(m.list[f])
                                  THEN m.list[f] ELSE disk[f],
                         !.found = {}, !.made = {}]
      BY ZenonT(60), <1>4, <1>t, <2>3, <3>w, NextFileFacts DEF m
    <3>6. /\ mem'[r].file = f
          /\ mem'[r].body = IF \/ Kind[Here(r)] = "maria"
                               \/ Generates(m.list[f])
                            THEN m.list[f] ELSE disk[f]
      BY <1>t, <3>5 DEF Memory
    <3>7. Source(mem'[r]) = m.list[f] /\ Here(r)' = Here(r)
      BY <3>1, <3>6 DEF Source, Here, m
    <3>8. Kind[Here(r)] \in {"maria", "mongo"}
      BY <1>r, <1>t, <2>1, MemoryFacts, ConstantFacts DEF HandOf
    <3>9. \/ mem'[r].body = Source(mem'[r])
          \/ /\ Kind[Here(r)'] = "mongo" /\ ~Generates(Source(mem'[r]))
             /\ edits > 0
      BY <3>4, <3>6, <3>7, <3>8
    <3> QED  BY <1>t, <3>1, <3>2, <3>3, <3>4, <3>9 DEF Reading
  <2> QED  BY <2>2, <2>3
<1>5. CASE Look(r) \/ Execute(r)
  <2>1. \/ \E x : mem'[r] = [m EXCEPT !.found = x]
        \/ \E x : mem'[r] = [m EXCEPT !.at = m.at + 1, !.made = x]
    <3>1. CASE Look(r)
      BY <1>t, <3>1 DEF Look, m
    <3>2. CASE Execute(r)
      BY <1>t, <3>2 DEF Execute, m
    <3> QED  BY <1>5, <3>1, <3>2
  <2>2. /\ mem'[r].known = m.known /\ mem'[r].queue = m.queue
        /\ mem'[r].list = m.list /\ mem'[r].body = m.body
        /\ mem'[r].cmd = m.cmd /\ mem'[r].file = m.file
    BY ZenonT(60), <1>t, <2>1 DEF Memory
  <2>3. pc[r] \in {"look", "exec"} /\ pc'[r] = "exec"
    <3>1. CASE Look(r)
      BY <1>t, <3>1 DEF Look
    <3>2. CASE Execute(r)
      BY <1>t, <3>2 DEF Execute
    <3> QED  BY <1>5, <3>1, <3>2
  <2>4. \A f \in Files, c \in Contents :
          mem'[r].known[f] = Sha[c] => Good(Here(r), f, c)'
    BY <1>r, <2>2, <2>3, KnownStays DEF m
  <2>5. Source(mem'[r]) = Source(m) /\ Here(r)' = Here(r)
    BY <2>2 DEF Source, Here, m
  <2>6. m.cmd # "dcl:verify" =>
          /\ m.list = disk \/ edits > 0
          /\ \/ m.body = Source(m)
             \/ Kind[Here(r)] = "mongo" /\ ~Generates(Source(m)) /\ edits > 0
    BY <1>r, <2>3 DEF Reading, InLoop, m
  <2> QED  BY <1>t, <2>2, <2>3, <2>4, <2>5, <2>6 DEF Reading, InLoop
<1>6. CASE FileDone(r)
  <2>a. ran' = [ran EXCEPT ![Here(r)][mem[r].file] =
                  ran[Here(r)][mem[r].file] \cup {mem[r].body}]
    BY <1>6 DEF FileDone
  <2>b. pc[r] = "exec" /\ pc'[r] = "sum" /\ m.cmd # "dcl:verify"
        /\ m.body # NoFile
    BY <1>6, <1>t DEF FileDone, m
  <2>c. m.body \in Contents
    BY <1>t, <2>b DEF Memory
  <2>1. /\ pc[r] = "exec" /\ pc'[r] = "sum" /\ m.cmd # "dcl:verify"
        /\ m.body \in Contents
        /\ ran' = [ran EXCEPT ![Here(r)][m.file] =
                     ran[Here(r)][m.file] \cup {m.body}]
    BY <2>a, <2>b, <2>c DEF m
  <2>2. PICK x : mem'[r] = [m EXCEPT !.events = x]
    BY <1>6, <1>t DEF FileDone, m
  <2>3. /\ mem'[r].known = m.known /\ mem'[r].queue = m.queue
        /\ mem'[r].list = m.list /\ mem'[r].file = m.file
        /\ mem'[r].cmd = m.cmd
    BY <1>t, <2>2 DEF Memory
  <2>4. \A f \in Files, c \in Contents :
          mem'[r].known[f] = Sha[c] => Good(Here(r), f, c)'
    BY <1>r, <2>1, <2>3, KnownStays DEF m
  <2>5. Source(mem'[r]) = Source(m) /\ Here(r)' = Here(r)
    BY <2>3 DEF Source, Here, m
  <2>6. /\ m.list = disk \/ edits > 0
        /\ \/ m.body = Source(m)
           \/ Kind[Here(r)] = "mongo" /\ ~Generates(Source(m)) /\ edits > 0
    BY <1>r, <2>1 DEF Reading, InLoop, m
  <2>7. PICK i \in Places, f \in Files, c \in Contents :
          i = Here(r) /\ f = m.file /\ c = Source(m)
    BY <1>r, <1>t, <2>1, MemoryFacts DEF HandOf, Source, m
  <2>8. m.body \in ran'[i][f]
    BY <1>t, <2>1, <2>7 DEF TypeOK
  <2>9. Good(i, f, c)'
    BY <1>t, <2>6, <2>7, <2>8 DEF Good
  <2>10. /\ mem'[r].file = f /\ Source(mem'[r]) = c /\ Here(r)' = i
         /\ c = Source(m) /\ i = Here(r)
    BY <2>3, <2>5, <2>7
  <2>11. Good(Here(r), mem[r].file, Source(mem[r]))'
    BY <2>9, <2>10 DEF Good
  <2>12. InLoop(r)' => mem'[r].list = disk'
                       \/ edits' > 0
    BY <1>t, <2>3, <2>6
  <2> QED  BY <2>1, <2>4, <2>11, <2>12 DEF Reading
<1>7. CASE Record(r)
  <2>1. /\ mem'[r] = [m EXCEPT !.applied = TRUE, !.body = NoFile,
                               !.found = {}, !.made = {}]
        /\ pc'[r] = "file" /\ pc[r] = "sum"
    BY <1>7, <1>t DEF Record, m
  <2>2. /\ mem'[r].known = m.known /\ mem'[r].queue = m.queue
        /\ mem'[r].list = m.list
    BY <1>t, <2>1 DEF Memory
  <2>3. m.list = disk \/ edits > 0
    BY <1>r, <2>1 DEF Reading, InLoop, HandOf, m
  <2>4. \A f \in Files, c \in Contents :
          mem'[r].known[f] = Sha[c] => Good(Here(r), f, c)'
    BY <1>r, <2>1, <2>2, KnownStays DEF m
  <2> QED  BY <1>t, <2>1, <2>2, <2>3, <2>4 DEF Reading
<1>8. CASE FileFails(r)
  <2>1. /\ mem'[r] = [m EXCEPT !.error = TRUE, !.body = NoFile, !.found = {},
                        !.made = {}, !.list = Unlisted, !.known = Unknown]
        /\ pc'[r] = "after"
    BY <1>8, <1>t DEF FileFails, m
  <2>2. mem'[r].known = Unknown
    BY <1>t, <2>1 DEF Memory
  <2> QED  BY <1>s, <2>1, <2>2
<1>9. CASE Copy(r)
  BY <1>9, <1>s, <1>t DEF Copy, m
<1>10. CASE Replace(r)
  <2>1. mem'[r] = [m EXCEPT !.events = Quiet, !.bare = {}]
        /\ pc[r] = "latest" /\ pc'[r] \in {"next", "prune"}
    BY <1>10, <1>t DEF Replace, m
  <2>2. mem'[r].known = m.known /\ mem'[r].queue = m.queue
    BY <1>t, <2>1 DEF Memory
  <2> QED  BY <1>s, <2>1, <2>2
<1>11. CASE ReadCopies(r) \/ RemoveCopy(r) \/ CleanupFails(r)
  <2>1. PICK x : mem'[r] = [m EXCEPT !.victims = x]
    BY <1>11, <1>t DEF ReadCopies, RemoveCopy, CleanupFails, m
  <2>2. mem'[r].known = m.known /\ mem'[r].queue = m.queue
    BY <1>t, <2>1 DEF Memory
  <2>3. pc[r] \in {"prune", "remove"} /\ pc'[r] \in {"next", "remove"}
    BY <1>11, <1>t DEF ReadCopies, RemoveCopy, CleanupFails
  <2> QED  BY <1>s, <2>2, <2>3
<1>12. CASE NextInstance(r)
  <2>1. CASE Tail(m.queue) # <<>>
    <3>1. /\ mem'[r] = [Afresh(r) EXCEPT !.queue = Tail(m.queue)]
          /\ pc'[r] = "gate"
      BY <1>12, <1>t, <2>1 DEF NextInstance, m
    <3>2. mem'[r].known = Unknown /\ mem'[r].file = 0
      BY <3>1 DEF Afresh, Blank
    <3> QED  BY <1>s, <3>1, <3>2
  <2>2. CASE Tail(m.queue) = <<>>
    BY <1>12, <1>e, <1>t, <2>2 DEF NextInstance, m
  <2> QED  BY <2>1, <2>2
<1>13. CASE VerifyNext(r)
  <2> DEFINE list == IF m.file = 0 THEN disk ELSE m.list
  <2>1. \/ mem'[r] = Blank /\ pc'[r] \in Ended
        \/ \E f \in Files :
             /\ mem'[r] = [m EXCEPT !.list = list, !.file = f, !.at = 1,
                                    !.pass = 1, !.body = list[f]]
             /\ pc'[r] = "exec"
    BY <1>13, <1>t DEF VerifyNext, m
  <2> HIDE DEF list
  <2>2. ASSUME NEW f \in Files, pc'[r] = "exec",
               mem'[r] = [m EXCEPT !.list = list, !.file = f, !.at = 1,
                                   !.pass = 1, !.body = list[f]]
        PROVE  Reading(r)'
    <3>1. /\ mem'[r].known = m.known /\ mem'[r].queue = m.queue
          /\ mem'[r].cmd = m.cmd
      BY <1>t, <2>2 DEF Memory
    <3>2. pc[r] = "verify" /\ m.cmd = "dcl:verify"
      BY <1>13, <1>r DEF VerifyNext, HandOf, m
    <3> QED  BY <1>s, <2>2, <3>1, <3>2
  <2> QED  BY <1>e, <2>1, <2>2
<1>14. CASE VerifyFails(r)
  <2>1. mem'[r] = [m EXCEPT !.bad = TRUE, !.before = {}, !.body = NoFile]
        /\ pc[r] = "exec" /\ pc'[r] = "verify"
    BY <1>14, <1>t DEF VerifyFails, m
  <2>2. mem'[r].known = m.known /\ mem'[r].queue = m.queue
    BY <1>t, <2>1 DEF Memory
  <2> QED  BY <1>s, <2>1, <2>2
<1>15. CASE Captures(r)
  <2>1. PICK seen \in SUBSET Accounts :
          CaptureBefore(r, seen) \/ After(r, seen) \/ VerifyCapture(r, seen)
    BY <1>15 DEF Captures
  <2>2. CASE CaptureBefore(r, seen)
    <3>1. /\ mem'[r] = [m EXCEPT !.before = seen]
          /\ pc[r] = "before" /\ pc'[r] = "begin" /\ m.file = 0
      BY <2>2, <1>t, <1>r DEF CaptureBefore, Reading, m
    <3>2. mem'[r].known = m.known /\ mem'[r].queue = m.queue
          /\ mem'[r].file = 0
      BY <1>t, <3>1 DEF Memory
    <3> QED  BY <1>s, <3>1, <3>2
  <2>3. CASE After(r, seen)
    <3>1. PICK x, y : mem'[r] = [m EXCEPT !.bad = x, !.before = {}, !.bare = y]
      BY <2>3, <1>t DEF After, m
    <3>2. mem'[r].known = m.known /\ mem'[r].queue = m.queue
      BY <1>t, <3>1 DEF Memory
    <3>3. pc[r] = "after" /\ pc'[r] \in {"copy", "next"}
      BY <2>3, <1>t DEF After
    <3> QED  BY <1>s, <3>2, <3>3
  <2>4. CASE VerifyCapture(r, seen)
    <3>1. pc[r] = "exec" /\ m.cmd = "dcl:verify"
      BY <2>4 DEF VerifyCapture, m
    <3>2. \/ /\ mem'[r] = [m EXCEPT !.before = seen, !.pass = 2, !.at = 1]
             /\ pc'[r] = "exec"
          \/ /\ \E x : mem'[r] = [m EXCEPT !.bad = x,
                                  !.before = {}, !.body = NoFile]
             /\ pc'[r] = "verify"
      BY ZenonT(60), <2>4, <1>t DEF VerifyCapture, m
    <3>3. /\ mem'[r].known = m.known /\ mem'[r].queue = m.queue
          /\ mem'[r].cmd = m.cmd
      BY ZenonT(60), <1>t, <3>2 DEF Memory
    <3> QED  BY <1>s, <3>1, <3>2, <3>3
  <2> QED  BY <2>1, <2>2, <2>3, <2>4
<1>16. CASE Fails(r)
  BY <1>16, <1>w DEF Fails
<1>17. CASE SaveFails(r)
  <2>1. CASE mem[r].failure
    BY <1>17, <1>t, <1>e, <2>1 DEF SaveFails
  <2>2. CASE ~mem[r].failure
    BY <1>17, <1>w, <2>2 DEF SaveFails
  <2> QED  BY <2>1, <2>2
<1>18. CASE SummaryFails(r) \/ Crash(r)
  BY <1>18, <1>t, <1>e DEF SummaryFails, Crash
<1> QED
  BY <1>1, <1>2, <1>3, <1>4, <1>5, <1>6, <1>7, <1>8, <1>9, <1>10, <1>11,
     <1>12, <1>13, <1>14, <1>15, <1>16, <1>17, <1>18
  DEF Moves

(* A claim of a run about a content, and what becomes of it.               *)
LEMMA ClaimsMove ==
  ASSUME Basic, ClaimsGood, NEW r \in Runs, Moves(r)
  PROVE  Claims(r)'
<1> DEFINE m == mem[r]
           Sound(i, f, c) == \/ Good(i, f, c)
                             \/ mem[r].bad
                             \/ pc[r] = "after" /\ mem[r].error
                             \/ Pending(r, i, f, c)
<1>t. /\ TypeOK /\ Hands /\ m \in Memory /\ mem \in [Runs -> Memory]
      /\ pc \in [Runs -> Working \cup Ended \cup {"ready"}]
      /\ claims \in [Runs -> SUBSET (Places \X Files \X Contents)]
      /\ disk' = disk
  BY MemoryFacts, RanSteps DEF Basic, TypeOK
<1>r. Reading(r) /\ HandOf(r) /\ Claims(r)
  BY <1>t DEF ClaimsGood, Hands
<1>k. \A i \in Places, f \in Files, c \in Contents :
        <<i, f, c>> \in claims[r] => Sound(i, f, c)
  BY <1>r DEF Claims
<1>g. \A i \in Places, f \in Files, c \in Contents :
        Good(i, f, c) => Good(i, f, c)'
  BY GoodGrows
<1> HIDE DEF m
<1> USE DEF Goto, Remember, Working, Ended, Active
<1>q. ASSUME Active(r)',
             \A i \in Places, f \in Files, c \in Contents :
               <<i, f, c>> \in claims'[r] => Sound(i, f, c)'
      PROVE  Claims(r)'
  BY <1>q DEF Claims
(* The run has no file before it: it knows what went wrong, or nothing did.*)
<1>s. ASSUME claims'[r] = claims[r], pc'[r] \in Working,
             ~InLoop(r), m.bad => mem'[r].bad,
             pc[r] = "after" /\ m.error => mem'[r].bad
      PROVE  Claims(r)'
  <2>1. ASSUME NEW i \in Places, NEW f \in Files, NEW c \in Contents,
               <<i, f, c>> \in claims'[r]
        PROVE  Sound(i, f, c)'
    <3>1. Sound(i, f, c)
      BY <1>k, <1>s, <2>1
    <3>2. ~Pending(r, i, f, c)
      BY <1>s DEF Pending
    <3>3. Good(i, f, c) \/ mem'[r].bad
      BY <1>s, <3>1, <3>2 DEF m
    <3> QED  BY <1>g, <3>3
  <2> QED  BY <1>q, <1>s, <2>1
(* It goes on with the file in hand.                                       *)
<1>l. ASSUME claims'[r] = claims[r], InLoop(r), m.cmd # "dcl:verify",
             pc'[r] \in {"look", "exec", "sum"},
             mem'[r].cmd = m.cmd, mem'[r].queue = m.queue,
             mem'[r].list = m.list, mem'[r].file = m.file,
             mem'[r].bad = m.bad
      PROVE  Claims(r)'
  <2>1. Here(r)' = Here(r) /\ InLoop(r)'
    BY <1>l DEF Here, InLoop, m
  <2>2. ASSUME NEW i \in Places, NEW f \in Files, NEW c \in Contents,
               <<i, f, c>> \in claims'[r]
        PROVE  Sound(i, f, c)'
    <3>1. Sound(i, f, c) /\ pc[r] # "after"
      BY <1>k, <1>l, <2>2 DEF InLoop
    <3>2. Pending(r, i, f, c) => Pending(r, i, f, c)'
      BY <1>l, <2>1 DEF Pending, m
    <3>3. Good(i, f, c) \/ mem'[r].bad \/ Pending(r, i, f, c)
      BY <1>l, <3>1 DEF m
    <3> QED  BY <1>g, <3>2, <3>3
  <2> QED  BY <1>q, <1>l, <2>2
<1>e. ASSUME Exit(r, "done") \/ Exit(r, "failed") \/ Exit(r, "crashed")
      PROVE  Claims(r)'
  BY <1>t, <1>e DEF Exit, Claims
<1>b. ASSUME mem'[r].bad, pc'[r] \in Working
      PROVE  Claims(r)'
  BY <1>b, <1>q
<1>w. ASSUME Throw(r)
      PROVE  Claims(r)'
  <2>1. CASE m.cmd = "dcl:verify"
    BY <1>e, <1>w, <2>1 DEF Throw, m
  <2>2. CASE m.cmd # "dcl:verify"
    <3>1. /\ mem'[r] = [Afresh(r) EXCEPT !.bad = TRUE,
                          !.failure = (m.cmd = "dcl")]
          /\ pc'[r] \in {"copy", "next"}
      BY <1>t, <1>w, <2>2 DEF Throw, m
    <3>2. mem'[r].bad
      BY <3>1 DEF Afresh, Blank
    <3> QED  BY <1>b, <3>1, <3>2
  <2> QED  BY <2>1, <2>2
<1>1. CASE Start(r)
  <2>1. claims'[r] = claims[r] /\ pc[r] = "ready"
    BY <1>1 DEF Start, history
  <2>2. claims[r] = {}
    BY <1>r, <2>1 DEF Claims
  <2> QED  BY <2>1, <2>2 DEF Claims
<1>2. CASE Gate(r) \/ Forget(r)
  <2>1. PICK x : mem'[r] = [m EXCEPT !.orphans = x]
    BY <1>2, <1>t DEF Gate, Forget, m
  <2>2. mem'[r].bad = m.bad
    BY <1>t, <2>1 DEF Memory
  <2>3. /\ pc[r] \in {"gate", "forget"} /\ pc'[r] \in {"before", "forget"}
        /\ claims' = claims
    BY <1>2, <1>t DEF Gate, Forget, history
  <2> QED  BY <1>s, <2>2, <2>3 DEF InLoop
<1>3. CASE Begin(r)
  <2>1. /\ mem'[r] = [m EXCEPT !.list = disk, !.known = sums[Here(r)]]
        /\ pc'[r] = "file" /\ pc[r] = "begin"
    BY <1>3, <1>t DEF Begin, m
  <2>2. /\ mem'[r].list = disk /\ mem'[r].queue = m.queue
        /\ mem'[r].file = m.file /\ mem'[r].bad = m.bad
        /\ mem'[r].cmd = m.cmd
    BY <1>t, <2>1 DEF Memory
  <2>3. m.file = 0 /\ Here(r)' = Here(r) /\ m.cmd # "dcl:verify"
    BY <1>r, <2>1, <2>2 DEF Reading, Here, HandOf, m
  <2>4. claims'[r] = claims[r] \cup
          {<<Here(r), f, disk[f]>> : f \in {g \in Files : disk[g] # NoFile}}
    BY <1>3, <1>t DEF Begin
  <2>5. ASSUME NEW i \in Places, NEW f \in Files, NEW c \in Contents,
               <<i, f, c>> \in claims'[r]
        PROVE  Sound(i, f, c)'
    <3>1. CASE <<i, f, c>> \in claims[r]
      <4>1. Sound(i, f, c) /\ ~Pending(r, i, f, c)
        BY <1>k, <2>1, <3>1 DEF Pending, InLoop
      <4>2. Good(i, f, c) \/ mem'[r].bad
        BY <2>1, <2>2, <4>1 DEF m
      <4> QED  BY <1>g, <4>2
    <3>2. CASE <<i, f, c>> \notin claims[r]
      <4>1. i = Here(r) /\ c = disk[f]
        BY <2>4, <2>5, <3>2
      <4>2. f > 0
        BY ConstantFacts DEF Files
      <4>3. i = Here(r)' /\ c = mem'[r].list[f] /\ f > mem'[r].file
        BY <2>2, <2>3, <4>1, <4>2
      <4> QED  BY <2>1, <2>2, <2>3, <4>3 DEF Pending, InLoop
    <3> QED  BY <3>1, <3>2
  <2> QED  BY <1>q, <2>1, <2>5
<1>4. CASE NextFile(r)
  <2> DEFINE wanted == Stale(m) \ Refused(m)
  <2>w. PICK skips : skips = {f \in Refused(m) : \A g \in wanted : f < g}
    OBVIOUS
  <2>0. /\ pc[r] = "file"
        /\ claims' = [claims EXCEPT ![r] =
             claims[r] \ {<<Here(r), f, m.list[f]>> : f \in skips}]
        /\ \/ pc'[r] = "after" /\ wanted = {}
           \/ \E f \in wanted :
                /\ \A g \in wanted : f <= g
                /\ mem'[r] = [m EXCEPT !.file = f, !.at = 1,
                     !.skipped = m.skipped \/ skips # {},
                     !.body = IF \/ Kind[Here(r)] = "maria"
                                 \/ Generates(m.list[f])
                              THEN m.list[f] ELSE disk[f],
                     !.found = {}, !.made = {}]
                /\ pc'[r] \in {"look", "exec"}
    BY <1>4, <1>t, <2>w, NextFileFacts DEF m
  <2>1. /\ mem'[r].bad = m.bad /\ mem'[r].cmd = m.cmd
        /\ mem'[r].queue = m.queue
        /\ pc'[r] # "after" => mem'[r].list = m.list
    BY <1>4, <1>t, NextFileKeeps DEF m
  <2>2. m.cmd # "dcl:verify" /\ Here(r)' = Here(r)
    BY <1>r, <2>0, <2>1 DEF HandOf, Here, m
  <2>3. claims'[r] \subseteq claims[r]
    BY <1>t, <2>0
(* What the run passes by is as recorded, or left out of its claims.       *)
  <2>4. ASSUME NEW i \in Places, NEW f \in Files, NEW c \in Contents,
               <<i, f, c>> \in claims'[r], Pending(r, i, f, c),
               \A g \in wanted : f < g
        PROVE  Good(i, f, c)
    <3>1. i = Here(r) /\ c = m.list[f] /\ f > m.file
      BY <2>0, <2>4 DEF Pending, m
    <3>2. f \notin skips
      BY <1>t, <2>0, <2>4, <3>1
    <3>3. f \notin wanted
      BY <2>4 DEF Files
    <3>4. f \notin Stale(m)
      BY <2>4, <2>w, <3>2, <3>3
    <3>5. c # NoFile
      BY ConstantFacts
    <3>6. m.known[f] = Sha[c]
      BY <3>1, <3>4, <3>5 DEF Stale
    <3> QED  BY <1>r, <2>0, <3>1, <3>6 DEF Reading, m
  <2>5. CASE pc'[r] = "after" /\ wanted = {}
    <3>1. ASSUME NEW i \in Places, NEW f \in Files, NEW c \in Contents,
                 <<i, f, c>> \in claims'[r]
          PROVE  Sound(i, f, c)'
      <4>1. Sound(i, f, c)
        BY <1>k, <2>3, <3>1
      <4>2. Good(i, f, c) \/ mem'[r].bad
        BY <2>0, <2>1, <2>4, <2>5, <3>1, <4>1 DEF m
      <4> QED  BY <1>g, <4>2
    <3> QED  BY <1>q, <2>5, <3>1
  <2>6. ASSUME NEW f0 \in wanted,
               \A g \in wanted : f0 <= g,
               mem'[r].file = f0, pc'[r] \in {"look", "exec"}
        PROVE  Claims(r)'
    <3>1. ASSUME NEW i \in Places, NEW f \in Files, NEW c \in Contents,
                 <<i, f, c>> \in claims'[r]
          PROVE  Sound(i, f, c)'
      <4>1. Sound(i, f, c)
        BY <1>k, <2>3, <3>1
      <4>2. Good(i, f, c) \/ mem'[r].bad \/ Pending(r, i, f, c)
        BY <2>0, <2>1, <4>1 DEF m
      <4>3. CASE Pending(r, i, f, c) /\ f < f0
        <5>1. \A g \in wanted : f < g
          BY <2>6, <4>3 DEF Stale, Files
        <5> QED  BY <1>g, <2>4, <3>1, <4>3, <5>1
      <4>4. CASE Pending(r, i, f, c) /\ ~(f < f0)
        <5>1. f0 \in Files
          BY DEF Stale
        <5>2. f > mem'[r].file \/ f = mem'[r].file
          BY <2>6, <4>4, <5>1 DEF Files
        <5>3. i = Here(r)' /\ c = mem'[r].list[f]
          BY <2>1, <2>2, <2>6, <4>4 DEF Pending, m
        <5> QED  BY <2>1, <2>2, <2>6, <5>2, <5>3 DEF Pending, InLoop
      <4> QED  BY <1>g, <4>2, <4>3, <4>4
    <3> QED  BY <1>q, <2>6, <3>1
  <2>7. ASSUME NEW f \in wanted,
               mem'[r] = [m EXCEPT !.file = f, !.at = 1,
                     !.skipped = m.skipped \/ skips # {},
                     !.body = IF \/ Kind[Here(r)] = "maria"
                                 \/ Generates(m.list[f])
                              THEN m.list[f] ELSE disk[f],
                     !.found = {}, !.made = {}]
        PROVE  mem'[r].file = f
    BY <1>t, <2>7 DEF Memory
  <2> HIDE DEF wanted
  <2> QED  BY <2>0, <2>5, <2>6, <2>7
<1>5. CASE Look(r) \/ Execute(r)
  <2>1. \/ \E x : mem'[r] = [m EXCEPT !.found = x]
        \/ \E x : mem'[r] = [m EXCEPT !.at = m.at + 1, !.made = x]
    <3>1. CASE Look(r)
      BY <1>t, <3>1 DEF Look, m
    <3>2. CASE Execute(r)
      BY <1>t, <3>2 DEF Execute, m
    <3> QED  BY <1>5, <3>1, <3>2
  <2>2. /\ mem'[r].queue = m.queue /\ mem'[r].list = m.list
        /\ mem'[r].cmd = m.cmd /\ mem'[r].file = m.file
        /\ mem'[r].bad = m.bad
    BY <1>t, <2>1 DEF Memory
  <2>3. /\ pc[r] \in {"look", "exec"} /\ pc'[r] = "exec"
        /\ claims' = claims
    <3>1. CASE Look(r)
      BY <1>t, <3>1 DEF Look, history
    <3>2. CASE Execute(r)
      BY <1>t, <3>2 DEF Execute
    <3> QED  BY <1>5, <3>1, <3>2
  <2>4. CASE m.cmd = "dcl:verify"
    BY <1>s, <2>2, <2>3, <2>4 DEF InLoop, m
  <2>5. CASE m.cmd # "dcl:verify"
    BY <1>l, <2>2, <2>3, <2>5 DEF InLoop, m
  <2> QED  BY <2>4, <2>5
<1>6. CASE FileDone(r)
  <2>1. PICK x : mem'[r] = [m EXCEPT !.events = x]
    BY <1>6, <1>t DEF FileDone, m
  <2>2. /\ mem'[r].queue = m.queue /\ mem'[r].list = m.list
        /\ mem'[r].cmd = m.cmd /\ mem'[r].file = m.file
        /\ mem'[r].bad = m.bad
    BY <1>t, <2>1 DEF Memory
  <2>3. /\ pc[r] = "exec" /\ pc'[r] = "sum" /\ m.cmd # "dcl:verify"
        /\ claims' = claims
    BY <1>6, <1>t DEF FileDone, m
  <2> QED  BY <1>l, <2>2, <2>3 DEF InLoop, m
<1>7. CASE Record(r)
  <2>1. /\ mem'[r] = [m EXCEPT !.applied = TRUE, !.body = NoFile,
                               !.found = {}, !.made = {}]
        /\ pc'[r] = "file" /\ pc[r] = "sum" /\ claims' = claims
    BY <1>7, <1>t DEF Record, history, m
  <2>2. /\ mem'[r].queue = m.queue /\ mem'[r].list = m.list
        /\ mem'[r].cmd = m.cmd /\ mem'[r].file = m.file
        /\ mem'[r].bad = m.bad
    BY <1>t, <2>1 DEF Memory
  <2>3. Here(r)' = Here(r) /\ m.cmd # "dcl:verify"
    BY <1>r, <2>1, <2>2 DEF Here, HandOf, m
  <2>4. ASSUME NEW i \in Places, NEW f \in Files, NEW c \in Contents,
               <<i, f, c>> \in claims'[r]
        PROVE  Sound(i, f, c)'
    <3>1. Sound(i, f, c)
      BY <1>k, <2>1, <2>4
    <3>2. CASE Pending(r, i, f, c) /\ f = m.file
      <4>1. i = Here(r) /\ c = Source(m)
        BY <3>2 DEF Pending, Source, m
      <4> QED  BY <1>r, <1>g, <2>1, <3>2, <4>1 DEF Reading, m
    <3>3. CASE Pending(r, i, f, c) /\ f # m.file
      BY <2>1, <2>2, <2>3, <3>3 DEF Pending, InLoop, m
    <3>4. CASE Good(i, f, c) \/ m.bad
      BY <1>g, <2>2, <3>4
    <3> QED  BY <2>1, <3>1, <3>2, <3>3, <3>4 DEF m
  <2> QED  BY <1>q, <2>1, <2>4
<1>8. CASE FileFails(r)
  <2>1. /\ mem'[r] = [m EXCEPT !.error = TRUE, !.body = NoFile, !.found = {},
                        !.made = {}, !.list = Unlisted, !.known = Unknown]
        /\ pc'[r] = "after"
    BY <1>8, <1>t DEF FileFails, m
  <2>2. mem'[r].error
    BY <1>t, <2>1 DEF Memory
  <2> QED  BY <1>q, <2>1, <2>2
<1>9. CASE Copy(r)
  BY <1>9, <1>s, <1>t DEF Copy, InLoop, m
<1>10. CASE Replace(r)
  <2>1. mem'[r] = [m EXCEPT !.events = Quiet, !.bare = {}]
        /\ pc[r] = "latest" /\ pc'[r] \in {"next", "prune"}
        /\ claims' = claims
    BY <1>10, <1>t DEF Replace, history, m
  <2>2. mem'[r].bad = m.bad
    BY <1>t, <2>1 DEF Memory
  <2> QED  BY <1>s, <2>1, <2>2 DEF InLoop
<1>11. CASE ReadCopies(r) \/ RemoveCopy(r) \/ CleanupFails(r)
  <2>1. PICK x : mem'[r] = [m EXCEPT !.victims = x]
    BY <1>11, <1>t DEF ReadCopies, RemoveCopy, CleanupFails, m
  <2>2. mem'[r].bad = m.bad
    BY <1>t, <2>1 DEF Memory
  <2>3. pc[r] \in {"prune", "remove"} /\ pc'[r] \in {"next", "remove"}
    BY <1>11, <1>t DEF ReadCopies, RemoveCopy, CleanupFails
  <2>4. claims' = claims
    BY <1>11 DEF ReadCopies, RemoveCopy, CleanupFails, history
  <2> QED  BY <1>s, <2>2, <2>3, <2>4 DEF InLoop
<1>12. CASE NextInstance(r)
  <2>1. CASE Tail(m.queue) # <<>>
    <3>1. /\ mem'[r] = [Afresh(r) EXCEPT !.queue = Tail(m.queue)]
          /\ pc[r] = "next" /\ pc'[r] = "gate" /\ claims' = claims
      BY <1>12, <1>t, <2>1 DEF NextInstance, m
    <3>2. mem'[r].bad = m.bad
      BY <3>1 DEF Afresh, Blank, m
    <3> QED  BY <1>s, <3>1, <3>2 DEF InLoop
  <2>2. CASE Tail(m.queue) = <<>>
    BY <1>12, <1>e, <2>2 DEF NextInstance, m
  <2> QED  BY <2>1, <2>2
<1>13. CASE VerifyNext(r)
  <2> DEFINE list == IF m.file = 0 THEN disk ELSE m.list
  <2>1. \/ Exit(r, "done") \/ Exit(r, "failed")
        \/ \E f \in Files :
             /\ mem'[r] = [m EXCEPT !.list = list, !.file = f, !.at = 1,
                                    !.pass = 1, !.body = list[f]]
             /\ pc'[r] = "exec" /\ claims' = claims
    BY <1>13, <1>t DEF VerifyNext, m
  <2> HIDE DEF list
  <2>2. ASSUME NEW f \in Files, pc'[r] = "exec", claims' = claims,
               mem'[r] = [m EXCEPT !.list = list, !.file = f, !.at = 1,
                                   !.pass = 1, !.body = list[f]]
        PROVE  Claims(r)'
    <3>1. mem'[r].bad = m.bad
      BY <1>t, <2>2 DEF Memory
    <3>2. pc[r] = "verify"
      BY <1>13 DEF VerifyNext
    <3> QED  BY <1>s, <2>2, <3>1, <3>2 DEF InLoop
  <2> QED  BY <1>e, <2>1, <2>2
<1>14. CASE VerifyFails(r)
  <2>1. mem'[r] = [m EXCEPT !.bad = TRUE, !.before = {}, !.body = NoFile]
        /\ pc'[r] = "verify"
    BY <1>14, <1>t DEF VerifyFails, m
  <2>2. mem'[r].bad
    BY <1>t, <2>1 DEF Memory
  <2> QED  BY <1>b, <2>1, <2>2
<1>15. CASE Captures(r)
  <2>1. PICK seen \in SUBSET Accounts :
          CaptureBefore(r, seen) \/ After(r, seen) \/ VerifyCapture(r, seen)
    BY <1>15 DEF Captures
  <2>0. claims'[r] = claims[r]
    BY <2>1 DEF CaptureBefore, After, VerifyCapture, history
  <2>2. CASE CaptureBefore(r, seen)
    <3>1. /\ mem'[r] = [m EXCEPT !.before = seen]
          /\ pc[r] = "before" /\ pc'[r] = "begin"
      BY <2>2, <1>t DEF CaptureBefore, m
    <3>2. mem'[r].bad = m.bad
      BY <1>t, <3>1 DEF Memory
    <3> QED  BY <1>s, <2>0, <3>1, <3>2 DEF InLoop
  <2>3. CASE After(r, seen)
    <3>0. PICK b \in BOOLEAN : b = (m.bad \/ m.error)
      OBVIOUS
    <3>1. PICK y : mem'[r] = [m EXCEPT !.bad = b, !.before = {}, !.bare = y]
      BY <2>3, <1>t, <3>0 DEF After, m
    <3>2. m.bad \/ m.error => mem'[r].bad
      BY <1>t, <3>0, <3>1 DEF Memory
    <3>3. pc[r] = "after" /\ pc'[r] \in {"copy", "next"}
      BY <2>3, <1>t DEF After
    <3> QED  BY <1>s, <2>0, <3>2, <3>3 DEF InLoop
  <2>4. CASE VerifyCapture(r, seen)
    <3>1. pc[r] = "exec" /\ m.cmd = "dcl:verify"
      BY <2>4 DEF VerifyCapture, m
    <3>b. PICK b \in BOOLEAN : b = (m.bad \/ seen # m.before)
      OBVIOUS
    <3>2. \/ /\ mem'[r] = [m EXCEPT !.before = seen, !.pass = 2, !.at = 1]
             /\ pc'[r] = "exec"
          \/ /\ mem'[r] = [m EXCEPT !.bad = b, !.before = {}, !.body = NoFile]
             /\ pc'[r] = "verify"
      BY <2>4, <1>t, <3>b DEF VerifyCapture, m
    <3>3. m.bad => mem'[r].bad
      BY <1>t, <3>b, <3>2 DEF Memory
    <3> QED  BY <1>s, <2>0, <3>1, <3>2, <3>3 DEF InLoop, m
  <2> QED  BY <2>1, <2>2, <2>3, <2>4
<1>16. CASE Fails(r)
  BY <1>16, <1>w DEF Fails
<1>17. CASE SaveFails(r)
  BY <1>17, <1>e, <1>w DEF SaveFails
<1>18. CASE SummaryFails(r) \/ Crash(r)
  BY <1>18, <1>e DEF SummaryFails, Crash
<1> QED
  BY <1>1, <1>2, <1>3, <1>4, <1>5, <1>6, <1>7, <1>8, <1>9, <1>10, <1>11,
     <1>12, <1>13, <1>14, <1>15, <1>16, <1>17, <1>18
  DEF Moves

(* What does not touch a run takes nothing from it.                        *)
LEMMA ClaimsRest ==
  ASSUME Basic, NEW q \in Runs, Reading(q), Claims(q),
         pc'[q] = pc[q], mem'[q] = mem[q], claims'[q] = claims[q],
         (disk' = disk /\ edits' = edits) \/ edits' > 0,
         \A i \in Places, f \in Files :
           \A c : Good(i, f, c) => Good(i, f, c)'
  PROVE  Reading(q)' /\ Claims(q)'
<1>1. /\ Here(q)' = Here(q) /\ InLoop(q)' = InLoop(q)
      /\ Active(q)' = Active(q)
  BY DEF Here, InLoop, Active
<1>2. Active(q) => Here(q) \in Places
  BY MemoryFacts DEF Basic, Hands, HandOf
<1>3. edits > 0 => edits' > 0
  <2>1. CASE edits' = edits
    BY <2>1
  <2>2. CASE edits' > 0
    BY <2>2
  <2> QED  BY <2>1, <2>2
<1>4. ASSUME Active(q), NEW f \in Files, NEW c \in Contents,
             mem'[q].known[f] = Sha[c]
      PROVE  Good(Here(q), f, c)'
  <2>1. PICK i \in Places : i = Here(q)
    BY <1>2, <1>4
  <2>2. Good(i, f, c)'
    BY <1>4, <2>1 DEF Reading
  <2>3. Here(q)' = i
    BY <1>1, <2>1
  <2> QED  BY <2>2, <2>3 DEF Good
<1>5. ASSUME pc[q] = "sum"
      PROVE  Good(Here(q), mem[q].file, Source(mem[q]))'
  <2>1. /\ Active(q) /\ mem[q].file \in Files
        /\ Source(mem[q]) \in Contents
    BY <1>5 DEF Basic, Hands, HandOf, Active, Working, Source
  <2>2. PICK i \in Places, f \in Files, c \in Contents :
          i = Here(q) /\ f = mem[q].file /\ c = Source(mem[q])
    BY <1>2, <2>1
  <2>3. Good(i, f, c)'
    BY <1>5, <2>2 DEF Reading
  <2>4. Here(q)' = i /\ mem'[q].file = f /\ Source(mem'[q]) = c
    BY <1>1, <2>2
  <2> QED  BY <2>3, <2>4 DEF Good
<1>6. Reading(q)'
  <2>1. InLoop(q) => mem'[q].list = disk' \/ edits' > 0
    BY <1>3 DEF Reading
  <2>2. InLoop(q) /\ pc[q] \in {"look", "exec"} =>
          \/ mem'[q].body = Source(mem'[q])
          \/ /\ Kind[Here(q)'] = "mongo" /\ ~Generates(Source(mem'[q]))
             /\ edits' > 0
    BY <1>1, <1>3 DEF Reading
  <2>3. pc'[q] \in {"gate", "forget", "before", "begin"} => mem'[q].file = 0
    BY DEF Reading
  <2> QED  BY <1>1, <1>4, <1>5, <2>1, <2>2, <2>3 DEF Reading
<1>7. ASSUME NEW i \in Places, NEW f \in Files, NEW c \in Contents,
             <<i, f, c>> \in claims'[q]
      PROVE  \/ Good(i, f, c)'
             \/ mem'[q].bad
             \/ pc'[q] = "after" /\ mem'[q].error
             \/ Pending(q, i, f, c)'
  <2>1. Pending(q, i, f, c) => Pending(q, i, f, c)'
    BY <1>1 DEF Pending
  <2> QED  BY <1>7, <2>1 DEF Claims
<1> QED  BY <1>1, <1>6, <1>7 DEF Claims

LEMMA ClaimsStep ==
  ASSUME Basic, ClaimsGood, [Next]_vars
  PROVE  ClaimsGood'
<1>t. /\ \A q \in Runs : Reading(q) /\ Claims(q)
      /\ SumsAreGood
  BY DEF ClaimsGood
<1>1. ASSUME NEW r \in Runs, Moves(r)
      PROVE  ClaimsGood'
  <2>1. ASSUME NEW q \in Runs
        PROVE  Reading(q)' /\ Claims(q)'
    <3>1. CASE q = r
      BY <1>1, <3>1, ReadingMove, ClaimsMove
    <3>2. CASE q # r
      <4>1. /\ pc'[q] = pc[q] /\ mem'[q] = mem[q] /\ claims'[q] = claims[q]
            /\ disk' = disk /\ edits' = edits
        BY <1>1, <3>2, MoveIsLocal, RanSteps DEF Basic
      <4>2. \A i \in Places, f \in Files :
              \A c : Good(i, f, c) => Good(i, f, c)'
        BY <1>1, GoodGrows
      <4> QED  BY <1>t, <4>1, <4>2, ClaimsRest
    <3> QED  BY <3>1, <3>2
  <2>2. SumsAreGood'
    BY <1>1, SumsGoodMove
  <2> QED  BY <2>1, <2>2 DEF ClaimsGood
<1>2. ASSUME UNCHANGED <<pc, mem, claims, ran, sums>>,
             (disk' = disk /\ edits' = edits) \/ edits' > 0
      PROVE  ClaimsGood'
  <2>1. \A i \in Places, f \in Files :
          \A c : Good(i, f, c) => Good(i, f, c)'
    BY <1>2 DEF Good
  <2>2. ASSUME NEW q \in Runs
        PROVE  Reading(q)' /\ Claims(q)'
    BY <1>t, <1>2, <2>1, ClaimsRest
  <2>3. SumsAreGood'
    BY <1>t, <1>2, <2>1 DEF SumsAreGood
  <2> QED  BY <2>2, <2>3 DEF ClaimsGood
<1>3. CASE Edit
  <2>1. edits' > 0
    <3>1. edits \in Nat
      BY ScriptAssumption DEF Basic, TypeOK
    <3> QED  BY <1>3, <3>1 DEF Edit
  <2> QED  BY <1>2, <1>3, <2>1 DEF Edit, servers, history
<1>4. CASE UNCHANGED vars
  BY <1>2, <1>4 DEF vars, world, servers, history
<1> QED  BY <1>1, <1>3, <1>4, NextMoves

LEMMA ClaimsAlways == Spec => [](Basic /\ ClaimsGood)
<1>1. Init => ClaimsGood
  <2> SUFFICES ASSUME Init
               PROVE  ClaimsGood
    OBVIOUS
  <2>0. Basic /\ \A c \in Contents : Sha[c] # NoSum
    BY InitFacts, ConstantFacts DEF Basic
  <2>1. SumsAreGood
    BY <2>0 DEF Init, SumsAreGood, Unknown
  <2>2. ASSUME NEW r \in Runs
        PROVE  Reading(r) /\ Claims(r)
    BY DEF Init, Reading, Claims, Active, Working, InLoop
  <2> QED  BY <2>1, <2>2 DEF ClaimsGood
<1>2. Basic /\ ClaimsGood /\ [Next]_vars => ClaimsGood'
  BY ClaimsStep
<1> QED  BY <1>1, <1>2, BasicAlways, PTL DEF Spec

(* The exit code of dcl, dcl-all and dcl:verify.  For any number of runs,  *)
(* instances and files: a run that ends with exit code 0 had every file    *)
(* that it found on any of its instances, and did not skip, executed to    *)
(* its end there, by itself or by the run that recorded its checksum.      *)
THEOREM ExitZeroIsApplied == Spec => ExitZeroMeansApplied
<1>1. ASSUME Basic, ClaimsGood, [Next]_vars
      PROVE  [\A r \in Runs : pc[r] = "next" /\ pc'[r] = "done" =>
                \A i \in Places, f \in Files, c \in Contents :
                  <<i, f, c>> \in claims[r] =>
                    \/ c \in ran[i][f]
                    \/ Kind[i] = "mongo" /\ ~Generates(c) /\ edits > 0]_vars
  <2> SUFFICES ASSUME NEW r \in Runs, pc[r] = "next", pc'[r] = "done",
                      NEW i \in Places, NEW f \in Files, NEW c \in Contents,
                      <<i, f, c>> \in claims[r]
               PROVE  Good(i, f, c)
    BY DEF Good
  <2>t. /\ TypeOK /\ pc \in [Runs -> Working \cup Ended \cup {"ready"}]
    BY <1>1 DEF Basic, TypeOK
  <2>1. Moves(r)
    <3>1. pc' # pc
      OBVIOUS
    <3>2. PICK q \in Runs : Moves(q)
      BY <1>1, <3>1, NextMoves DEF vars, Edit
    <3>3. q = r
      BY <2>t, <3>2, MoveIsLocal
    <3> QED  BY <3>2, <3>3
  <2> USE DEF Exit, Goto, Remember, Working, Ended, Active
  <2>2. NextInstance(r)
    <3>1. CASE SummaryFails(r) \/ Crash(r)
      BY <2>t, <3>1 DEF SummaryFails, Crash
    <3>2. CASE Start(r) \/ Gate(r) \/ Forget(r) \/ Begin(r) \/ NextFile(r)
               \/ Look(r) \/ Execute(r) \/ FileDone(r) \/ Record(r)
      BY <3>2 DEF Start, Gate, Forget, Begin, NextFile, Look, Execute,
                  FileDone, Record
    <3>3. CASE Copy(r) \/ Replace(r) \/ ReadCopies(r) \/ RemoveCopy(r)
               \/ VerifyNext(r) \/ FileFails(r) \/ VerifyFails(r)
               \/ Captures(r)
      BY <3>3 DEF Copy, Replace, ReadCopies, RemoveCopy, VerifyNext,
                  FileFails, VerifyFails, Captures, CaptureBefore, After,
                  VerifyCapture
    <3>4. CASE Fails(r) \/ SaveFails(r) \/ CleanupFails(r)
      BY <3>4 DEF Fails, SaveFails, CleanupFails
    <3> QED  BY <2>1, <3>1, <3>2, <3>3, <3>4 DEF Moves
  <2>3. ~mem[r].bad
    BY <2>t, <2>2 DEF NextInstance
  <2> QED  BY <1>1, <2>3 DEF ClaimsGood, Claims, Pending, InLoop
<1> QED  BY <1>1, ClaimsAlways, PTL DEF Spec, ExitZeroMeansApplied

-----------------------------------------------------------------------------
(* What an email says, when runs do not overlap.                           *)

Early == {"gate", "forget", "before", "begin"}
Setting == {"file", "look", "exec", "sum", "after", "copy"}

(* Where the email of the run will tell its events as they are.            *)
Telling == (Early \cup Setting \cup {"latest"}) \ {"exec"}

(* A step of a run, by what it does to the events and the instances.       *)
Opens(r) ==
  /\ pc[r] = "ready" /\ pc'[r] \in Working \ (Setting \cup {"latest"})
  /\ mem'[r].events = Quiet
  /\ \A k \in DOMAIN mem'[r].queue : mem'[r].queue[k] \in Places
  /\ \A j, k \in DOMAIN mem'[r].queue :
       mem'[r].queue[j] = mem'[r].queue[k] => j = k

Leads(r) ==
  /\ Active(r) /\ mem'[r].events = Quiet
  /\ \/ pc'[r] \in Ended
     \/ /\ mem'[r].queue = mem[r].queue
        /\ pc'[r] \in Working \ (Early \cup Setting \cup {"latest"})
     \/ /\ mem'[r].queue = mem[r].queue
        /\ pc'[r] = "copy" /\ mem'[r].failure
     \/ /\ pc'[r] \in Early /\ mem'[r].queue = Tail(mem[r].queue)
        /\ Tail(mem[r].queue) # <<>>

Stays(r) ==
  /\ Active(r) /\ pc'[r] \in Working
  /\ mem'[r].events = mem[r].events /\ mem'[r].queue = mem[r].queue
  /\ mem'[r].cmd = mem[r].cmd /\ mem'[r].failure = mem[r].failure
  /\ pc'[r] \in Early => pc[r] \in Early
  /\ pc'[r] \in Setting => pc[r] \in Setting \/ pc[r] \in Early
                           \/ mem[r].cmd = "dcl:verify"
  /\ pc'[r] \in Telling => pc[r] \in Telling \/ FileFails(r)
  /\ pc'[r] \in {"look", "exec"} =>
       NextFile(r) \/ Look(r) \/ mem[r].cmd = "dcl:verify"
  /\ pc'[r] = "look" => NextFile(r)
  /\ pc'[r] = "copy" => pc[r] = "after"
  /\ pc'[r] = "latest" => Copy(r)

LEMMA MoveShapes ==
  ASSUME Basic, NEW r \in Runs, Moves(r)
  PROVE  Opens(r) \/ Leads(r) \/ Stays(r) \/ Execute(r) \/ FileDone(r)
<1> DEFINE m == mem[r]
           n == mem'[r]
<1>t. /\ TypeOK /\ m \in Memory
      /\ pc \in [Runs -> Working \cup Ended \cup {"ready"}]
      /\ mem \in [Runs -> Memory]
  BY MemoryFacts DEF Basic, TypeOK
<1>h. HandOf(r)
  BY DEF Basic, Hands
<1> DEFINE Same == /\ n.events = m.events /\ n.queue = m.queue
                   /\ n.cmd = m.cmd /\ n.failure = m.failure
<1> HIDE DEF m, n
<1> USE DEF Goto, Remember, Exit, Ended, Working, Active
<1>1. CASE Start(r)
  <2>0. PICK c \in Commands[policy], v \in BOOLEAN, j \in Places :
          /\ Remember(r, [Blank EXCEPT !.cmd = c, !.validate = v,
                !.queue = IF c = "dcl-all" THEN Instances ELSE <<j>>])
          /\ pc[r] = "ready"
          /\ Goto(r, IF c = "dcl:verify" THEN "verify" ELSE "gate")
    BY <1>1 DEF Start
  <2> DEFINE q == IF c = "dcl-all" THEN Instances ELSE <<j>>
  <2>1. /\ mem'[r] = [Blank EXCEPT !.cmd = c, !.validate = v, !.queue = q]
        /\ pc'[r] \in {"verify", "gate"} /\ pc[r] = "ready"
    BY <2>0, <1>t
  <2>2. /\ \A x \in DOMAIN q : q[x] \in Places
        /\ \A x, y \in DOMAIN q : q[x] = q[y] => x = y
    BY InstanceAssumption
  <2> HIDE DEF q
  <2>3. mem'[r].events = Quiet /\ mem'[r].queue = q
    BY <2>1 DEF Blank
  <2> QED  BY <2>1, <2>2, <2>3 DEF Opens, Setting
<1>2. CASE Gate(r) \/ Forget(r)
  <2>1. PICK x : n = [m EXCEPT !.orphans = x]
    BY <1>2, <1>t DEF Gate, Forget, m, n
  <2>2. Same
    BY <1>t, <2>1 DEF Memory
  <2>3. pc[r] \in {"gate", "forget"} /\ pc'[r] \in {"before", "forget"}
    BY <1>2, <1>t DEF Gate, Forget
  <2> QED  BY <2>2, <2>3 DEF Stays, Early, Setting, Telling, m, n
<1>3. CASE Begin(r)
  <2>1. PICK x, y : n = [m EXCEPT !.list = x, !.known = y]
    BY <1>3, <1>t DEF Begin, m, n
  <2>2. Same
    BY <1>t, <2>1 DEF Memory
  <2>3. pc[r] = "begin" /\ pc'[r] = "file"
    BY <1>3, <1>t DEF Begin
  <2> QED  BY <2>2, <2>3 DEF Stays, Early, Setting, Telling, m, n
<1>4. CASE NextFile(r)
  <2>2. Same
    BY <1>4, <1>t, NextFileKeeps DEF m, n
  <2>3. pc[r] = "file" /\ pc'[r] \in {"after", "look", "exec"}
    BY <1>4, <1>t, NextFileFacts
  <2> QED  BY <1>4, <2>2, <2>3 DEF Stays, Early, Setting, Telling, m, n
<1>5. CASE Look(r)
  <2>1. PICK x : n = [m EXCEPT !.found = x]
    BY <1>5, <1>t DEF Look, m, n
  <2>2. Same
    BY <1>t, <2>1 DEF Memory
  <2>3. pc[r] = "look" /\ pc'[r] = "exec"
    BY <1>5, <1>t DEF Look
  <2> QED  BY <1>5, <2>2, <2>3 DEF Stays, Early, Setting, Telling, m, n
<1>7. CASE Record(r)
  <2>1. n = [m EXCEPT !.applied = TRUE, !.body = NoFile, !.found = {},
                      !.made = {}]
        /\ pc'[r] = "file" /\ pc[r] = "sum"
    BY <1>7, <1>t DEF Record, m, n
  <2>2. Same
    BY <1>t, <2>1 DEF Memory
  <2> QED  BY <2>1, <2>2 DEF Stays, Early, Setting, Telling, m, n
<1>8. CASE FileFails(r)
  <2>1. n = [m EXCEPT !.error = TRUE, !.body = NoFile, !.found = {},
               !.made = {}, !.list = Unlisted, !.known = Unknown]
        /\ pc'[r] = "after" /\ pc[r] \in {"look", "exec", "sum"}
    BY <1>8, <1>t DEF FileFails, m, n
  <2>2. Same
    BY <1>t, <2>1 DEF Memory
  <2> QED  BY <1>8, <2>1, <2>2 DEF Stays, Early, Setting, Telling, m, n
<1>9. CASE NextInstance(r)
  <2>0. m.queue # <<>> /\ pc[r] = "next"
    BY <1>9, <1>h DEF HandOf, NextInstance, m
  <2>1. \/ pc'[r] \in Ended /\ n = Blank
        \/ /\ n = [Afresh(r) EXCEPT !.queue = Tail(m.queue)]
           /\ pc'[r] = "gate" /\ Tail(m.queue) # <<>>
    BY <1>9, <1>t DEF NextInstance, m, n
  <2>2. ASSUME n = [Afresh(r) EXCEPT !.queue = Tail(m.queue)]
        PROVE  n.events = Quiet /\ n.queue = Tail(m.queue)
    BY <2>2 DEF Afresh, Blank
  <2>3. Blank.events = Quiet
    BY DEF Blank
  <2> QED  BY <2>0, <2>1, <2>2, <2>3 DEF Leads, Early, m, n
<1>10. CASE VerifyNext(r)
  <2> DEFINE list == IF m.file = 0 THEN disk ELSE m.list
  <2>1. /\ pc[r] = "verify"
        /\ \/ pc'[r] \in Ended /\ n = Blank
           \/ /\ pc'[r] = "exec"
              /\ \E f \in Files :
                   n = [m EXCEPT !.list = list, !.file = f, !.at = 1,
                                 !.pass = 1, !.body = list[f]]
    BY <1>10, <1>t DEF VerifyNext, m, n
  <2> HIDE DEF list
  <2>2. ASSUME NEW f \in Files,
               n = [m EXCEPT !.list = list, !.file = f, !.at = 1,
                             !.pass = 1, !.body = list[f]]
        PROVE  Same
    BY <1>t, <2>2 DEF Memory
  <2>3. Blank.events = Quiet
    BY DEF Blank
  <2>4. m.cmd = "dcl:verify"
    BY <1>h, <2>1 DEF HandOf, m
  <2>5. CASE pc'[r] \in Ended /\ n = Blank
    BY <2>1, <2>3, <2>5 DEF Leads, m, n
  <2>6. CASE pc'[r] = "exec" /\ Same
    BY <2>1, <2>4, <2>6 DEF Stays, Early, Setting, Telling, m, n
  <2> QED  BY <2>1, <2>2, <2>5, <2>6
<1>11. CASE VerifyFails(r)
  <2>1. n = [m EXCEPT !.bad = TRUE, !.before = {}, !.body = NoFile]
        /\ pc[r] = "exec" /\ pc'[r] = "verify"
    BY <1>11, <1>t DEF VerifyFails, m, n
  <2>2. Same
    BY <1>t, <2>1 DEF Memory
  <2> QED  BY <2>1, <2>2 DEF Stays, Early, Setting, Telling, m, n
<1>12. CASE Captures(r)
  <2>1. PICK seen \in SUBSET Accounts :
          CaptureBefore(r, seen) \/ After(r, seen) \/ VerifyCapture(r, seen)
    BY <1>12 DEF Captures
  <2>2. CASE CaptureBefore(r, seen)
    <3>1. n = [m EXCEPT !.before = seen] /\ pc[r] = "before"
          /\ pc'[r] = "begin"
      BY <2>2, <1>t DEF CaptureBefore, m, n
    <3>2. Same
      BY <1>t, <3>1 DEF Memory
    <3> QED  BY <3>1, <3>2 DEF Stays, Early, Setting, Telling, m, n
  <2>3. CASE After(r, seen)
    <3>1. /\ \E x, y : n = [m EXCEPT !.bad = x, !.before = {}, !.bare = y]
          /\ pc[r] = "after" /\ pc'[r] \in {"copy", "next"}
      BY <2>3, <1>t DEF After, m, n
    <3>2. Same
      BY <1>t, <3>1 DEF Memory
    <3> QED  BY <3>1, <3>2 DEF Stays, Early, Setting, Telling, m, n
  <2>4. CASE VerifyCapture(r, seen)
    <3>1. /\ \/ n = [m EXCEPT !.before = seen, !.pass = 2, !.at = 1]
             \/ \E x : n = [m EXCEPT !.bad = x, !.before = {},
                                     !.body = NoFile]
          /\ pc[r] = "exec" /\ pc'[r] \in {"exec", "verify"}
      BY ZenonT(60), <2>4, <1>t DEF VerifyCapture, m, n
    <3>2. Same
      BY ZenonT(60), <1>t, <3>1 DEF Memory
    <3>3. m.cmd = "dcl:verify"
      BY <2>4 DEF VerifyCapture, m
    <3> QED  BY <3>1, <3>2, <3>3 DEF Stays, Early, Setting, Telling, m, n
  <2> QED  BY <2>1, <2>2, <2>3, <2>4
<1>13. CASE Copy(r)
  <2>1. n = m /\ pc[r] = "copy" /\ pc'[r] = "latest"
    BY <1>13, <1>t DEF Copy, m, n
  <2> QED  BY <1>13, <2>1 DEF Stays, Early, Setting, Telling, m, n
<1>14. CASE Replace(r)
  <2>1. n = [m EXCEPT !.events = Quiet, !.bare = {}] /\ pc[r] = "latest"
        /\ pc'[r] \in {"next", "prune"}
    BY <1>14, <1>t DEF Replace, m, n
  <2>2. n.events = Quiet /\ n.queue = m.queue
    BY <1>t, <2>1 DEF Memory
  <2> QED  BY <2>1, <2>2 DEF Leads, Early, Setting, m, n
<1>15. CASE ReadCopies(r) \/ RemoveCopy(r) \/ CleanupFails(r)
  <2>1. \E x : n = [m EXCEPT !.victims = x]
    BY <1>15, <1>t DEF ReadCopies, RemoveCopy, CleanupFails, m, n
  <2>2. Same
    BY <1>t, <2>1 DEF Memory
  <2>3. pc[r] \in {"prune", "remove"} /\ pc'[r] \in {"next", "remove"}
    BY <1>15, <1>t DEF ReadCopies, RemoveCopy, CleanupFails
  <2> QED  BY <2>2, <2>3 DEF Stays, Early, Setting, Telling, m, n
<1>16. CASE SummaryFails(r) \/ Crash(r)
  <2>1. n = Blank /\ pc'[r] \in Ended /\ Active(r)
    BY <1>16, <1>t DEF SummaryFails, Crash, n
  <2>2. Blank.events = Quiet
    BY DEF Blank
  <2> QED  BY <2>1, <2>2 DEF Leads, n
<1>17. CASE Fails(r) \/ SaveFails(r)
  <2> DEFINE w == [Afresh(r) EXCEPT !.bad = TRUE,
                                    !.failure = (mem[r].cmd = "dcl")]
  <2>1. /\ Active(r)
        /\ \/ n = Blank /\ pc'[r] \in Ended
           \/ /\ n = w
              /\ pc'[r] = IF mem[r].cmd = "dcl" THEN "copy" ELSE "next"
    BY <1>17, <1>t DEF Fails, SaveFails, Throw, n
  <2>2. Blank.events = Quiet
    BY DEF Blank
  <2>3. w.events = Quiet /\ w.queue = mem[r].queue
        /\ w.failure = (mem[r].cmd = "dcl")
    BY DEF Afresh, Blank
  <2> HIDE DEF w
  <2> QED  BY <2>1, <2>2, <2>3 DEF Leads, Early, Setting, m, n
<1> QED
  BY <1>1, <1>2, <1>3, <1>4, <1>5, <1>7, <1>8, <1>9, <1>10, <1>11, <1>12,
     <1>13, <1>14, <1>15, <1>16, <1>17
  DEF Moves

(* Only a statement changes an account; only Copy makes a password mailed. *)
LEMMA FateSteps ==
  ASSUME Basic, NEW r \in Runs, Moves(r), ~Execute(r)
  PROVE  /\ accounts' = accounts
         /\ \A i \in Places, a \in Accounts :
              \/ fate'[i][a] \in {fate[i][a], "lost"}
              \/ /\ Copy(r) /\ i = Here(r) /\ accounts[i][a] \in Secrets
                 /\ mem[r].events[a].pw = accounts[i][a]
<1>t. /\ TypeOK /\ Hands
      /\ fate \in [Places -> [Accounts -> {"open", "mailed", "lost"}]]
  BY DEF Basic, TypeOK
<1>h. Active(r) => Here(r) \in Places
  BY <1>t, MemoryFacts DEF Hands, HandOf
<1> DEFINE Fewer == \A i \in Places, a \in Accounts :
             fate'[i][a] \in {fate[i][a], "lost"}
<1> USE DEF servers, history, Active, Working
<1>1. ASSUME NEW j \in Places, NEW P, Losing(r, j, P)
      PROVE  Fewer
  BY <1>t, <1>1, LosingFacts
<1>2. CASE Start(r) \/ Gate(r) \/ Forget(r) \/ Begin(r) \/ NextFile(r)
           \/ Look(r) \/ Record(r)
  BY <1>2 DEF Start, Gate, Forget, Begin, NextFile, Look, Record
<1>4. CASE FileDone(r)
  <2>1. /\ accounts' = accounts /\ Active(r)
        /\ \/ UNCHANGED fate
           \/ Losing(r, Here(r), OfFile(mem[r].file))
    BY <1>4 DEF FileDone
  <2> QED  BY <1>1, <1>h, <2>1
<1>5. CASE Copy(r)
  <2>1. PICK row :
          /\ row = [b \in Accounts |->
               IF /\ accounts[Here(r)][b] \in Secrets
                  /\ mem[r].events[b].pw = accounts[Here(r)][b]
               THEN "mailed" ELSE fate[Here(r)][b]]
          /\ fate' = [fate EXCEPT ![Here(r)] = row]
    BY <1>5 DEF Copy
  <2>2. ASSUME NEW i \in Places, NEW a \in Accounts
        PROVE  \/ fate'[i][a] = fate[i][a]
               \/ /\ i = Here(r) /\ accounts[i][a] \in Secrets
                  /\ mem[r].events[a].pw = accounts[i][a]
    <3>1. (fate'[i] = row /\ i = Here(r)) \/ fate'[i] = fate[i]
      BY <1>t, <2>1
    <3> QED  BY <2>1, <3>1
  <2> QED  BY <1>5, <2>2 DEF Copy
<1>6. CASE Replace(r) \/ ReadCopies(r) \/ RemoveCopy(r) \/ NextInstance(r)
           \/ VerifyNext(r) \/ VerifyFails(r) \/ CleanupFails(r)
           \/ SummaryFails(r)
  BY <1>6 DEF Replace, ReadCopies, RemoveCopy, NextInstance, VerifyNext,
              VerifyFails, CleanupFails, SummaryFails
<1>7. CASE FileFails(r)
  <2>1. /\ accounts' = accounts /\ Active(r)
        /\ \/ UNCHANGED fate
           \/ Losing(r, Here(r), OfFile(mem[r].file))
    BY <1>7 DEF FileFails
  <2> QED  BY <1>1, <1>h, <2>1
<1>8. CASE Captures(r)
  BY <1>8 DEF Captures, CaptureBefore, After, VerifyCapture
<1>9. CASE Fails(r) \/ SaveFails(r) \/ Crash(r)
  <2>1. /\ accounts' = accounts /\ Active(r)
        /\ \/ UNCHANGED fate
           \/ Losing(r, Here(r), Secrets)
    BY <1>9 DEF Fails, SaveFails, Crash, Throw
  <2> QED  BY <1>1, <1>h, <2>1
<1> QED
  BY <1>2, <1>4, <1>5, <1>6, <1>7, <1>8, <1>9 DEF Moves

(* What a run keeps while it executes a file.                              *)
LEMMA WorkFacts ==
  ASSUME Basic, NEW r \in Runs, Execute(r) \/ FileDone(r)
  PROVE  /\ pc[r] = "exec" /\ Active(r)
         /\ Execute(r) => /\ pc' = pc
                          /\ mem'[r].events = mem[r].events
                          /\ mem'[r].body = mem[r].body
                          /\ mem'[r].file = mem[r].file
                          /\ mem'[r].list = mem[r].list
                          /\ mem'[r].found = mem[r].found
                          /\ mem'[r].at = mem[r].at + 1
         /\ FileDone(r) => pc'[r] = "sum" /\ mem[r].cmd # "dcl:verify"
         /\ mem'[r].queue = mem[r].queue /\ mem'[r].cmd = mem[r].cmd
         /\ mem'[r].failure = mem[r].failure
<1> DEFINE m == mem[r]
<1>t. /\ TypeOK /\ m \in Memory /\ mem \in [Runs -> Memory]
      /\ pc \in [Runs -> Working \cup Ended \cup {"ready"}]
  BY MemoryFacts DEF Basic, TypeOK
<1> HIDE DEF m
<1>1. CASE Execute(r)
  <2>1. PICK x : mem'[r] = [m EXCEPT !.at = m.at + 1, !.made = x]
    BY <1>1, <1>t DEF Execute, Remember, m
  <2>2. /\ mem'[r].events = m.events /\ mem'[r].body = m.body
        /\ mem'[r].file = m.file /\ mem'[r].list = m.list
        /\ mem'[r].found = m.found /\ mem'[r].at = m.at + 1
        /\ mem'[r].queue = m.queue /\ mem'[r].cmd = m.cmd
        /\ mem'[r].failure = m.failure
    BY <1>t, <2>1 DEF Memory
  <2>3. pc[r] = "exec" /\ pc' = pc /\ ~FileDone(r)
    <3>1. pc[r] = "exec" /\ pc' = pc
      BY <1>1 DEF Execute
    <3>2. FileDone(r) => pc'[r] = "sum"
      BY <1>t DEF FileDone, Goto
    <3> QED  BY <3>1, <3>2
  <2> QED  BY <1>1, <2>2, <2>3 DEF Active, Working, m
<1>2. CASE FileDone(r)
  <2>1. PICK x : mem'[r] = [m EXCEPT !.events = x]
    BY <1>2, <1>t DEF FileDone, Remember, m
  <2>2. /\ mem'[r].queue = m.queue /\ mem'[r].cmd = m.cmd
        /\ mem'[r].failure = m.failure
    BY <1>t, <2>1 DEF Memory
  <2>3. pc[r] = "exec" /\ pc'[r] = "sum" /\ m.cmd # "dcl:verify"
    BY <1>2, <1>t DEF FileDone, Goto, m
  <2>4. ~Execute(r)
    BY <2>3 DEF Execute
  <2> QED  BY <1>2, <2>2, <2>3, <2>4 DEF Active, Working, m
<1> QED  BY <1>1, <1>2

(* One run at a time.                                                      *)
Alone == \A q, r \in Runs : Active(q) /\ Active(r) => q = r

LEMMA AloneMove ==
  ASSUME Basic, NEW r \in Runs, Moves(r), policy = "Forbid", Alone
  PROVE  /\ Alone'
         /\ \A q \in Runs : Active(q) => q = r
         /\ pc[r] = "ready" \/ Active(r)
<1>1. \/ pc[r] = "ready" /\ \A q \in Runs : ~Active(q)
      \/ Active(r)
  <2>1. CASE Start(r)
    BY <2>1 DEF Start
  <2>2. CASE ~Start(r)
    <3>1. CASE Opens(r)
      <4>1. pc[r] = "ready"
        BY <3>1 DEF Opens
      <4>2. CASE Gate(r) \/ Forget(r) \/ Begin(r) \/ NextFile(r) \/ Look(r)
                 \/ Execute(r) \/ FileDone(r) \/ Record(r)
        BY <4>1, <4>2
        DEF Gate, Forget, Begin, NextFile, Look, Execute, FileDone, Record
      <4>3. CASE Copy(r) \/ Replace(r) \/ ReadCopies(r) \/ RemoveCopy(r)
                 \/ NextInstance(r) \/ VerifyNext(r) \/ FileFails(r)
                 \/ VerifyFails(r) \/ Captures(r)
        BY <4>1, <4>3
        DEF Copy, Replace, ReadCopies, RemoveCopy, NextInstance, VerifyNext,
            FileFails, VerifyFails, Captures, CaptureBefore, After,
            VerifyCapture
      <4>4. CASE Fails(r) \/ SaveFails(r) \/ CleanupFails(r)
                 \/ SummaryFails(r) \/ Crash(r)
        BY <4>1, <4>4
        DEF Fails, SaveFails, CleanupFails, SummaryFails, Crash, Active,
            Working
      <4> QED  BY <2>2, <4>2, <4>3, <4>4 DEF Moves
    <3>2. CASE Leads(r) \/ Stays(r)
      BY <3>2 DEF Leads, Stays
    <3>3. CASE Execute(r) \/ FileDone(r)
      BY <3>3, WorkFacts
    <3> QED  BY <3>1, <3>2, <3>3, MoveShapes
  <2> QED  BY <2>1, <2>2
<1>2. \A q \in Runs : Active(q) => q = r
  BY <1>1 DEF Alone
<1>3. ASSUME NEW q \in Runs, Active(q)'
      PROVE  q = r
  <2> SUFFICES ASSUME q # r PROVE FALSE
    OBVIOUS
  <2>1. pc'[q] = pc[q]
    BY MoveIsLocal DEF Basic
  <2>2. Active(q)
    BY <1>3, <2>1 DEF Active
  <2> QED  BY <1>2, <2>2
<1> QED  BY <1>1, <1>2, <1>3 DEF Alone

(* The passwords that a run has generated.                                 *)
Own(r) == {p \in Secrets : p.run = r}

(* An event shows a password of the run, or says why it shows none.        *)
Rows(r) ==
  \A a \in Accounts :
    LET e == mem[r].events[a] IN
    /\ e.pw # Mute => e.pw \in Own(r)
    /\ e.kind \in {"nothing", "no_change"} => e.pw = Mute

(* What a run has set, it has set on the instance in hand.                 *)
Fresh(r) ==
  LET m == mem[r] IN
  /\ Active(r) =>
       /\ \A j, k \in DOMAIN m.queue : m.queue[j] = m.queue[k] => j = k
       /\ \A k \in DOMAIN m.queue, a \in Accounts :
            k > 1 \/ pc[r] \in Early => accounts[m.queue[k]][a] \notin Own(r)
  /\ pc[r] = "ready" =>
       \A i \in Places, a \in Accounts : accounts[i][a] \notin Own(r)

(* Before its email, no password of the run was in one.                    *)
Unmailed(r) ==
  pc[r] \in Setting /\ ~mem[r].failure /\ mem[r].cmd # "dcl:verify" =>
    \A a \in Accounts : accounts[Here(r)][a] \in Own(r) =>
                          fate[Here(r)][a] # "mailed"

(* The email of the outer catch of dcl has no events.                      *)
Apology(r) == pc[r] = "copy" /\ mem[r].failure => mem[r].events = Quiet

LEMMA QueueFacts ==
  ASSUME Basic, NEW r \in Runs, Active(r)
  PROVE  /\ mem[r].queue \in Seq(Places) /\ mem[r].queue # <<>>
         /\ Len(mem[r].queue) \in Nat
         /\ DOMAIN mem[r].queue = 1..Len(mem[r].queue)
         /\ 1 \in DOMAIN mem[r].queue
         /\ Here(r) = mem[r].queue[1] /\ Here(r) \in Places
         /\ \A k \in DOMAIN mem[r].queue : mem[r].queue[k] \in Places
<1>1. /\ mem[r].queue \in Seq(Places) /\ mem[r].queue # <<>>
      /\ Here(r) \in Places
  BY MemoryFacts DEF Basic, Hands, HandOf
<1>2. /\ Len(mem[r].queue) \in Nat
      /\ DOMAIN mem[r].queue = 1..Len(mem[r].queue)
  BY <1>1, LenProperties
<1>3. 1 \in DOMAIN mem[r].queue
  BY <1>1, <1>2
<1> QED  BY <1>1, <1>2, <1>3 DEF Here

LEMMA RowsMove ==
  ASSUME Basic, NEW r \in Runs, Moves(r), Rows(r)
  PROVE  Rows(r)'
<1>q. ASSUME mem'[r].events = Quiet
      PROVE  Rows(r)'
  BY <1>q DEF Rows, Quiet, Nothing
<1>1. CASE Opens(r) \/ Leads(r)
  BY <1>1, <1>q DEF Opens, Leads
<1>2. CASE Stays(r) \/ Execute(r)
  <2>1. mem'[r].events = mem[r].events
    BY <1>2, WorkFacts DEF Stays
  <2> QED  BY <2>1 DEF Rows, Own
<1>3. CASE FileDone(r)
  <2>t. /\ TypeOK /\ Hands /\ mem[r] \in Memory /\ mem \in [Runs -> Memory]
        /\ pc[r] = "exec" /\ mem[r].cmd # "dcl:verify"
    BY <1>3, MemoryFacts DEF Basic, TypeOK, FileDone
  <2>1. PICK lists \in BOOLEAN :
          mem'[r] = [mem[r] EXCEPT !.events = Recorded(r, lists)]
    BY <1>3, <2>t DEF FileDone, Remember
  <2>2. mem'[r].events = Recorded(r, lists)
    BY <2>1, <2>t DEF Memory
  <2>3. mem'[r].events \in [Accounts -> Event]
    BY <2>2, <2>t, RecordedFacts
  <2>4. ASSUME NEW a \in Accounts
        PROVE  LET e == Recorded(r, lists)[a] IN
               /\ e.pw # Mute => e.pw \in Own(r)
               /\ e.kind \in {"nothing", "no_change"} => e.pw = Mute
    <3> DEFINE e == Recorded(r, lists)[a]
               K == Reported(r, lists, a)
    <3>1. /\ (\E k \in K : KindOf(r, k) # "no_change") =>
               \E k \in K :
                 /\ KindOf(r, k) # "no_change"
                 /\ e.pw = IF Misaligned(mem[r], lists) THEN Mute
                           ELSE SecretAt(r, k)
                 /\ e.kind \in {"new", KindOf(r, k)}
          /\ (\A k \in K : KindOf(r, k) = "no_change") =>
               \/ e = [kind |-> "no_change", pw |-> Mute]
               \/ e = mem[r].events[a]
      BY <2>t, RecordedFacts
    <3>2. e \in Event
      BY <2>2, <2>3
    <3>3. ASSUME NEW k \in K
          PROVE  KindOf(r, k) # "nothing"
      <4>1. MariaKind(mem[r], k) # "nothing" \/ k \notin K
        <5>1. k \in Placeholders(Source(mem[r]))
          BY DEF Reported
        <5> QED  BY <5>1 DEF MariaKind
      <4>2. MongoKind(mem[r], k) # "nothing"
        BY DEF MongoKind
      <4> QED  BY <4>1, <4>2 DEF KindOf
    <3> HIDE DEF e, K
    <3>4. CASE \A k \in K : KindOf(r, k) = "no_change"
      <4>1. CASE e = [kind |-> "no_change", pw |-> Mute]
        BY <4>1 DEF e
      <4>2. CASE e = mem[r].events[a]
        BY <4>2 DEF e, Rows
      <4> QED  BY <3>1, <3>4, <4>1, <4>2
    <3>5. CASE \E k \in K : KindOf(r, k) # "no_change"
      <4>1. PICK k \in K :
              /\ KindOf(r, k) # "no_change"
              /\ e.pw = IF Misaligned(mem[r], lists) THEN Mute
                        ELSE SecretAt(r, k)
              /\ e.kind \in {"new", KindOf(r, k)}
        BY <3>1, <3>5
      <4>2. e.kind \notin {"nothing", "no_change"}
        BY <3>3, <4>1
      <4>3. e.pw # Mute => e.pw \in Own(r)
        BY <3>2, <4>1 DEF Event, SecretAt, Own
      <4> QED  BY <4>2, <4>3 DEF e
    <3> QED  BY <3>4, <3>5
  <2> QED  BY <2>2, <2>4 DEF Rows, Own
<1> QED  BY <1>1, <1>2, <1>3, MoveShapes

LEMMA FreshMove ==
  ASSUME Basic, NEW r \in Runs, Moves(r), Fresh(r)
  PROVE  Fresh(r)'
<1>t. TypeOK /\ Hands
  BY DEF Basic
<1>e. ASSUME Execute(r) \/ FileDone(r)
      PROVE  Fresh(r)'
  <2>1. /\ pc[r] = "exec" /\ pc'[r] \in {"exec", "sum"} /\ Active(r)
        /\ mem'[r].queue = mem[r].queue
    BY <1>e, WorkFacts
  <2>2. Here(r) = mem[r].queue[1] /\ 1 \in DOMAIN mem[r].queue
        /\ \A k \in DOMAIN mem[r].queue : k \in Nat /\ mem[r].queue[k] \in Places
    BY <2>1, QueueFacts
  <2>3. ASSUME NEW k \in DOMAIN mem[r].queue, k > 1, NEW a \in Accounts
        PROVE  accounts'[mem[r].queue[k]][a] = accounts[mem[r].queue[k]][a]
    <3>1. mem[r].queue[k] # Here(r)
      BY <2>1, <2>2, <2>3 DEF Fresh
    <3>2. CASE Execute(r)
      <4> DEFINE s == Script[mem[r].body][mem[r].at]
      <4>1. \A j \in Places, b \in Accounts : j # Here(r) \/ b # s.on =>
              accounts'[j][b] = accounts[j][b] /\ fate'[j][b] = fate[j][b]
        BY <1>t, <3>2, ExecuteFacts
      <4> QED  BY <2>2, <3>1, <4>1
    <3>3. CASE FileDone(r)
      BY <3>3 DEF FileDone, servers, world
    <3> QED  BY <1>e, <3>2, <3>3
  <2> QED  BY <2>1, <2>3 DEF Fresh, Early, Own
<1> SUFFICES ASSUME ~Execute(r), ~FileDone(r)
             PROVE  Fresh(r)'
  BY <1>e
<1>a. accounts' = accounts
  BY FateSteps
<1>1. CASE Opens(r)
  <2>1. pc'[r] # "ready" /\ pc[r] = "ready"
    BY <1>1 DEF Opens, Working
  <2> QED  BY <1>1, <1>a, <2>1 DEF Opens, Fresh, Own
<1>2. CASE Leads(r)
  <2> DEFINE q == mem[r].queue
             w == mem'[r].queue
  <2>1. /\ q \in Seq(Places) /\ q # <<>>
        /\ DOMAIN q = 1..Len(q) /\ Len(q) \in Nat /\ Active(r)
    BY <1>2, QueueFacts DEF Leads
  <2>2. /\ \A j, k \in DOMAIN q : q[j] = q[k] => j = k
        /\ \A k \in DOMAIN q, a \in Accounts :
             k > 1 => accounts[q[k]][a] \notin Own(r)
    BY <2>1 DEF Fresh
  <2> HIDE DEF q, w
  <2>3. CASE pc'[r] \in Ended
    BY <2>3 DEF Fresh, Active, Ended, Working
  <2>4. CASE w = q /\ pc'[r] \in Working \ Early
    <3>1. pc'[r] # "ready" /\ pc'[r] \notin Early
      BY <2>4 DEF Working
    <3> QED  BY <1>a, <2>2, <2>4, <3>1 DEF Fresh, Own, w
  <2>5. CASE pc'[r] \in Early /\ w = Tail(q)
    <3>1. /\ DOMAIN w = 1..(Len(q) - 1)
          /\ \A k \in DOMAIN w : k \in Nat /\ k + 1 \in DOMAIN q
                                 /\ w[k] = q[k + 1] /\ k + 1 > 1
      BY <2>1, <2>5
    <3>2. \A j, k \in DOMAIN w : w[j] = w[k] => j = k
      BY <2>2, <3>1
    <3>3. \A k \in DOMAIN w, a \in Accounts : accounts[w[k]][a] \notin Own(r)
      BY <2>2, <3>1
    <3>4. pc'[r] # "ready"
      BY <2>5 DEF Early
    <3> QED  BY <1>a, <3>2, <3>3, <3>4 DEF Fresh, Own, w
  <2>6. \/ pc'[r] \in Ended
        \/ w = q /\ pc'[r] \in Working \ Early
        \/ pc'[r] \in Early /\ w = Tail(q)
    BY <1>2 DEF Leads, q, w, Early, Working
  <2> QED  BY <2>3, <2>4, <2>5, <2>6
<1>3. CASE Stays(r)
  <2>1. pc'[r] # "ready" /\ Active(r)
    BY <1>3 DEF Stays, Working
  <2> QED  BY <1>3, <1>a, <2>1 DEF Stays, Fresh, Own
<1> QED  BY <1>1, <1>2, <1>3, MoveShapes

LEMMA UnmailedMove ==
  ASSUME Basic, NEW r \in Runs, Moves(r), Fresh(r), Unmailed(r)
  PROVE  Unmailed(r)'
<1> SUFFICES ASSUME pc'[r] \in Setting, ~mem'[r].failure,
                    mem'[r].cmd # "dcl:verify"
             PROVE  \A a \in Accounts :
                      accounts'[Here(r)'][a] \in Own(r) =>
                        fate'[Here(r)'][a] # "mailed"
  BY DEF Unmailed, Own
<1>1. Active(r) /\ mem'[r].queue = mem[r].queue
      /\ mem'[r].failure = mem[r].failure /\ mem'[r].cmd = mem[r].cmd
      /\ (pc[r] \in Setting \/ (pc[r] \in Early /\ Stays(r)))
      /\ ~Copy(r)
  <2>1. ~Opens(r)
    BY DEF Opens
  <2>2. ~Leads(r)
    BY DEF Leads, Setting, Early, Ended
  <2>3. CASE Stays(r)
    <3>1. Copy(r) => pc'[r] = "latest"
      BY DEF Copy, Goto, Basic, TypeOK
    <3> QED  BY <2>3, <3>1 DEF Stays, Setting
  <2>4. CASE Execute(r) \/ FileDone(r)
    <3>1. pc[r] = "exec"
      BY <2>4, WorkFacts
    <3> QED  BY <2>4, <3>1, WorkFacts DEF Setting, Copy
  <2> QED  BY <2>1, <2>2, <2>3, <2>4, MoveShapes
<1>2. Here(r)' = Here(r) /\ Here(r) \in Places
      /\ Here(r) = mem[r].queue[1] /\ 1 \in DOMAIN mem[r].queue
  BY <1>1, QueueFacts DEF Here
<1> SUFFICES ASSUME NEW a \in Accounts, accounts'[Here(r)][a] \in Own(r)
             PROVE  fate'[Here(r)][a] # "mailed"
  BY <1>2
<1>3. CASE Execute(r)
  <2> DEFINE i == Here(r)
             s == Script[mem[r].body][mem[r].at]
             old == accounts[i][s.on]
             new == Leaves(s.op, old, Password(r))
  <2>t. TypeOK /\ Hands
    BY DEF Basic
  <2>1. /\ s.on \in Accounts /\ accounts'[i][s.on] = new
        /\ fate'[i][s.on] \in {"lost", "open"}
           \/ (new = old /\ fate'[i][s.on] = fate[i][s.on])
    BY <1>3, <2>t, ExecuteFacts
  <2>7. \A j \in Places, b \in Accounts : j # Here(r) \/ b # s.on =>
          accounts'[j][b] = accounts[j][b] /\ fate'[j][b] = fate[j][b]
    BY <1>3, <2>t, ExecuteFacts
  <2>6. \A b \in Accounts : b # s.on =>
          accounts'[i][b] = accounts[i][b] /\ fate'[i][b] = fate[i][b]
    BY <1>2, <2>7
  <2>2. pc[r] = "exec"
    BY <1>3 DEF Execute
  <2>3. \A b \in Accounts : accounts[i][b] \in Own(r) => fate[i][b] # "mailed"
    BY <1>1, <2>2 DEF Unmailed, Setting
  <2> HIDE DEF s, new
  <2>4. CASE a = s.on
    BY <2>1, <2>3, <2>4
  <2>5. CASE a # s.on
    BY <2>3, <2>5, <2>6
  <2> QED  BY <2>4, <2>5
<1>4. CASE ~Execute(r)
  <2>1. accounts' = accounts /\ fate'[Here(r)][a] \in {fate[Here(r)][a], "lost"}
    BY <1>1, <1>2, <1>4, FateSteps
  <2>2. pc[r] \notin Early
    BY <1>1, <1>2, <2>1 DEF Fresh
  <2>3. fate[Here(r)][a] # "mailed"
    BY <1>1, <2>1, <2>2 DEF Unmailed
  <2> QED  BY <2>1, <2>3
<1> QED  BY <1>3, <1>4

LEMMA ApologyMove ==
  ASSUME Basic, NEW r \in Runs, Moves(r), Reports(r), Apology(r)
  PROVE  Apology(r)'
<1> SUFFICES ASSUME pc'[r] = "copy", mem'[r].failure
             PROVE  mem'[r].events = Quiet
  BY DEF Apology
<1>1. CASE Opens(r) \/ Leads(r)
  BY <1>1 DEF Opens, Leads
<1>2. CASE Stays(r)
  <2>1. mem[r].failure /\ pc[r] = "after"
    BY <1>2 DEF Stays
  <2> QED  BY <2>1 DEF Reports, AtWork
<1>3. CASE Execute(r) \/ FileDone(r)
  BY <1>3, WorkFacts
<1> QED  BY <1>1, <1>2, <1>3, MoveShapes

Droppable(a) == \E c \in Contents : \E k \in DOMAIN Script[c] :
                  Script[c][k].op = "drop" /\ Script[c][k].on = a

(* The event of the account is right: it shows the password in force, or   *)
(* one of the things has happened that MailIsTrue lets happen.             *)
Shown(r, a) ==
  LET i == Here(r)
      p == accounts[i][a]
  IN  \/ p = mem[r].events[a].pw
      \/ p = NoAccount /\ Droppable(a)
      \/ p \in Secrets /\ fate[i][a] = "lost"
      \/ Kind[i] = "mongo" /\ edits > 0 /\ p = Given

Tells(r) == pc[r] \in Telling =>
  \A a \in Accounts : mem[r].events[a].pw # Mute => Shown(r, a)

(* A statement of the file in hand has set the account, or should have.    *)
Touched(r, a) ==
  LET m == mem[r] IN
  \/ a \in m.made
  \/ \E k \in DOMAIN Script[m.body] :
       LET s == Script[m.body][k] IN
       /\ k < m.at /\ s.on = a
       /\ \/ s.op \in {"replace", "reset", "drop"}
          \/ s.op = "create" /\ Kind[Here(r)] = "maria" /\ a \notin m.found

(* Within a file: the events of the files before it still hold but for     *)
(* what it has set, and what it has touched it has set.                    *)
Unchanged(r, a) ==
  LET p == accounts[Here(r)][a] IN
  mem[r].events[a].pw # Mute =>
    Shown(r, a) \/ (p \in Own(r) /\ p.file = mem[r].file)

SetByRun(r, a) ==
  LET p == accounts[Here(r)][a] IN
  Touched(r, a) => p \in Own(r) \/ (p = NoAccount /\ Droppable(a))

Absent(r, a) ==
  LET m == mem[r] IN
  /\ Kind[Here(r)] = "maria" /\ a \notin m.found /\ Target(m.body, a)
  /\ \A k \in DOMAIN Script[m.body] : k < m.at => Script[m.body][k].on # a
  => accounts[Here(r)][a] = NoAccount

InFile(r) ==
  /\ pc[r] = "look" => mem[r].made = {}
  /\ pc[r] = "exec" /\ mem[r].cmd # "dcl:verify" =>
       \A a \in Accounts :
         /\ Unchanged(r, a)
         /\ mem[r].body # NoFile /\ Generates(Source(mem[r])) =>
              SetByRun(r, a) /\ Absent(r, a)

LEMMA InFileByExecute ==
  ASSUME Basic, CreatedOnce, FixedStay, NEW r \in Runs, Execute(r), edits' = edits,
         Reading(r), Rows(r), InFile(r)
  PROVE  InFile(r)'
<1> DEFINE i == Here(r)
           m == mem[r]
           n == mem'[r]
           s == Script[m.body][m.at]
           old == accounts[i][s.on]
           new == Leaves(s.op, old, Password(r))
<1>t. TypeOK /\ Hands
  BY DEF Basic
<1>1. /\ i \in Places /\ s.on \in Accounts /\ s.op \in Ops
      /\ m.body \in Contents /\ m.at \in DOMAIN Script[m.body]
      /\ s.op = "reset" => old # NoAccount
      /\ accounts'[i][s.on] = new
      /\ new = old => fate'[i][s.on] = fate[i][s.on]
  BY <1>t, ExecuteFacts
<1>2. \A j \in Places, b \in Accounts : j # Here(r) \/ b # s.on =>
        accounts'[j][b] = accounts[j][b] /\ fate'[j][b] = fate[j][b]
  BY <1>t, ExecuteFacts
<1>3. mem'[r] = [m EXCEPT !.at = m.at + 1,
           !.made = IF s.op \in {"create", "replace"} /\ new # old
                    THEN m.made \cup {s.on} ELSE m.made]
  BY <1>t, ExecuteFacts
<1>4. /\ pc[r] = "exec" /\ pc'[r] = "exec" /\ n.events = m.events
      /\ n.body = m.body /\ n.file = m.file /\ n.list = m.list
      /\ n.found = m.found /\ n.at = m.at + 1 /\ n.queue = m.queue
      /\ n.cmd = m.cmd
  BY WorkFacts
<1>5. n.made = IF s.op \in {"create", "replace"} /\ new # old
               THEN m.made \cup {s.on} ELSE m.made
  <2>1. m \in Memory
    BY <1>t, MemoryFacts
  <2>2. PICK x : x = IF s.op \in {"create", "replace"} /\ new # old
                     THEN m.made \cup {s.on} ELSE m.made
    OBVIOUS
  <2>3. n = [m EXCEPT !.at = m.at + 1, !.made = x]
    BY <1>3, <2>2
  <2> HIDE DEF m, n
  <2>4. n.made = x
    BY <2>1, <2>3 DEF Memory
  <2> QED  BY <2>2, <2>4
<1>6. /\ s.op = "drop" => new = NoAccount
      /\ s.op \in {"replace", "reset"} => new = Password(r)
      /\ s.op = "create" => new = IF old = NoAccount THEN Password(r) ELSE old
      /\ s.op = "other" => new = IF old = NoAccount THEN Given ELSE old
  <2>1. s.op \in Ops
    BY <1>1
  <2> HIDE DEF s, old
  <2>2. /\ s.op = "drop" => new = NoAccount
        /\ s.op \in {"replace", "reset"} => new = Password(r)
        /\ s.op \in {"create", "other"} =>
             IF old = NoAccount
             THEN new = IF s.op = "create" THEN Password(r) ELSE Given
             ELSE new = old
    BY <2>1, LeavesFacts
  <2> QED  BY <2>2
<1>7. /\ Secret(r) \in Own(r) /\ Secret(r).file = m.file
      /\ m.at \in Nat /\ \A k \in DOMAIN Script[m.body] : k \in Nat
  <2>1. Secret(r) \in Secrets /\ Secret(r).run = r
        /\ Secret(r).file = m.file /\ m.at \in Nat
    BY <1>1, <1>4, <1>t, SecretFacts, ConstantFacts
  <2>2. \A k \in DOMAIN Script[m.body] : k \in Nat
    <3>1. m.body \in Contents
      BY <1>1
    <3> HIDE DEF m
    <3>2. /\ DOMAIN Script[m.body] = 1..Len(Script[m.body])
          /\ Len(Script[m.body]) \in Nat
      BY <3>1, ConstantFacts
    <3> QED  BY <3>2
  <2> QED  BY <2>1, <2>2 DEF Own
<1>8. m.body # NoFile /\ Source(n) = Source(m) /\ Here(r)' = i
  BY <1>1, <1>4, ConstantFacts DEF Source, Here
<1>9. /\ Generates(Source(m)) => Password(r) = Secret(r)
      /\ ~Generates(Source(m)) => Password(r) = Given
  BY DEF Password
<1>10. /\ s.op \in Ops /\ Ops = {"create", "replace", "reset", "drop", "other"}
       /\ NoAccount \notin Secrets /\ Given \notin Secrets
       /\ NoAccount # Given /\ Own(r) \subseteq Secrets
  BY <1>1, ConstantFacts DEF Ops, Own
<1>11. ASSUME s.op = "other"
       PROVE  ~Droppable(s.on)
  BY ZenonT(60), <1>1, <1>11 DEF FixedStay, Droppable
<1>12. s.op = "drop" => Droppable(s.on)
  BY <1>1 DEF Droppable
<1>w. ASSUME m.cmd # "dcl:verify"
      PROVE  m.body = Source(m) \/ (Kind[i] = "mongo" /\ edits > 0)
  BY <1>4, <1>w DEF Reading, InLoop
<1>g. s.op \in Generating => Generates(m.body)
  BY <1>1 DEF Generates
<1> SUFFICES ASSUME m.cmd # "dcl:verify", NEW a \in Accounts
             PROVE  /\ Unchanged(r, a)'
                    /\ Generates(Source(m)) =>
                         SetByRun(r, a)' /\ Absent(r, a)'
  BY <1>4, <1>8 DEF InFile
<1>13. /\ Unchanged(r, a)
       /\ Generates(Source(m)) => SetByRun(r, a) /\ Absent(r, a)
  BY <1>4, <1>8 DEF InFile
<1>14. m.events[a].pw # Mute => m.events[a].pw \in Secrets
  BY <1>10 DEF Rows
<1>o. Own(r)' = Own(r)
  BY DEF Own
<1> HIDE DEF s, old, new, m, n, i
<1>15. Unchanged(r, a)'
  <2> SUFFICES ASSUME m.events[a].pw # Mute
               PROVE  \/ Shown(r, a)'
                      \/ accounts'[i][a] \in Own(r)
                         /\ accounts'[i][a].file = m.file
    BY <1>4, <1>8, <1>o DEF Unchanged, n, i
  <2>1. Shown(r, a) \/ (accounts[i][a] \in Own(r)
                        /\ accounts[i][a].file = m.file)
    BY <1>13 DEF Unchanged, m, i
  <2>2. ASSUME accounts'[i][a] = accounts[i][a], fate'[i][a] = fate[i][a],
               Shown(r, a)
        PROVE  Shown(r, a)'
    BY <1>4, <1>8, <2>2 DEF Shown, m, n, i
  <2>3. CASE a # s.on \/ new = old
    <3>1. accounts'[i][a] = accounts[i][a] /\ fate'[i][a] = fate[i][a]
      BY <1>1, <1>2, <2>3 DEF i, old
    <3> QED  BY <2>1, <2>2, <3>1
  <2>4. CASE a = s.on /\ new # old
    <3>1. accounts'[i][a] = new /\ accounts[i][a] = old
      BY <1>1, <2>4 DEF old
    <3>2. CASE s.op = "drop"
      <4>1. new = NoAccount /\ Droppable(a)
        BY <1>6, <1>12, <2>4, <3>2
      <4> QED  BY <1>8, <3>1, <4>1 DEF Shown
    <3>3. CASE s.op \in Generating
      <4>1. new = Password(r)
        BY <1>6, <2>4, <3>3 DEF Generating
      <4>2. CASE Generates(Source(m))
        BY <1>7, <1>9, <3>1, <4>1, <4>2
      <4>3. CASE ~Generates(Source(m))
        <5>1. m.body # Source(m)
          BY <1>g, <3>3, <4>3
        <5>2. Kind[i] = "mongo" /\ edits > 0 /\ new = Given
          BY <1>9, <1>w, <4>1, <4>3, <5>1
        <5> QED  BY <1>8, <3>1, <5>2 DEF Shown
      <4> QED  BY <4>2, <4>3
    <3>4. CASE s.op = "other"
      <4>1. old = NoAccount
        BY <1>6, <2>4, <3>4
      <4>2. ~Shown(r, a)
        BY <1>10, <1>11, <1>14, <2>4, <3>1, <3>4, <4>1 DEF Shown, i, m
      <4> QED  BY <1>10, <2>1, <3>1, <4>1, <4>2
    <3> QED  BY <1>10, <3>2, <3>3, <3>4 DEF Generating
  <2> QED  BY <2>3, <2>4
<1>16. ASSUME Generates(Source(m))
       PROVE  SetByRun(r, a)'
  <2> DEFINE Good1(p) == p \in Own(r) \/ (p = NoAccount /\ Droppable(a))
  <2> SUFFICES ASSUME Touched(r, a)'
               PROVE  Good1(accounts'[i][a])
    BY <1>8, <1>o DEF SetByRun
  <2>1. Touched(r, a) => Good1(accounts[i][a])
    BY <1>13, <1>16 DEF SetByRun, i
  <2>2. \/ a \in n.made
        \/ \E k \in DOMAIN Script[m.body] :
             /\ k < m.at + 1 /\ Script[m.body][k].on = a
             /\ \/ Script[m.body][k].op \in {"replace", "reset", "drop"}
                \/ /\ Script[m.body][k].op = "create"
                   /\ Kind[i] = "maria" /\ a \notin m.found
    BY <1>4, <1>8 DEF Touched, n
  <2>3. \/ Touched(r, a)
        \/ a \in n.made \ m.made
        \/ /\ a = s.on
           /\ \/ s.op \in {"replace", "reset", "drop"}
              \/ s.op = "create" /\ Kind[i] = "maria" /\ a \notin m.found
    <3>1. CASE a \in n.made
      BY <3>1 DEF Touched, m
    <3>2. ASSUME NEW k \in DOMAIN Script[m.body],
                 k < m.at + 1, Script[m.body][k].on = a,
                 \/ Script[m.body][k].op \in {"replace", "reset", "drop"}
                 \/ /\ Script[m.body][k].op = "create"
                    /\ Kind[i] = "maria" /\ a \notin m.found
          PROVE  \/ Touched(r, a)
                 \/ /\ a = s.on
                    /\ \/ s.op \in {"replace", "reset", "drop"}
                       \/ /\ s.op = "create" /\ Kind[i] = "maria"
                          /\ a \notin m.found
      <4>1. k < m.at \/ k = m.at
        BY <1>7, <3>2
      <4>2. CASE k = m.at
        BY <3>2, <4>2 DEF s
      <4>3. CASE k < m.at
        BY <3>2, <4>3 DEF Touched, m, i
      <4> QED  BY <4>1, <4>2, <4>3
    <3> QED  BY <2>2, <3>1, <3>2
  <2> HIDE DEF Good1
  <2>4. CASE a # s.on
    <3>1. accounts'[i][a] = accounts[i][a]
      BY <1>1, <1>2, <2>4 DEF i
    <3>2. Touched(r, a)
      BY <1>5, <2>3, <2>4
    <3> QED  BY <2>1, <3>1, <3>2
  <2>5. CASE a = s.on
    <3>1. accounts'[i][a] = new /\ accounts[i][a] = old
      BY <1>1, <2>5 DEF old
    <3>2. new = Secret(r) => Good1(new)
      BY <1>7 DEF Good1
    <3>3. CASE s.op \in {"replace", "reset"}
      BY <1>6, <1>9, <1>16, <3>1, <3>2, <3>3
    <3>4. CASE s.op = "drop"
      BY <1>6, <1>12, <2>5, <3>1, <3>4 DEF Good1
    <3>5. CASE s.op = "other"
      <4>1. n.made = m.made
        BY <1>5, <3>5
      <4>2. Touched(r, a)
        BY <2>3, <3>5, <4>1
      <4>3. Good1(old) /\ ~Droppable(a)
        BY <1>11, <2>1, <2>5, <3>1, <3>5, <4>2
      <4>4. old # NoAccount
        BY <1>10, <4>3 DEF Good1
      <4> QED  BY <1>6, <3>1, <3>5, <4>3, <4>4
    <3>6. CASE s.op = "create" /\ old = NoAccount
      BY <1>6, <1>9, <1>16, <3>1, <3>2, <3>6
    <3>7. CASE s.op = "create" /\ old # NoAccount
      <4>1. new = old /\ n.made = m.made
        BY <1>5, <1>6, <3>7
      <4>2. Touched(r, a)
        <5> SUFFICES ASSUME ~Touched(r, a)
                     PROVE  FALSE
          OBVIOUS
        <5>1. Kind[i] = "maria" /\ a \notin m.found
          BY <2>3, <3>7, <4>1
        <5>2. Target(m.body, a)
          BY <1>1, <2>5, <3>7 DEF Target, s
        <5>3. PICK j \in DOMAIN Script[m.body] :
                j < m.at /\ Script[m.body][j].on = a
          BY <1>13, <1>16, <3>1, <3>7, <5>1, <5>2 DEF Absent, i, m
        <5>4. /\ Script[m.body][j].op \notin {"replace", "reset", "drop"}
              /\ Script[m.body][j].op # "create"
          BY <5>1, <5>3 DEF Touched, i, m
        <5>5. \E l \in j..m.at : /\ Script[m.body][l].op = "drop"
                                 /\ Script[m.body][l].on = a
          <6>1. /\ m.body \in Contents /\ m.at \in DOMAIN Script[m.body]
                /\ Script[m.body][m.at].on = a
                /\ Script[m.body][m.at].op = "create"
            BY <1>1, <2>5, <3>7 DEF s
          <6>2. Script[m.body][j].op # "drop"
            BY <5>4
          <6> QED  BY <5>3, <6>1, <6>2 DEF CreatedOnce
        <5>6. PICK l \in j..m.at : /\ Script[m.body][l].op = "drop"
                                   /\ Script[m.body][l].on = a
          BY <5>5
        <5>7. l # m.at
          BY <3>7, <5>6 DEF s
        <5>8. l < m.at /\ l \in DOMAIN Script[m.body]
          <6>1. /\ DOMAIN Script[m.body] = 1..Len(Script[m.body])
                /\ Len(Script[m.body]) \in Nat
            BY <1>1, ConstantFacts
          <6> QED  BY <1>1, <5>3, <5>6, <5>7, <6>1
        <5> QED  BY <5>6, <5>8 DEF Touched, m
      <4> QED  BY <2>1, <3>1, <4>1, <4>2
    <3> QED  BY <1>10, <3>3, <3>4, <3>5, <3>6, <3>7
  <2> QED  BY <2>4, <2>5 DEF Good1
<1>17. ASSUME Generates(Source(m))
       PROVE  Absent(r, a)'
  <2> SUFFICES ASSUME Kind[i] = "maria", a \notin m.found, Target(m.body, a),
                      \A k \in DOMAIN Script[m.body] :
                        k < m.at + 1 => Script[m.body][k].on # a
               PROVE  accounts'[i][a] = NoAccount
    BY <1>4, <1>8 DEF Absent, n
  <2>1. a # s.on
    BY <1>1, <1>7 DEF s
  <2>2. accounts'[i][a] = accounts[i][a]
    BY <1>1, <1>2, <2>1 DEF i
  <2>3. \A k \in DOMAIN Script[m.body] : k < m.at => Script[m.body][k].on # a
    BY <1>7
  <2>4. Absent(r, a)
    BY <1>13, <1>17
  <2> QED  BY <2>2, <2>3, <2>4 DEF Absent, i, m
<1> QED  BY <1>15, <1>16, <1>17

LEMMA ShownStays ==
  ASSUME NEW r \in Runs, NEW a \in Accounts, Shown(r, a),
         mem'[r].events[a] = mem[r].events[a],
         mem'[r].queue = mem[r].queue, edits' = edits,
         accounts' = accounts,
         \/ fate'[Here(r)][a] \in {fate[Here(r)][a], "lost"}
         \/ accounts[Here(r)][a] = mem[r].events[a].pw
  PROVE  Shown(r, a)'
<1>1. Here(r)' = Here(r)
  BY DEF Here
<1> QED  BY <1>1 DEF Shown

LEMMA InFileMove ==
  ASSUME Basic, Basic', CreatedOnce, FixedStay, NEW r \in Runs, Moves(r),
         Reading(r), Rows(r), Tells(r), InFile(r)
  PROVE  InFile(r)'
<1>t. TypeOK /\ Hands /\ edits' = edits
  BY RanSteps DEF Basic
<1>1. CASE Execute(r)
  BY <1>1, <1>t, InFileByExecute
<1>2. CASE ~Execute(r)
  <2> SUFFICES ASSUME \/ pc'[r] = "look"
                      \/ pc'[r] = "exec" /\ mem'[r].cmd # "dcl:verify"
               PROVE  InFile(r)'
    BY DEF InFile
  <2> DEFINE m == mem[r]
             n == mem'[r]
  <2>1. /\ NextFile(r) \/ Look(r)
        /\ pc[r] \in Telling
        /\ n.events = m.events /\ n.queue = m.queue
        /\ Here(r)' = Here(r) /\ Here(r) \in Places
    <3>1. ~Opens(r) /\ ~Leads(r) /\ ~FileDone(r)
      BY WorkFacts DEF Opens, Leads, Setting, Early, Ended
    <3>2. Stays(r)
      BY <1>2, <3>1, MoveShapes
    <3>3. NextFile(r) \/ Look(r)
      BY <3>2 DEF Stays
    <3>4. pc[r] \in Telling /\ Active(r)
      BY <3>3 DEF NextFile, Look, Telling, Setting, Active, Working
    <3> QED  BY <3>2, <3>3, <3>4, QueueFacts DEF Stays, Here
  <2>2. /\ n.made = {} /\ n.at = 1
        /\ n.body \in Contents \cup {NoFile}
    <3>1. n.made = {} /\ n.at = 1
      <4>1. CASE NextFile(r)
        <5>1. pc'[r] # "after"
          OBVIOUS
        <5> QED  BY <1>t, <4>1, <5>1, NextFileKeeps
      <4>2. CASE Look(r)
        <5>1. m.made = {} /\ m.at = 1 /\ m \in Memory
          BY <1>t, <4>2, MemoryFacts DEF Look, InFile, Hands, HandOf
        <5>2. PICK x : n = [m EXCEPT !.found = x]
          BY <1>t, <4>2 DEF Look, Remember, TypeOK
        <5> HIDE DEF m, n
        <5>3. n.made = m.made /\ n.at = m.at
          BY <5>1, <5>2 DEF Memory
        <5> QED  BY <5>1, <5>3
      <4> QED  BY <2>1, <4>1, <4>2
    <3>2. n \in Memory
      BY DEF Basic, TypeOK, Memory
    <3> QED  BY <3>1, <3>2 DEF Memory
  <2>3. accounts' = accounts /\ ~Copy(r)
    BY <1>2, <2>1, FateSteps DEF NextFile, Look, Copy
  <2>4. ASSUME NEW a \in Accounts
        PROVE  Unchanged(r, a)'
    <3> SUFFICES ASSUME n.events[a].pw # Mute
                 PROVE  Shown(r, a)'
      BY DEF Unchanged
    <3>1. Shown(r, a)
      BY <2>1 DEF Tells
    <3>2. fate'[Here(r)][a] \in {fate[Here(r)][a], "lost"}
      BY <1>2, <2>1, <2>3, FateSteps
    <3> QED  BY <1>t, <2>1, <2>3, <3>1, <3>2, ShownStays
  <2>5. ASSUME NEW a \in Accounts, n.body # NoFile
        PROVE  SetByRun(r, a)'
    <3>1. \A k \in DOMAIN Script[n.body] : ~(k < 1)
      <4>1. n.body \in Contents
        BY <2>2, <2>5
      <4> HIDE DEF n
      <4>2. /\ DOMAIN Script[n.body] = 1..Len(Script[n.body])
            /\ Len(Script[n.body]) \in Nat
        BY <4>1, ConstantFacts
      <4> QED  BY <4>2
    <3>2. ~Touched(r, a)'
      BY <2>2, <3>1 DEF Touched
    <3> QED  BY <3>2 DEF SetByRun
  <2>6. ASSUME NEW a \in Accounts, pc'[r] = "exec", n.body # NoFile,
               Generates(Source(n))
        PROVE  Absent(r, a)'
    <3>1. CASE NextFile(r)
      <4>1. /\ n.list = m.list
            /\ pc'[r] = IF /\ Kind[Here(r)] = "maria"
                           /\ Generates(m.list[n.file])
                        THEN "look" ELSE "exec"
        BY <1>t, <2>6, <3>1, NextFileKeeps
      <4>2. Kind[Here(r)] # "maria"
        BY <2>6, <4>1 DEF Source
      <4> QED  BY <2>1, <4>2 DEF Absent
    <3>2. CASE Look(r)
      <4>1. m \in Memory
        BY <1>t, MemoryFacts
      <4>2. PICK x : /\ x = {b \in Existing(Here(r)) :
                             \E k \in DOMAIN Script[m.body] :
                               /\ Script[m.body][k].on = b
                               /\ Script[m.body][k].op
                                    \in {"create", "replace"}}
                     /\ n = [m EXCEPT !.found = x]
        BY <1>t, <3>2 DEF Look, Remember, TypeOK
      <4> HIDE DEF m, n
      <4>3. n.found = x /\ n.body = m.body
        BY <4>1, <4>2 DEF Memory
      <4> SUFFICES ASSUME a \notin n.found, Target(n.body, a)
                   PROVE  accounts'[Here(r)][a] = NoAccount
        BY <2>1 DEF Absent, n
      <4>4. a \notin Existing(Here(r))
        BY <4>2, <4>3 DEF Target
      <4> QED  BY <2>3, <4>4 DEF Existing
    <3> QED  BY <2>1, <3>1, <3>2
  <2> QED  BY <2>2, <2>4, <2>5, <2>6 DEF InFile
<1> QED  BY <1>1, <1>2

(* The file is done: its events show what it has set.                      *)
LEMMA TellsByFileDone ==
  ASSUME Basic, CreatedOnce, KeptAll, NEW r \in Runs, Moves(r), FileDone(r),
         Rows(r), Unmailed(r), InFile(r)
  PROVE  Tells(r)'
<1> DEFINE m == mem[r]
<1>t. /\ TypeOK /\ Hands /\ m \in Memory /\ mem \in [Runs -> Memory]
      /\ edits' = edits
  BY MemoryFacts, RanSteps DEF Basic, TypeOK
<1>w. /\ pc[r] = "exec" /\ m.cmd # "dcl:verify" /\ Active(r) /\ ~m.failure
      /\ mem'[r].queue = m.queue /\ Here(r) \in Places /\ Here(r)' = Here(r)
  <2>1. pc[r] = "exec" /\ m.cmd # "dcl:verify" /\ Active(r)
        /\ mem'[r].queue = m.queue
    BY WorkFacts
  <2>2. ~m.failure
    BY <2>1 DEF KeptAll, Reports, AtWork
  <2> QED  BY <2>1, <2>2, QueueFacts DEF Here
<1>a. accounts' = accounts /\ ~Execute(r) /\ ~Copy(r)
  <2>1. accounts' = accounts
    BY DEF FileDone, servers
  <2>2. ~Execute(r)
    BY <1>w, WorkFacts
  <2> QED  BY <1>w, <2>1, <2>2 DEF Copy
<1>1. PICK lists \in BOOLEAN : mem'[r] = [m EXCEPT !.events = Recorded(r, lists)]
  BY <1>t DEF FileDone, Remember
<1>2. mem'[r].events = Recorded(r, lists)
  BY <1>1, <1>t DEF Memory
<1> HIDE DEF m
<1> SUFFICES ASSUME NEW a \in Accounts, mem'[r].events[a].pw # Mute
             PROVE  Shown(r, a)'
  BY DEF Tells
<1> DEFINE i == Here(r)
           p == accounts[i][a]
<1>3. fate'[i][a] \in {fate[i][a], "lost"}
      /\ fate[i][a] \in {"open", "mailed", "lost"}
  <2>1. fate[i][a] \in {"open", "mailed", "lost"}
    BY <1>t, <1>w DEF TypeOK
  <2> QED  BY <1>a, <1>w, <2>1, FateSteps
<1>4. CASE p \in Own(r)
  <2>1. p \in Secrets /\ p.run = r
    BY <1>4 DEF Own
  <2>2. fate[i][a] # "mailed"
    BY <1>4, <1>w DEF Unmailed, Setting, m
  <2>3. CASE fate'[i][a] = "lost"
    BY <1>a, <1>w, <2>1, <2>3 DEF Shown
  <2>4. CASE fate'[i][a] = "open" /\ fate[i][a] = "open"
    <3>1. Told(r, a, p) \/ WillTell(r, a, p)
      <4>1. Kept(r, i, a)
        BY <1>w DEF KeptAll
      <4> QED  BY <2>1, <2>4, <4>1 DEF Kept
    <3>2. mem'[r].events[a].pw = p
      BY <1>w, <2>1, <2>4, <3>1, KeptByFileDone
    <3> QED  BY <1>a, <1>w, <3>2 DEF Shown
  <2> QED  BY <1>3, <2>2, <2>3, <2>4
<1>5. CASE p \notin Own(r)
  <2> DEFINE K == Reported(r, lists, a)
             e == Recorded(r, lists)[a]
  <2>1. /\ (\E k \in K : KindOf(r, k) # "no_change") =>
             \E k \in K :
               /\ KindOf(r, k) # "no_change"
               /\ e.pw = IF Misaligned(m, lists) THEN Mute ELSE SecretAt(r, k)
        /\ (\A k \in K : KindOf(r, k) = "no_change") =>
             \/ e = [kind |-> "no_change", pw |-> Mute]
             \/ e = m.events[a]
    BY <1>t, <1>w, RecordedFacts DEF m
  <2>2. e = mem'[r].events[a]
    BY <1>2
  <2> HIDE DEF K, e, p
  <2>3. CASE \A k \in K : KindOf(r, k) = "no_change"
    <3>1. e = m.events[a]
      BY <2>1, <2>2, <2>3
    <3>2. Unchanged(r, a)
      BY <1>w DEF InFile, m
    <3>3. Shown(r, a)
      BY <1>5, <2>2, <3>1, <3>2 DEF Unchanged, m, p
    <3>4. mem'[r].events[a] = mem[r].events[a]
          /\ mem'[r].queue = mem[r].queue
      BY <1>w, <2>2, <3>1 DEF m
    <3> QED  BY <1>3, <1>a, <1>t, <3>3, <3>4, ShownStays
  <2>4. CASE \E k \in K : KindOf(r, k) # "no_change"
    <3>1. PICK k \in K :
            /\ KindOf(r, k) # "no_change"
            /\ e.pw = IF Misaligned(m, lists) THEN Mute ELSE SecretAt(r, k)
      BY <2>1, <2>4
    <3>2. /\ k \in Placeholders(Source(m)) /\ Script[m.body][k].on = a
      BY DEF K, Reported, m
    <3>3. Generates(Source(m)) /\ m.body = Source(m)
      <4>1. Generates(Source(m))
        BY <3>2 DEF Generates, Placeholders
      <4> QED  BY <1>t, <1>w, <4>1 DEF Hands, HandOf, m
    <3>4. /\ k \in DOMAIN Script[m.body] /\ k < m.at
          /\ Script[m.body][k].op \in Generating
          /\ m.body # NoFile
      <4>1. k \in DOMAIN Script[m.body] /\ Script[m.body][k].op \in Generating
        BY <3>2, <3>3 DEF Placeholders
      <4>2. /\ m.body # NoFile /\ m.body \in Contents
            /\ m.at > Len(Script[m.body]) /\ m.at \in Nat
        BY <1>t DEF FileDone, m, Memory
      <4>3. k \in 1..Len(Script[m.body]) /\ Len(Script[m.body]) \in Nat
        BY <4>1, <4>2, ConstantFacts
      <4> QED  BY <4>1, <4>2, <4>3
    <3>5. Touched(r, a)
      <4> DEFINE s == Script[m.body][k]
      <4>1. s.on = a /\ s.op \in {"create", "replace", "reset"}
        BY <3>2, <3>4 DEF Generating
      <4>2. CASE s.op \in {"replace", "reset"}
        BY <3>4, <4>1, <4>2 DEF Touched, m
      <4>3. CASE s.op = "create" /\ Kind[i] = "maria" /\ a \notin m.found
        BY <3>4, <4>1, <4>3 DEF Touched, m
      <4>4. CASE s.op = "create" /\ Kind[i] = "maria" /\ a \in m.found
        <5>1. DropsBefore(m.body, k)
          <6>1. MariaKind(m, k) # "no_change"
            BY <3>1, <4>4 DEF KindOf, m
          <6> HIDE DEF i
          <6> QED  BY <4>1, <4>4, <6>1 DEF MariaKind
        <5>2. PICK j \in 1..(k - 1) : /\ Script[m.body][j].op = "drop"
                                      /\ Script[m.body][j].on = a
          BY <4>1, <5>1 DEF DropsBefore
        <5>3. j \in DOMAIN Script[m.body] /\ j < m.at
          <6>1. m.body \in Contents /\ m.at \in Nat
            BY <1>t, <3>4 DEF Memory
          <6>2. /\ DOMAIN Script[m.body] = 1..Len(Script[m.body])
                /\ Len(Script[m.body]) \in Nat
            BY <6>1, ConstantFacts
          <6> QED  BY <3>4, <5>2, <6>1, <6>2
        <5> QED  BY <5>2, <5>3 DEF Touched, m
      <4>5. CASE s.op = "create" /\ Kind[i] # "maria"
        <5>1. MongoKind(m, k) # "no_change"
          BY <3>1, <4>5 DEF KindOf, m
        <5>2. a \in m.made
          BY <4>1, <4>5, <5>1 DEF MongoKind
        <5> QED  BY <5>2 DEF Touched, m
      <4> QED  BY <4>1, <4>2, <4>3, <4>4, <4>5
    <3>6. SetByRun(r, a)
      BY <1>w, <3>3, <3>4 DEF InFile, m
    <3>7. p = NoAccount /\ Droppable(a)
      BY <1>5, <3>5, <3>6 DEF SetByRun, p
    <3> QED  BY <1>a, <1>w, <3>7 DEF Shown, p
  <2> QED  BY <2>3, <2>4
<1> QED  BY <1>4, <1>5

LEMMA TellsMove ==
  ASSUME Basic, CreatedOnce, KeptAll, NEW r \in Runs, Moves(r),
         Rows(r), Unmailed(r), InFile(r), Tells(r)
  PROVE  Tells(r)'
<1>t. TypeOK /\ Hands /\ edits' = edits
  BY RanSteps DEF Basic
<1>1. CASE Opens(r) \/ Leads(r)
  <2>1. mem'[r].events = Quiet
    BY <1>1 DEF Opens, Leads
  <2> QED  BY <2>1 DEF Tells, Quiet, Nothing
<1>2. CASE Execute(r)
  <2>1. pc'[r] = "exec"
    BY <1>2, WorkFacts
  <2> QED  BY <2>1 DEF Tells, Telling
<1>3. CASE FileDone(r)
  BY <1>3, TellsByFileDone
<1>4. CASE Stays(r) /\ ~Execute(r)
  <2> SUFFICES ASSUME pc'[r] \in Telling, NEW a \in Accounts,
                      mem'[r].events[a].pw # Mute
               PROVE  Shown(r, a)'
    BY DEF Tells
  <2>1. /\ mem'[r].events = mem[r].events /\ mem'[r].queue = mem[r].queue
        /\ pc[r] \in Telling \/ FileFails(r)
        /\ Here(r) \in Places /\ Here(r)' = Here(r)
    BY <1>4, QueueFacts DEF Stays, Here
  <2>2. /\ accounts' = accounts
        /\ \/ fate'[Here(r)][a] \in {fate[Here(r)][a], "lost"}
           \/ accounts[Here(r)][a] = mem[r].events[a].pw
    BY <1>4, <2>1, FateSteps
  <2>3. ASSUME Shown(r, a)
        PROVE  Shown(r, a)'
    BY <1>t, <2>1, <2>2, <2>3, ShownStays
  <2>4. CASE pc[r] \in Telling
    BY <2>1, <2>3, <2>4 DEF Tells
  <2>5. CASE pc[r] \notin Telling
    <3> DEFINE p == accounts[Here(r)][a]
    <3>1. FileFails(r) /\ pc[r] = "exec" /\ mem[r].cmd # "dcl:verify"
          /\ Losing(r, Here(r), OfFile(mem[r].file))
      BY <2>1, <2>5 DEF FileFails, Telling, Setting
    <3>2. Shown(r, a) \/ (p \in Own(r) /\ p.file = mem[r].file)
      BY <2>1, <3>1 DEF InFile, Unchanged
    <3>3. CASE p \in Own(r) /\ p.file = mem[r].file
      <4>1. p \in Secrets /\ p.run = r /\ p \in OfFile(mem[r].file)
        BY <3>3 DEF Own, OfFile
      <4>2. ~mem[r].failure
        BY <3>1 DEF KeptAll, Reports, AtWork
      <4>3. fate[Here(r)][a] # "mailed"
        BY <3>1, <3>3, <4>2 DEF Unmailed, Setting
      <4>4. fate[Here(r)][a] \in {"open", "lost"}
        BY <1>t, <2>1, <4>3 DEF TypeOK
      <4>5. /\ fate'[Here(r)][a] # "open"
            /\ fate'[Here(r)][a] \in {fate[Here(r)][a], "lost"}
        <5>1. /\ \A j \in Places, b \in Accounts :
                   \/ fate'[j][b] = fate[j][b]
                   \/ fate'[j][b] = "lost"
              /\ \A b \in Accounts :
                   /\ accounts[Here(r)][b] \in Secrets
                   /\ accounts[Here(r)][b].run = r
                   /\ accounts[Here(r)][b] \in OfFile(mem[r].file)
                   => fate'[Here(r)][b] # "open"
          BY <1>t, <2>1, <3>1, LosingFacts
        <5> QED  BY <2>1, <4>1, <5>1
      <4> QED  BY <2>1, <2>2, <4>1, <4>4, <4>5 DEF Shown
    <3> QED  BY <2>3, <3>2, <3>3
  <2> QED  BY <2>4, <2>5
<1> QED  BY <1>1, <1>2, <1>3, <1>4, MoveShapes

(* "password unchanged" is said of no account that the run has set.        *)
Honest(r) ==
  pc[r] = "latest" =>
    \A a \in Accounts :
      mem[r].events[a].kind = "no_change" /\ accounts[Here(r)][a] \in Own(r)
      => fate[Here(r)][a] = "lost"

LEMMA HonestMove ==
  ASSUME Basic, KeptAll, NEW r \in Runs, Moves(r),
         Rows(r), Unmailed(r), Apology(r)
  PROVE  Honest(r)'
<1> SUFFICES ASSUME pc'[r] = "latest", NEW a \in Accounts,
                    mem'[r].events[a].kind = "no_change",
                    accounts'[Here(r)'][a] \in Own(r)
             PROVE  fate'[Here(r)'][a] = "lost"
  BY DEF Honest, Own
<1>1. Copy(r) /\ pc[r] = "copy" /\ mem' = mem /\ accounts' = accounts
  <2>1. ~Opens(r) /\ ~Leads(r) /\ ~Execute(r) /\ ~FileDone(r)
    BY WorkFacts DEF Opens, Leads, Setting, Early, Ended
  <2>2. Stays(r)
    BY <2>1, MoveShapes
  <2>3. Copy(r)
    BY <2>2 DEF Stays
  <2> QED  BY <2>3 DEF Copy, servers
<1> DEFINE i == Here(r)
           p == accounts[i][a]
<1>2. /\ TypeOK /\ i \in Places /\ Here(r)' = i
      /\ mem[r].cmd # "dcl:verify"
  <2>1. Active(r) /\ mem[r].cmd # "dcl:verify" /\ TypeOK
    BY <1>1 DEF Active, Working, Basic, Hands, HandOf
  <2> QED  BY <1>1, <2>1, QueueFacts DEF Here
<1>3. p \in Secrets /\ p.run = r /\ p \in Own(r)
  BY <1>1, <1>2 DEF Own
<1>4. mem[r].events[a].pw = Mute /\ mem[r].events[a].kind = "no_change"
  BY <1>1 DEF Rows
<1>5. ~mem[r].failure
  BY <1>1, <1>4 DEF Apology, Quiet, Nothing
<1>6. fate[i][a] # "mailed"
  BY <1>1, <1>2, <1>3, <1>5 DEF Unmailed, Setting
<1>7. fate[i][a] # "open"
  <2> SUFFICES ASSUME fate[i][a] = "open" PROVE FALSE
    OBVIOUS
  <2>1. Kept(r, i, a)
    BY <1>2 DEF KeptAll
  <2>2. Told(r, a, p) \/ WillTell(r, a, p)
    BY <1>3, <2>1 DEF Kept
  <2>3. ~WillTell(r, a, p)
    BY <1>1 DEF WillTell
  <2>4. mem[r].events[a].pw = p
    BY <2>2, <2>3 DEF Told
  <2> QED  BY <1>3, <1>4, <2>4, ConstantFacts
<1>8. fate[i][a] = "lost"
  BY <1>2, <1>6, <1>7 DEF TypeOK
<1>9. fate'[i][a] = "lost"
  <2>1. ~Execute(r)
    BY <1>1 DEF Execute
  <2>2. \/ fate'[i][a] \in {fate[i][a], "lost"}
        \/ mem[r].events[a].pw = p
    BY <1>2, <2>1, FateSteps
  <2>3. mem[r].events[a].pw # p
    BY <1>3, <1>4, ConstantFacts
  <2> QED  BY <1>8, <2>2, <2>3
<1> QED  BY <1>2, <1>9

-----------------------------------------------------------------------------
(* All of it, for every run.                                               *)

MailOf(r) ==
  Rows(r) /\ Fresh(r) /\ Unmailed(r) /\ Apology(r) /\ InFile(r) /\ Tells(r)
  /\ Honest(r)

MailGood == policy = "Forbid" => Alone /\ \A r \in Runs : MailOf(r)

LEMMA MailOfOthers ==
  ASSUME Basic, NEW r \in Runs, Moves(r), NEW q \in Runs, q # r, ~Active(q),
         MailOf(q)
  PROVE  MailOf(q)'
<1>1. pc'[q] = pc[q] /\ mem'[q] = mem[q]
  BY MoveIsLocal DEF Basic
<1>2. /\ pc'[q] \notin Setting \cup Early \cup {"latest"} \cup Telling
      /\ ~Active(q)'
  BY <1>1 DEF Active, Working, Setting, Early, Telling
<1>3. Rows(q)'
  BY <1>1 DEF Rows, Own, MailOf
<1>4. Fresh(q)'
  <2> SUFFICES ASSUME pc[q] = "ready", NEW i \in Places, NEW a \in Accounts
               PROVE  accounts'[i][a] \notin Own(q)
    BY <1>1, <1>2 DEF Fresh, Own
  <2>1. accounts[i][a] \notin Own(q)
    BY DEF MailOf, Fresh
  <2>2. \/ accounts'[i][a] = accounts[i][a]
        \/ accounts'[i][a] \in Secrets => accounts'[i][a] = Secret(r)
    BY OpenSteps
  <2>3. Secret(r).run = r
    BY DEF Secret
  <2> QED  BY <2>1, <2>2, <2>3 DEF Own
<1>5. Unmailed(q)' /\ Apology(q)' /\ InFile(q)' /\ Tells(q)' /\ Honest(q)'
  <2>1. pc'[q] \notin {"copy", "look", "exec", "latest"}
        /\ pc'[q] \notin Setting /\ pc'[q] \notin Telling
    BY <1>2 DEF Setting
  <2> QED  BY <2>1 DEF Unmailed, Apology, InFile, Tells, Honest
<1> QED  BY <1>3, <1>4, <1>5 DEF MailOf

LEMMA MailStep ==
  ASSUME Basic, Basic', CreatedOnce, FixedStay, KeptAll, ClaimsGood,
         MailGood, [Next]_vars
  PROVE  MailGood'
<1> SUFFICES ASSUME policy' = "Forbid"
             PROVE  Alone' /\ \A r \in Runs : MailOf(r)'
  BY DEF MailGood
<1>1. ASSUME NEW r \in Runs, Moves(r), policy = "Forbid"
      PROVE  Alone' /\ \A q \in Runs : MailOf(q)'
  <2>0. Alone /\ \A q \in Runs : MailOf(q)
    BY <1>1 DEF MailGood
  <2>1. Alone' /\ \A q \in Runs : Active(q) => q = r
    BY <1>1, <2>0, AloneMove
  <2>2. MailOf(r)'
    <3>1. /\ Rows(r) /\ Fresh(r) /\ Unmailed(r) /\ Apology(r) /\ InFile(r)
          /\ Tells(r)
      BY <2>0 DEF MailOf
    <3>2. Reading(r) /\ Reports(r)
      BY DEF ClaimsGood, KeptAll
    <3>3. Rows(r)' /\ Fresh(r)' /\ Unmailed(r)' /\ Apology(r)'
      BY <1>1, <3>1, <3>2, RowsMove, FreshMove, UnmailedMove, ApologyMove
    <3>4. InFile(r)'
      BY <1>1, <3>1, <3>2, InFileMove
    <3>5. Tells(r)' /\ Honest(r)'
      BY <1>1, <3>1, TellsMove, HonestMove
    <3> QED  BY <3>3, <3>4, <3>5 DEF MailOf
  <2>3. ASSUME NEW q \in Runs, q # r
        PROVE  MailOf(q)'
    BY <1>1, <2>0, <2>1, <2>3, MailOfOthers
  <2> QED  BY <2>1, <2>2, <2>3
<1>2. ASSUME UNCHANGED <<pc, mem, accounts, fate, policy>>,
             edits' = edits \/ edits' > 0
      PROVE  Alone' /\ \A q \in Runs : MailOf(q)'
  <2>0. Alone /\ \A q \in Runs : MailOf(q)
    BY <1>2 DEF MailGood
  <2>1. Alone'
    BY <1>2, <2>0 DEF Alone, Active
  <2>2. ASSUME NEW q \in Runs
        PROVE  MailOf(q)'
    <3>h. Here(q)' = Here(q)
      BY <1>2 DEF Here
    <3>1. \A a \in Accounts : Shown(q, a) => Shown(q, a)'
      BY <1>2, <3>h DEF Shown
    <3>2. Rows(q)' /\ Fresh(q)' /\ Unmailed(q)' /\ Apology(q)' /\ Honest(q)'
      <4>1. Rows(q)' /\ Apology(q)'
        BY <1>2, <2>0 DEF MailOf, Rows, Apology, Own
      <4>2. Fresh(q)'
        BY <1>2, <2>0 DEF MailOf, Fresh, Own, Active
      <4>3. Unmailed(q)' /\ Honest(q)'
        BY <1>2, <2>0, <3>h DEF MailOf, Unmailed, Honest, Own
      <4> QED  BY <4>1, <4>2, <4>3
    <3>3. Tells(q)'
      BY <1>2, <2>0, <3>1 DEF MailOf, Tells
    <3>4. InFile(q)'
      <4>1. ASSUME NEW a \in Accounts
            PROVE  /\ Unchanged(q, a) => Unchanged(q, a)'
                   /\ SetByRun(q, a) => SetByRun(q, a)'
                   /\ Absent(q, a) => Absent(q, a)'
        <5>1. Unchanged(q, a) => Unchanged(q, a)'
          BY <1>2, <3>1, <3>h DEF Unchanged, Own
        <5>2. SetByRun(q, a) => SetByRun(q, a)'
          BY <1>2, <3>h DEF SetByRun, Own, Touched
        <5>3. Absent(q, a) => Absent(q, a)'
          BY <1>2, <3>h DEF Absent
        <5> QED  BY <5>1, <5>2, <5>3
      <4>2. InFile(q)
        BY <2>0 DEF MailOf
      <4> QED  BY <1>2, <4>1, <4>2 DEF InFile
    <3> QED  BY <3>2, <3>3, <3>4 DEF MailOf
  <2> QED  BY <2>1, <2>2
<1>3. CASE \E r \in Runs : Moves(r)
  <2>1. PICK r \in Runs : Moves(r)
    BY <1>3
  <2>2. policy' = policy
    BY <2>1, RanSteps
  <2> QED  BY <1>1, <2>1, <2>2
<1>4. CASE Edit
  <2>1. edits \in Nat
    BY ScriptAssumption DEF Basic, TypeOK
  <2>2. edits' > 0
    BY <1>4, <2>1 DEF Edit
  <2> QED  BY <1>2, <1>4, <2>2 DEF Edit, servers, history
<1>5. CASE UNCHANGED vars
  BY <1>2, <1>5 DEF vars, world, servers, history
<1> QED  BY <1>3, <1>4, <1>5, NextMoves

(* buildDCLNotificationEvents().  When runs do not overlap, for any files, *)
(* instances, faults and edits: every password in an email just written is *)
(* the one in force, whatever later files of the run did to the account,   *)
(* and "password unchanged" is said of no account that the run has set.    *)
(* Files that create an account twice break it (CreatedOnce), and so does  *)
(* one that drops an account that another creates with a password of its   *)
(* own (FixedStay).                                                        *)
THEOREM MailHolds ==
  ASSUME CreatedOnce, FixedStay
  PROVE  Spec => []MailIsTrue
<1>1. Init => MailGood
  <2> SUFFICES ASSUME Init
               PROVE  MailGood
    OBVIOUS
  <2>1. Alone
    BY DEF Init, Alone, Active, Working
  <2>2. ASSUME NEW r \in Runs
        PROVE  MailOf(r)
    <3>1. Rows(r)
      BY DEF Init, Rows, Blank, Quiet, Nothing
    <3>2. ASSUME NEW i \in Places, NEW a \in Accounts
          PROVE  accounts[i][a] \notin Own(r)
      <4>1. accounts[i][a] \in {Given, NoAccount}
        BY DEF Init
      <4> QED  BY <4>1, ConstantFacts DEF Own
    <3>3. Fresh(r)
      BY <3>2 DEF Init, Fresh, Active, Working
    <3>4. Unmailed(r) /\ Apology(r) /\ InFile(r) /\ Tells(r) /\ Honest(r)
      BY DEF Init, Unmailed, Apology, InFile, Tells, Honest, Telling, Early,
             Setting
    <3> QED  BY <3>1, <3>3, <3>4 DEF MailOf
  <2> QED  BY <2>1, <2>2 DEF MailGood
<1>2. /\ Basic /\ KeptAll /\ ClaimsGood /\ MailGood
      /\ Basic' /\ [Next]_vars
      => MailGood'
  BY MailStep
<1>3. Basic /\ MailGood => MailIsTrue
  <2> SUFFICES ASSUME Basic, MailGood, policy = "Forbid", NEW r \in Runs,
                      pc[r] = "latest", NEW a \in Accounts
               PROVE  LET i == Here(r)
                          p == accounts[i][a]
                          e == mem[r].events[a]
                      IN  \/ p \in Secrets /\ fate[i][a] = "lost"
                          \/ /\ \/ e.pw = Mute
                                \/ p \in {e.pw, NoAccount}
                                \/ /\ Kind[i] = "mongo" /\ edits > 0
                                   /\ p = Given
                             /\ e.kind = "no_change" =>
                                  p \notin {s \in Secrets : s.run = r}
    BY DEF MailIsTrue
  <2>1. Tells(r) /\ Honest(r)
    BY DEF MailGood, MailOf
  <2>2. mem[r].events[a].pw # Mute => Shown(r, a)
    BY <2>1 DEF Tells, Telling
  <2>3. /\ mem[r].events[a].kind = "no_change"
        /\ accounts[Here(r)][a] \in Own(r)
        => fate[Here(r)][a] = "lost"
    BY <2>1 DEF Honest
  <2> QED  BY <2>2, <2>3 DEF Shown, Own
<1> QED  BY <1>1, <1>2, <1>3, KeptAlways, ClaimsAlways, PTL DEF Spec
=============================================================================
