------------------------ MODULE MongoMigrate_proofs -------------------------
(***************************************************************************)
(* Theorems about MongoMigrate, for any number of runs, files, contents    *)
(* and edits.                                                              *)
(***************************************************************************)
EXTENDS MongoMigrate, OrderLemmas, SequenceTheorems

-----------------------------------------------------------------------------
(* The changelog collection.                                               *)

(* The files that have an entry.                                           *)
Entered(ds) == {ds[i].file : i \in DOMAIN ds}
Distinct(ds) == \A i, j \in DOMAIN ds : ds[i].file = ds[j].file => i = j

LEMMA FileFacts ==
  /\ N \in Nat
  /\ Files \subseteq Nat
  /\ IsFiniteSet(Files)
  /\ \A f \in Files : f <= N
<1>1. N \in Nat
  BY CountAssumption
<1> QED  BY <1>1, FS_Interval DEF Files

LEMMA EntryFacts ==
  ASSUME NEW ds \in Seq(Doc), NEW f
  PROVE  /\ In(ds, f) <=> f \in Entered(ds)
         /\ Entered(ds) \subseteq Files
         /\ In(ds, f) => /\ FirstOf(ds, f) \in 1..Len(ds)
                         /\ ds[FirstOf(ds, f)].file = f
                         /\ LastOf(ds, f) \in 1..Len(ds)
                         /\ ds[LastOf(ds, f)].file = f
                         /\ \A i \in 1..Len(ds) : ds[i].file = f =>
                              FirstOf(ds, f) <= i /\ i <= LastOf(ds, f)
<1>1. Len(ds) \in Nat /\ DOMAIN ds = 1..Len(ds)
  OBVIOUS
<1>2. \A i \in 1..Len(ds) : ds[i] \in Doc /\ ds[i].file \in Files
  <2>1. \A d \in Doc : d.file \in Files
    BY DEF Doc
  <2> QED  BY <2>1, ElementOfSeq
<1>3. Positions(ds, f) \subseteq 1..Len(ds)
  BY <1>1 DEF Positions
<1>4. ASSUME In(ds, f)
      PROVE  /\ \E i \in Positions(ds, f) : \A j \in Positions(ds, f) : i <= j
             /\ \E i \in Positions(ds, f) : \A j \in Positions(ds, f) : j <= i
  <2>1. Positions(ds, f) \subseteq Nat /\ Positions(ds, f) # {}
    BY <1>1, <1>3, <1>4 DEF In
  <2>2. \A i \in Positions(ds, f) : i <= Len(ds)
    BY <1>1, <1>3
  <2> QED  BY <1>1, <2>1, <2>2, NatMinimum, NatMaximum
<1>5. ASSUME In(ds, f)
      PROVE  /\ FirstOf(ds, f) \in Positions(ds, f)
             /\ \A j \in Positions(ds, f) : FirstOf(ds, f) <= j
             /\ LastOf(ds, f) \in Positions(ds, f)
             /\ \A j \in Positions(ds, f) : j <= LastOf(ds, f)
  BY <1>4, <1>5 DEF FirstOf, LastOf
<1> QED  BY <1>1, <1>2, <1>5 DEF Positions, In, Entered

(* Of a file with one entry, it is the first and the last.                 *)
LEMMA OnlyEntry ==
  ASSUME NEW ds \in Seq(Doc), Distinct(ds), NEW i \in DOMAIN ds
  PROVE  FirstOf(ds, ds[i].file) = i /\ LastOf(ds, ds[i].file) = i
<1>1. In(ds, ds[i].file)
  BY EntryFacts DEF Entered
<1> QED  BY <1>1, EntryFacts DEF Distinct

(* deleteOne() closes the gap that it makes.                               *)
LEMMA WithoutFacts ==
  ASSUME NEW ds \in Seq(Doc), NEW f, In(ds, f)
  PROVE  LET k == FirstOf(ds, f) IN
         /\ Without(ds, f) \in Seq(Doc)
         /\ Len(Without(ds, f)) = Len(ds) - 1
         /\ \A i \in 1..Len(ds) - 1 :
              Without(ds, f)[i] = IF i < k THEN ds[i] ELSE ds[i + 1]
<1> DEFINE k == FirstOf(ds, f)
           s == SubSeq(ds, 1, k - 1)
           t == SubSeq(ds, k + 1, Len(ds))
<1>1. k \in 1..Len(ds) /\ Len(ds) \in Nat
  BY EntryFacts
<1>2. /\ s \in Seq(Doc) /\ Len(s) = k - 1
      /\ \A i \in 1..k - 1 : s[i] = ds[i]
  BY <1>1
<1>3. /\ t \in Seq(Doc) /\ Len(t) = Len(ds) - k
      /\ \A i \in 1..Len(ds) - k : t[i] = ds[k + i]
  BY <1>1
<1> HIDE DEF s, t
<1>4. /\ s \o t \in Seq(Doc) /\ Len(s \o t) = Len(ds) - 1
      /\ \A i \in 1..Len(ds) - 1 :
           (s \o t)[i] = IF i <= k - 1 THEN s[i] ELSE t[i - (k - 1)]
  BY SMTT(30), <1>1, <1>2, <1>3, ConcatProperties
<1>5. ASSUME NEW i \in 1..Len(ds) - 1
      PROVE  (s \o t)[i] = IF i < k THEN ds[i] ELSE ds[i + 1]
  <2>1. CASE i < k
    BY <1>1, <1>2, <1>4, <2>1
  <2>2. CASE ~(i < k)
    <3>1. i - (k - 1) \in 1..Len(ds) - k /\ k + (i - (k - 1)) = i + 1
      BY <1>1, <2>2
    <3>2. (s \o t)[i] = t[i - (k - 1)]
      BY <1>1, <1>4, <2>2
    <3>3. t[i - (k - 1)] = ds[i + 1]
      BY <1>3, <3>1
    <3> QED  BY <2>2, <3>2, <3>3
  <2> QED  BY <2>1, <2>2
<1> QED  BY <1>4, <1>5 DEF Without, s, t

(* What deleteOne() leaves of a collection.                                *)
LEMMA WithoutEntered ==
  ASSUME NEW ds \in Seq(Doc), NEW f
  PROVE  /\ Without(ds, f) \in Seq(Doc)
         /\ Entered(Without(ds, f)) \in {Entered(ds), Entered(ds) \ {f}}
         /\ Distinct(ds) => /\ Distinct(Without(ds, f))
                            /\ Entered(Without(ds, f)) = Entered(ds) \ {f}
<1>1. CASE ~In(ds, f)
  <2>1. Without(ds, f) = ds /\ f \notin Entered(ds)
    BY <1>1, EntryFacts DEF Without
  <2> QED  BY <2>1
<1>2. CASE In(ds, f)
  <2> DEFINE k == FirstOf(ds, f)
             w == Without(ds, f)
  <2>1. /\ Len(ds) \in Nat /\ k \in 1..Len(ds) /\ ds[k].file = f
        /\ DOMAIN ds = 1..Len(ds)
    BY <1>2, EntryFacts
  <2>2. /\ w \in Seq(Doc) /\ DOMAIN w = 1..Len(ds) - 1
        /\ \A i \in 1..Len(ds) - 1 : w[i] = IF i < k THEN ds[i] ELSE ds[i + 1]
    BY <1>2, <2>1, WithoutFacts
  <2> HIDE DEF k, w
  <2> DEFINE old(i) == IF i < k THEN i ELSE i + 1
  <2>3. \A i \in DOMAIN w :
          old(i) \in DOMAIN ds /\ old(i) # k /\ w[i] = ds[old(i)]
    BY <2>1, <2>2
  <2>4. \A i \in DOMAIN ds : i # k =>
          \E j \in DOMAIN w : old(j) = i
    <3> SUFFICES ASSUME NEW i \in DOMAIN ds, i # k
                 PROVE  \E j \in DOMAIN w : old(j) = i
      OBVIOUS
    <3> DEFINE j == IF i < k THEN i ELSE i - 1
    <3>1. j \in DOMAIN w /\ old(j) = i
      BY <2>1, <2>2
    <3> QED  BY <3>1
  <2>5. \A i, j \in DOMAIN w : old(i) = old(j) => i = j
    BY <2>1, <2>2
  <2> HIDE DEF old
  <2>6. Entered(w) \subseteq Entered(ds)
    BY <2>3 DEF Entered
  <2>7. Entered(ds) \ {f} \subseteq Entered(w)
    <3> SUFFICES ASSUME NEW i \in DOMAIN ds, ds[i].file # f
                 PROVE  ds[i].file \in Entered(w)
      BY DEF Entered
    <3>1. PICK j \in DOMAIN w : old(j) = i
      BY <2>1, <2>4
    <3> QED  BY <2>3, <3>1 DEF Entered
  <2>8. ASSUME Distinct(ds)
        PROVE  Distinct(w) /\ f \notin Entered(w)
    <3>1. Distinct(w)
      BY <2>3, <2>5, <2>8 DEF Distinct
    <3>2. \A i \in DOMAIN w : w[i].file # f
      BY <2>1, <2>3, <2>8 DEF Distinct
    <3> QED  BY <3>1, <3>2 DEF Entered
  <2> QED  BY <2>2, <2>6, <2>7, <2>8 DEF w
<1> QED  BY <1>1, <1>2

(* updateOne() of checksums leaves the files of the entries alone.         *)
LEMMA WithSumsFacts ==
  ASSUME NEW ds \in Seq(Doc), NEW files, disk \in [Files -> Contents \cup {NoFile}],
         \A f \in files \cap Files : disk[f] # NoFile
  PROVE  /\ WithSums(ds, files) \in Seq(Doc)
         /\ Len(WithSums(ds, files)) = Len(ds)
         /\ \A i \in 1..Len(ds) :
              /\ WithSums(ds, files)[i].file = ds[i].file
              /\ ds[i].file \notin files => WithSums(ds, files)[i] = ds[i]
<1> DEFINE w == WithSums(ds, files)
<1>1. Len(ds) \in Nat /\ DOMAIN ds = 1..Len(ds)
  OBVIOUS
<1>2. ASSUME NEW i \in 1..Len(ds)
      PROVE  /\ w[i] \in Doc /\ w[i].file = ds[i].file
             /\ ds[i].file \notin files => w[i] = ds[i]
  <2>1. ds[i] \in Doc /\ ds[i].file \in Files
    BY EntryFacts, ElementOfSeq DEF Entered
  <2>2. w[i] = IF ds[i].file \in files /\ i = FirstOf(ds, ds[i].file)
               THEN [ds[i] EXCEPT !.sum = Sha[disk[ds[i].file]]] ELSE ds[i]
    BY <1>1 DEF WithSums
  <2>3. ds[i].file \in files => Sha[disk[ds[i].file]] \in Sums
    BY <2>1, ShaAssumption
  <2> HIDE DEF w
  <2> QED  BY <2>1, <2>2, <2>3 DEF Doc
<1>3. w \in [1..Len(ds) -> Doc]
  BY <1>1, <1>2 DEF WithSums
<1> QED  BY <1>1, <1>2, <1>3

-----------------------------------------------------------------------------
(* The order in which up(), down() and baseline() work.                    *)

LEMMA SortedFacts ==
  ASSUME NEW S \in SUBSET Files
  PROVE  /\ Sorted(S) \in Seq(Files)
         /\ \A i \in 1..Len(Sorted(S)) : Sorted(S)[i] \in S
         /\ \A f \in S : \E i \in 1..Len(Sorted(S)) : Sorted(S)[i] = f
         /\ \A i, j \in 1..Len(Sorted(S)) :
              i < j => Sorted(S)[i] < Sorted(S)[j]
<1> DEFINE key == [f \in S |-> f]
           q == Sorted(S)
           n == Cardinality(S)
<1>1. IsFiniteSet(S) /\ key \in [S -> Int] /\ n \in Nat
  <2>1. IsFiniteSet(S)
    BY FileFacts, FS_Subset
  <2>2. \A f \in S : f \in Int
    BY FileFacts
  <2> QED  BY <2>1, <2>2, FS_CardinalityType
<1>2. IsKey(S, key)
  BY <1>1 DEF IsKey
<1>3. ASSUME NEW f \in S
      PROVE  Rank(S, key, f) = Cardinality({g \in S : g < f})
  <2>1. {g \in S : key[g] < key[f]} = {g \in S : g < f}
    OBVIOUS
  <2> QED  BY <2>1 DEF Rank
<1>4. ASSUME NEW i \in 1..n
      PROVE  q[i] \in S /\ Rank(S, key, q[i]) = i - 1
  <2>1. i - 1 \in 0..n - 1
    BY <1>1
  <2>2. \E f \in S : Rank(S, key, f) = i - 1
    BY <1>1, <1>2, <2>1, RankFacts
  <2>3. \E f \in S : Cardinality({g \in S : g < f}) = i - 1
    BY <1>3, <2>2
  <2>4. q[i] = CHOOSE f \in S : Cardinality({g \in S : g < f}) = i - 1
    BY DEF Sorted, Ordered
  <2>5. q[i] \in S /\ Cardinality({g \in S : g < q[i]}) = i - 1
    BY <2>3, <2>4
  <2> QED  BY <1>3, <2>5
<1>5. q \in [1..n -> S]
  BY <1>4 DEF Sorted, Ordered
<1> HIDE DEF q
<1>r. IsByRank(S, key, q)
  BY <1>4, <1>5 DEF IsByRank
<1>k. \A f \in S : key[f] = f
  OBVIOUS
<1> HIDE DEF key
<1>6. /\ q \in Seq(S) /\ Len(q) = n
      /\ \A f \in S : \E i \in 1..n : q[i] = f
      /\ \A i, j \in 1..n : i < j => key[q[i]] < key[q[j]]
  <2>1. IsFiniteSet(S)
    BY <1>1
  <2>2. /\ q \in Seq(S) /\ Len(q) = Cardinality(S)
        /\ \A f \in S : \E i \in 1..Cardinality(S) : q[i] = f
        /\ \A i, j \in 1..Cardinality(S) : i < j => key[q[i]] < key[q[j]]
    BY SMT, <2>1, <1>2, <1>r, RankedFacts
  <2> QED  BY Zenon, <2>2
<1>7. q \in Seq(Files) /\ \A i \in 1..n : q[i] \in S
  BY <1>5, <1>6
<1> QED  BY <1>6, <1>7, <1>k DEF q

(* The last entry made comes first.                                        *)
LEMMA NewestFirstFacts ==
  ASSUME NEW m \in Memory
  PROVE  /\ NewestFirst(m) \in Seq(Files)
         /\ \A i \in 1..Len(NewestFirst(m)) : NewestFirst(m)[i] \in Applied(m)
         /\ \A f \in Applied(m) :
              \E i \in 1..Len(NewestFirst(m)) : NewestFirst(m)[i] = f
         /\ \A i, j \in 1..Len(NewestFirst(m)) : i < j =>
              LastOf(m.snap, NewestFirst(m)[j])
                < LastOf(m.snap, NewestFirst(m)[i])
<1> DEFINE S == Applied(m)
           last(f) == LastOf(m.snap, f)
           key == [f \in S |-> -last(f)]
           q == NewestFirst(m)
           n == Cardinality(S)
<1>0. m.snap \in Seq(Doc) /\ m.list \subseteq Files
  BY DEF Memory
<1>1. S \subseteq Files /\ IsFiniteSet(S) /\ n \in Nat
  <2>1. S \subseteq Files
    BY <1>0 DEF Applied
  <2> QED  BY <2>1, FileFacts, FS_Subset, FS_CardinalityType
<1>2. ASSUME NEW f \in S
      PROVE  last(f) \in Nat /\ m.snap[last(f)].file = f
  BY <1>0, EntryFacts DEF Applied
<1>3. IsKey(S, key)
  BY <1>2 DEF IsKey
<1> HIDE DEF last, S
<1>4. ASSUME NEW f \in S
      PROVE  Rank(S, key, f) = Cardinality({g \in S : last(g) > last(f)})
  <2>1. {g \in S : key[g] < key[f]} = {g \in S : last(g) > last(f)}
    BY <1>2
  <2> QED  BY <2>1 DEF Rank
<1>5. ASSUME NEW i \in 1..n
      PROVE  q[i] \in S /\ Rank(S, key, q[i]) = i - 1
  <2>1. i - 1 \in 0..n - 1
    BY <1>1
  <2>2. \E f \in S : Rank(S, key, f) = i - 1
    BY <1>1, <1>3, <2>1, RankFacts
  <2>3. \E f \in S : Cardinality({g \in S : last(g) > last(f)}) = i - 1
    BY <1>4, <2>2
  <2>4. q[i] = CHOOSE f \in S :
                 Cardinality({g \in S : last(g) > last(f)}) = i - 1
    BY DEF NewestFirst, Ordered, S, last
  <2>5. q[i] \in S /\ Cardinality({g \in S : last(g) > last(q[i])}) = i - 1
    BY <2>3, <2>4
  <2> QED  BY <1>4, <2>5
<1>6. q \in [1..n -> S]
  BY <1>5 DEF NewestFirst, Ordered, S
<1> HIDE DEF q
<1>r. IsByRank(S, key, q)
  BY <1>5, <1>6 DEF IsByRank
<1>k. \A f \in S : key[f] = -last(f)
  OBVIOUS
<1> HIDE DEF key
<1>7. /\ q \in Seq(S) /\ Len(q) = n
      /\ \A f \in S : \E i \in 1..n : q[i] = f
      /\ \A i, j \in 1..n : i < j => key[q[i]] < key[q[j]]
  BY <1>1, <1>3, <1>r, RankedFacts
<1>8. q \in Seq(Files) /\ \A i \in 1..n : q[i] \in S
  BY <1>1, <1>6, <1>7
<1>9. ASSUME NEW i \in 1..n, NEW j \in 1..n, i < j
      PROVE  last(q[j]) < last(q[i])
  <2>1. last(q[i]) \in Nat /\ last(q[j]) \in Nat
    BY <1>2, <1>8
  <2>2. -last(q[i]) < -last(q[j])
    BY <1>7, <1>8, <1>9, <1>k
  <2> QED  BY <2>1, <2>2
<1> QED  BY <1>7, <1>8, <1>9 DEF q, S, last

-----------------------------------------------------------------------------
(* The inductive invariant: of any runs.                                   *)

Applying == {"next", "import", "exec", "insert"}
Undoing == {"undoNext", "undoImport", "undoExec", "delete"}
Handling == (Applying \cup Undoing \cup {"mark"}) \ {"next", "undoNext"}

(* A run that works on a file has one in hand and has read it; it owes the *)
(* changelog a write exactly between an execution and that write.          *)
HandOf(r) ==
  /\ pc[r] \in Handling => mem[r].todo # <<>>
  /\ pc[r] \in {"import", "exec", "insert"} => mem[r].body \in Contents
  /\ pc[r] \in {"exec", "insert", "undoExec"} => mem[r].code \in Contents
  /\ pc[r] = "repair" => mem[r].cmd = "up"
  /\ owes[r] = CASE pc[r] = "insert" -> "up"
                 [] pc[r] = "delete" -> "down"
                 [] OTHER -> "nothing"
Hands == \A r \in Runs : HandOf(r)

(* What a run has read of a file is what it holds, or the developer has    *)
(* replaced it since; the code read later is that of the text, or the      *)
(* developer replaced the text in between.                                 *)
BodyOf(r) ==
  /\ pc[r] \in {"import", "exec", "insert"} =>
       mem[r].body \in {disk[InHand(r)]} \cup past[InHand(r)]
  /\ pc[r] \in {"exec", "insert"} =>
       mem[r].body \in {mem[r].code} \cup past[InHand(r)]
Bodies == \A r \in Runs : BodyOf(r)

(* Gate R0 has let an active run through.                                  *)
Connected == \A r \in Runs : Active(r) => MayCreate \/ exists \/ unsure

IInv == TypeOK /\ Hands /\ Bodies /\ Connected

(* The inductive invariant: of runs that do not overlap.                   *)

Alone == \A q, r \in Runs : Active(q) /\ Active(r) => q = r

(* Nobody writes to the changelog between a run's reading of it and the    *)
(* loop over what it read; a file missing in its listing was moved.        *)
SnapshotOf(r) ==
  /\ pc[r] \in {"docs", "scan", "upDocs", "upScan"} =>
       Files \ Moved \subseteq mem[r].list
  /\ pc[r] \in {"scan", "upScan"} => mem[r].snap = docs

(* up() has yet to run, in order, every file without an entry, but for     *)
(* those the developer added or removed.                                   *)
LeftToRun(todo) ==
  /\ \A i \in DOMAIN todo : ~Recorded(todo[i])
  /\ \A i, j \in DOMAIN todo : i < j => todo[i] < todo[j]
  /\ \A f \in Files \ Moved :
       Recorded(f) \/ \E i \in DOMAIN todo : todo[i] = f
YetToRun(r) ==
  /\ pc[r] \in Applying => LeftToRun(mem[r].todo)
  /\ pc[r] = "mark" => ~Recorded(InHand(r))

(* down() has yet to undo files that have entries; later entries are of    *)
(* files that it undoes before, or that were moved.                        *)
LeftToUndo(todo) ==
  /\ \A j \in DOMAIN todo : Recorded(todo[j])
  /\ \A j, k \in DOMAIN todo : todo[j] = todo[k] => j = k
  /\ \A j \in DOMAIN todo, i \in DOMAIN docs :
       i > LastOf(docs, todo[j]) =>
         docs[i].file \in Moved \cup {todo[k] : k \in 1..j - 1}
YetToUndo(r) ==
  pc[r] \in Undoing \/ (pc[r] = "gates" /\ mem[r].cmd = "down") =>
    LeftToUndo(mem[r].todo)

(* Until the write that is owed, the effects of the execution are there.   *)
EffectsOf(r) ==
  /\ pc[r] = "insert" => mem[r].code \in ran[InHand(r)]
  /\ pc[r] = "delete" => ran[InHand(r)] = {}

Watched(r) == SnapshotOf(r) /\ YetToRun(r) /\ YetToUndo(r) /\ EffectsOf(r)

(* An entry of a settled file has a checksum, of a content that ran or     *)
(* that the developer has replaced since it was read.                      *)
Checksums ==
  \A i \in DOMAIN docs : Settled(docs[i].file) =>
    /\ docs[i].sum # NullSum
    /\ \A c \in Contents : docs[i].sum = Sha[c] =>
         c \in ran[docs[i].file] \cup past[docs[i].file]

Matching ==
  \A f \in Files : Settled(f) => (Recorded(f) <=> ran[f] # {})

ApartInv ==
  Apart =>
    /\ Alone /\ Distinct(docs)
    /\ \A r \in Runs : Watched(r)
    /\ Checksums /\ Matching

-----------------------------------------------------------------------------
(* The variables have their types.                                         *)

LEMMA MemoryFacts ==
  ASSUME TypeOK, NEW r \in Runs
  PROVE  /\ mem[r] \in Memory
         /\ mem[r].cmd \in Commands \cup {"none"}
         /\ mem[r].list \subseteq Files /\ mem[r].drift \subseteq Files
         /\ mem[r].snap \in Seq(Doc) /\ mem[r].todo \in Seq(Files)
         /\ mem[r].body \in Contents \cup {NoFile}
         /\ mem[r].code \in Contents \cup {NoFile}
         /\ mem[r].todo # <<>> => /\ InHand(r) \in Files
                                  /\ Tail(mem[r].todo) \in Seq(Files)
<1>1. mem[r] \in Memory
  BY DEF TypeOK
<1>2. mem[r].todo \in Seq(Files)
  BY <1>1 DEF Memory
<1>3. ASSUME mem[r].todo # <<>>
      PROVE  InHand(r) \in Files /\ Tail(mem[r].todo) \in Seq(Files)
  BY <1>2, <1>3 DEF InHand
<1> QED  BY <1>1, <1>2, <1>3 DEF Memory

LEMMA MemoryUpdates ==
  ASSUME NEW m \in Memory
  PROVE  /\ Blank \in Memory
         /\ \A l \in SUBSET Files : [m EXCEPT !.list = l] \in Memory
         /\ \A s \in Seq(Doc) : [m EXCEPT !.snap = s] \in Memory
         /\ \A d \in SUBSET Files : [m EXCEPT !.drift = d] \in Memory
         /\ \A t \in Seq(Files) : [m EXCEPT !.todo = t] \in Memory
         /\ \A b \in Contents \cup {NoFile} : [m EXCEPT !.body = b] \in Memory
         /\ \A b \in Contents \cup {NoFile} : [m EXCEPT !.code = b] \in Memory
         /\ \A l, d \in SUBSET Files :
              [m EXCEPT !.drift = d, !.snap = <<>>, !.list = l] \in Memory
         /\ \A t \in Seq(Files) :
              [m EXCEPT !.snap = <<>>, !.list = {}, !.todo = t] \in Memory
         /\ \A t \in Seq(Files) :
              [m EXCEPT !.todo = t, !.body = NoFile, !.code = NoFile]
                \in Memory
<1>1. <<>> \in Seq(Doc) /\ <<>> \in Seq(Files)
  OBVIOUS
<1> QED  BY <1>1 DEF Memory, Blank

(* What status() computes consists of files.                               *)
LEMMA StatusFacts ==
  ASSUME TypeOK, NEW m \in Memory
  PROVE  /\ Listed \subseteq Files /\ Pending(m) \subseteq Files
         /\ Mismatches(m) \subseteq Files
         /\ Sorted(Pending(m)) \in Seq(Files)
         /\ \A last \in Files :
              Sorted({f \in Pending(m) : f <= last}) \in Seq(Files)
<1>1. m.list \subseteq Files
  BY DEF Memory
<1>2. Pending(m) \subseteq Files /\ Mismatches(m) \subseteq Files
  BY <1>1 DEF Pending, Mismatches, Readable, Applied
<1>3. ASSUME NEW last \in Files
      PROVE  Sorted({f \in Pending(m) : f <= last}) \in Seq(Files)
  <2>1. {f \in Pending(m) : f <= last} \in SUBSET Files
    BY <1>2
  <2> QED  BY <2>1, SortedFacts
<1> QED  BY <1>2, <1>3, SortedFacts DEF Listed

(* The documents that status() adopts keep their place and their file.     *)
LEMMA AdoptFacts ==
  ASSUME TypeOK, NEW m \in Memory, NEW S
  PROVE  LET w == WithSums(docs, Unbaselined(m) \cap S) IN
         /\ w \in Seq(Doc) /\ Len(w) = Len(docs)
         /\ \A i \in 1..Len(docs) :
              /\ w[i].file = docs[i].file
              /\ docs[i].file \notin Unbaselined(m) => w[i] = docs[i]
<1> DEFINE F == Unbaselined(m) \cap S
<1>1. \A f \in F \cap Files : disk[f] # NoFile
  BY DEF Unbaselined, Readable
<1>2. docs \in Seq(Doc) /\ disk \in [Files -> Contents \cup {NoFile}]
  BY DEF TypeOK
<1>3. \A f : f \notin Unbaselined(m) => f \notin F
  OBVIOUS
<1> HIDE DEF F
<1>4. /\ WithSums(docs, F) \in Seq(Doc)
      /\ Len(WithSums(docs, F)) = Len(docs)
      /\ \A i \in 1..Len(docs) :
           /\ WithSums(docs, F)[i].file = docs[i].file
           /\ docs[i].file \notin F => WithSums(docs, F)[i] = docs[i]
  BY <1>1, <1>2, WithSumsFacts
<1> QED  BY <1>3, <1>4 DEF F

(* rollbackPlan() takes the first of them.                                 *)
LEMMA PlanFacts ==
  ASSUME NEW m \in Memory, NEW k \in Nat, k <= Len(NewestFirst(m))
  PROVE  LET plan == SubSeq(NewestFirst(m), 1, k) IN
         /\ plan \in Seq(Files) /\ Len(plan) = k
         /\ \A i \in 1..k : plan[i] = NewestFirst(m)[i]
<1>1. NewestFirst(m) \in Seq(Files)
  BY NewestFirstFacts
<1> HIDE DEF NewestFirst
<1> QED  BY <1>1


LEMMA StepType ==
  ASSUME TypeOK, Hands, NEW r \in Runs, Step(r)
  PROVE  TypeOK'
<1> DEFINE m == mem[r]
<1>m. /\ m \in Memory /\ m.cmd \in Commands \cup {"none"}
      /\ m.list \subseteq Files /\ m.drift \subseteq Files
      /\ m.snap \in Seq(Doc) /\ m.todo \in Seq(Files)
      /\ m.body \in Contents \cup {NoFile}
      /\ m.code \in Contents \cup {NoFile}
  BY MemoryFacts
<1>h. m.todo # <<>> => InHand(r) \in Files /\ Tail(m.todo) \in Seq(Files)
  BY MemoryFacts
<1>w. pc[r] \in Handling => m.todo # <<>>
  BY DEF Hands, HandOf
<1>b. pc[r] \in {"exec", "insert"} => m.code \in Contents /\ m.body \in Contents
  BY DEF Hands, HandOf
<1>k. Blank \in Memory
  BY <1>m, MemoryUpdates
<1>d. \A f \in Files : disk[f] \in Contents \cup {NoFile}
  BY DEF TypeOK
<1>s. \A c \in Contents : Sha[c] \in Sums
  BY ShaAssumption
<1>e. InHand(r) \in Files /\ m.body \in Contents => Entry(r) \in Doc
  BY <1>s DEF Entry, Doc
<1>q. \A x \in Doc : Append(docs, x) \in Seq(Doc)
  BY DEF TypeOK
<1>x. \A f : Without(docs, f) \in Seq(Doc)
  BY WithoutEntered DEF TypeOK
<1>a. Adopt(m) => docs' \in Seq(Doc)
  <2>1. Unbaselined(m) \cap Unbaselined(m) = Unbaselined(m)
    OBVIOUS
  <2>2. WithSums(docs, Unbaselined(m) \cap Unbaselined(m)) \in Seq(Doc)
    BY <1>m, AdoptFacts
  <2> QED  BY <2>1, <2>2 DEF Adopt
<1>o. docs \in Seq(Doc)
  BY DEF TypeOK
<1> HIDE DEF m
<1> USE DEF TypeOK, dirVars, dbVars, reports, history, Exit, Goto, Remember
<1> USE DEF Working, Ended
<1>1. CASE ReadFiles(r)
  <2>1. [m EXCEPT !.list = Listed] \in Memory
    BY <1>m, StatusFacts, MemoryUpdates
  <2> QED  BY <1>1, <2>1 DEF ReadFiles, m
<1>2. CASE ReadDocs(r)
  <2>1. [m EXCEPT !.snap = docs] \in Memory
    BY <1>m, <1>o, MemoryUpdates
  <2> QED  BY <1>2, <2>1 DEF ReadDocs, m
<1>3. CASE StatusFails(r)  BY <1>3, <1>k DEF StatusFails
<1>4. CASE ScanFails(r)
  <2>1. docs' \in Seq(Doc)
    <3>1. PICK f \in Files : docs' = WithSums(docs, Unbaselined(m) \cap 1..f)
      BY <1>4 DEF ScanFails, m
    <3> QED  BY <1>m, <3>1, AdoptFacts
  <2> QED  BY <1>4, <1>k, <2>1 DEF ScanFails
<1>5. CASE Preflight(r)
  <2>1. [m EXCEPT !.drift = Mismatches(m), !.snap = <<>>,
                  !.list = Pending(m)] \in Memory
    BY <1>m, StatusFacts, MemoryUpdates
  <2> QED  BY <1>5, <1>a, <1>k, <2>1 DEF Preflight, m
<1>6. CASE RepairChecksum(r)
  <2>1. PICK f \in m.drift :
          /\ disk[f] # NoFile
          /\ docs' = WithSums(docs, {f})
          /\ excused' = excused \cup {f}
          /\ Remember(r, [m EXCEPT !.drift = @ \ {f}])
          /\ Goto(r, IF m.drift = {f} THEN "gates" ELSE "repair")
    BY <1>6 DEF RepairChecksum, m
  <2>2. [m EXCEPT !.drift = m.drift \ {f}] \in Memory
    BY <1>m, MemoryUpdates
  <2>3. docs' \in Seq(Doc)
    BY <2>1, WithSumsFacts
  <2>4. mem' \in [Runs -> Memory] /\ excused' \subseteq Files
    BY <1>m, <2>1, <2>2
  <2>5. pc' \in [Runs -> Working \cup Ended \cup {"ready"}]
    BY <2>1
  <2> QED  BY <1>6, <2>3, <2>4, <2>5 DEF RepairChecksum
<1>7. CASE Gates(r)  BY <1>7, <1>k DEF Gates
<1>8. CASE UpScan(r)
  <2>1. [m EXCEPT !.snap = <<>>, !.list = {}, !.todo = Sorted(Pending(m))]
          \in Memory
    BY <1>m, StatusFacts, MemoryUpdates
  <2> QED  BY <1>8, <1>a, <2>1 DEF UpScan, m
<1>9. CASE Finish(r)  BY <1>9, <1>k DEF Finish
<1>10. CASE ReadText(r)
  <2>1. m.todo # <<>> => [m EXCEPT !.body = disk[InHand(r)]] \in Memory
    BY <1>m, <1>h, <1>d, MemoryUpdates
  <2>2. mem' \in [Runs -> Memory]
    BY <1>10, <1>k, <2>1 DEF ReadText, m
  <2> QED  BY <1>10, <2>2 DEF ReadText
<1>11. CASE Import(r)
  <2>1. m.todo # <<>> => [m EXCEPT !.code = disk[InHand(r)]] \in Memory
    BY <1>m, <1>h, <1>d, MemoryUpdates
  <2>2. m.todo # <<>>
    BY <1>11, <1>w DEF Import, Handling, Applying, Undoing
  <2> QED  BY ZenonT(60), <1>11, <1>k, <2>1, <2>2 DEF Import, m
<1>12. CASE UpCompletes(r)
  <2>1. InHand(r) \in Files /\ m.code \in Contents
    BY <1>12, <1>w, <1>h, <1>b DEF UpCompletes, Handling, Applying
  <2> QED  BY <1>12, <2>1 DEF UpCompletes, m
<1>13. CASE FunctionThrows(r)
  <2>1. InHand(r) \in Files
    BY <1>13, <1>w, <1>h DEF FunctionThrows, Handling, Applying, Undoing
  <2> QED  BY <1>13, <1>k, <2>1 DEF FunctionThrows
<1>14. CASE Insert(r)
  <2>1. InHand(r) \in Files /\ m.todo # <<>> /\ m.body \in Contents
    BY <1>14, <1>w, <1>h, <1>b DEF Insert, Handling, Applying
  <2>2. docs' \in Seq(Doc)
    BY <1>14, <1>e, <1>q, <1>o, <2>1 DEF Insert
  <2>3. [m EXCEPT !.todo = Tail(m.todo), !.body = NoFile, !.code = NoFile]
          \in Memory
    BY <1>m, <1>h, <2>1, MemoryUpdates
  <2> QED  BY <1>14, <2>1, <2>2, <2>3 DEF Insert, m
<1>15. CASE WriteFails(r)
  <2>1. InHand(r) \in Files /\ (pc[r] = "insert" => m.body \in Contents)
    BY <1>15, <1>w, <1>h, <1>b DEF WriteFails, Handling, Applying, Undoing
  <2>2. docs' \in Seq(Doc)
    BY ZenonT(60), <1>15, <1>e, <1>q, <1>x, <1>o, <2>1 DEF WriteFails
  <2> QED  BY <1>15, <1>k, <2>1, <2>2 DEF WriteFails
<1>16. CASE Plan(r)
  <2> DEFINE newest == NewestFirst(m)
             k == IF m.count < Len(newest) THEN m.count ELSE Len(newest)
             plan == SubSeq(newest, 1, k)
  <2>1. m.count \in Nat /\ newest \in Seq(Files)
    <3>1. Counts \cup {0} \subseteq Nat
      BY CountAssumption
    <3> QED  BY <1>m, <3>1, NewestFirstFacts DEF Memory
  <2>2. k \in Nat /\ k <= Len(newest)
    BY <2>1
  <2>3. plan \in Seq(Files)
    BY <1>m, <2>2, PlanFacts
  <2> HIDE DEF k, newest
  <2>4. [m EXCEPT !.snap = <<>>, !.list = {}, !.todo = plan] \in Memory
    BY <1>m, <2>3, MemoryUpdates
  <2>5. mem' \in [Runs -> Memory]
        /\ pc' \in [Runs -> Working \cup Ended \cup {"ready"}]
    BY <1>16, <1>k, <2>4 DEF Plan, m, k, newest
  <2> QED  BY <1>16, <1>a, <2>5 DEF Plan, m
<1>17. CASE DownCompletes(r)
  <2>1. InHand(r) \in Files
    BY <1>17, <1>w, <1>h DEF DownCompletes, Handling, Undoing
  <2> QED  BY <1>17, <2>1 DEF DownCompletes
<1>18. CASE Delete(r)
  <2>1. InHand(r) \in Files /\ m.todo # <<>>
    BY <1>18, <1>w, <1>h DEF Delete, Handling, Undoing
  <2>2. docs' \in Seq(Doc)
    BY <1>18, <1>x DEF Delete
  <2>3. [m EXCEPT !.todo = Tail(m.todo), !.body = NoFile, !.code = NoFile]
          \in Memory
    BY <1>m, <1>h, <2>1, MemoryUpdates
  <2> QED  BY <1>18, <2>1, <2>2, <2>3 DEF Delete, m
<1>19. CASE BaselineScan(r)
  <2>1. PICK last \in Files :
          Remember(r, [m EXCEPT !.snap = <<>>, !.list = {},
              !.todo = Sorted({f \in Pending(m) : f <= last})])
    BY <1>19 DEF BaselineScan, m
  <2>2. [m EXCEPT !.snap = <<>>, !.list = {},
              !.todo = Sorted({f \in Pending(m) : f <= last})] \in Memory
    BY <1>m, StatusFacts, MemoryUpdates
  <2> QED  BY <1>19, <1>a, <2>1, <2>2 DEF BaselineScan, m
<1>t. m.todo # <<>> => [m EXCEPT !.todo = Tail(m.todo)] \in Memory
  BY <1>m, <1>h, MemoryUpdates
<1>20. CASE FindEntry(r)  BY ZenonT(60), <1>20, <1>t DEF FindEntry, Skip, m
<1>21. CASE Mark(r)
  <2>1. InHand(r) \in Files /\ m.todo # <<>>
    BY <1>21, <1>w, <1>h DEF Mark, Handling
  <2>2. mem' \in [Runs -> Memory]
        /\ pc' \in [Runs -> Working \cup Ended \cup {"ready"}]
    BY <1>21, <1>t, <2>1 DEF Mark, Skip, m
  <2>3. CASE UNCHANGED <<docs, exists, marked, excused>>
    BY <1>21, <2>2, <2>3 DEF Mark
  <2>4. CASE ~UNCHANGED <<docs, exists, marked, excused>>
    <3>1. /\ disk[InHand(r)] # NoFile
          /\ docs' = Append(docs, [file |-> InHand(r),
                                   sum |-> Sha[disk[InHand(r)]]])
      BY <1>21, <2>4 DEF Mark
    <3>2. [file |-> InHand(r), sum |-> Sha[disk[InHand(r)]]] \in Doc
      BY <1>d, <1>s, <2>1, <3>1 DEF Doc
    <3>3. docs' \in Seq(Doc)
      BY <1>q, <3>1, <3>2
    <3>4. marked' \in [Runs -> SUBSET Files]
      BY <1>21, <2>1, <2>4 DEF Mark
    <3>5. excused' \subseteq Files /\ exists' \in BOOLEAN
      BY <1>21, <2>1, <2>4 DEF Mark
    <3> QED  BY <1>21, <2>2, <3>3, <3>4, <3>5 DEF Mark
  <2> QED  BY <2>3, <2>4
<1>22. CASE Reset(r)
  <2>1. docs' \in Seq(Doc)
    BY <1>22 DEF Reset
  <2> QED  BY <1>22, <1>k, <2>1 DEF Reset
<1> QED
  BY <1>1, <1>2, <1>3, <1>4, <1>5, <1>6, <1>7, <1>8, <1>9, <1>10, <1>11,
     <1>12, <1>13, <1>14, <1>15, <1>16, <1>17, <1>18, <1>19, <1>20, <1>21,
     <1>22
  DEF Step

LEMMA OtherType ==
  ASSUME TypeOK, Hands,
         \/ \E r \in Runs :
              \/ \E c \in Commands : \E k \in Asked(c) : Start(r, c, k)
              \/ Crash(r)
         \/ Edit
         \/ UNCHANGED vars
  PROVE  TypeOK'
<1>k. Blank \in Memory
  BY DEF Memory, Blank
<1> USE DEF TypeOK, dirVars, dbVars, reports, history, Exit, Goto, Remember
<1>1. ASSUME NEW r \in Runs, NEW c \in Commands, NEW k \in Asked(c),
             Start(r, c, k)
      PROVE  TypeOK'
  <2>1. k \in Counts \cup {0}
    BY DEF Asked
  <2>2. [Blank EXCEPT !.cmd = c, !.count = k] \in Memory
    BY <1>k, <2>1 DEF Memory
  <2>3. mem' \in [Runs -> Memory]
    BY <1>1, <1>k, <2>2 DEF Start
  <2>4. pc' \in [Runs -> Working \cup Ended \cup {"ready"}]
    BY <1>1 DEF Start, Working, Ended
  <2> QED  BY <1>1, <2>3, <2>4, CommandAssumption DEF Start
<1>2. ASSUME NEW r \in Runs, Crash(r)
      PROVE  TypeOK'
  <2>1. pc[r] \in {"insert", "delete", "exec", "undoExec"} =>
          InHand(r) \in Files
    BY MemoryFacts DEF Hands, HandOf, Handling, Applying, Undoing
  <2>2. cut' \subseteq Files /\ torn' \subseteq Files
    BY <1>2, <2>1 DEF Crash
  <2> QED  BY <1>2, <1>k, <2>2 DEF Crash, Ended
<1>3. CASE Edit
  <2>1. PICK f \in Files, c \in Contents \cup {NoFile} :
          /\ disk' = [disk EXCEPT ![f] = c]
          /\ past' = [past EXCEPT ![f] = @ \cup {disk[f]}]
    BY <1>3 DEF Edit
  <2>2. edits' \in 0..MaxEdits[policy]
    <3>1. edits \in Nat /\ MaxEdits[policy] \in Nat
      BY CountAssumption
    <3> QED  BY <1>3, <3>1 DEF Edit
  <2>3. disk[f] \in Contents \cup {NoFile}
    OBVIOUS
  <2>4. past' \in [Files -> SUBSET (Contents \cup {NoFile})]
    BY <2>1, <2>3
  <2> QED  BY <1>3, <2>1, <2>2, <2>4 DEF Edit
<1>4. CASE UNCHANGED vars  BY <1>4 DEF vars
<1> QED  BY <1>1, <1>2, <1>3, <1>4

LEMMA NextType == TypeOK /\ Hands /\ [Next]_vars => TypeOK'
BY StepType, OtherType DEF Next

-----------------------------------------------------------------------------
(* A step of one run leaves the others alone.                              *)

LEMMA StepIsLocal ==
  ASSUME TypeOK, NEW r \in Runs,
         \/ Step(r) \/ Crash(r)
         \/ \E c \in Commands : \E k \in Asked(c) : Start(r, c, k)
  PROVE  /\ \A q \in Runs \ {r} :
              pc'[q] = pc[q] /\ mem'[q] = mem[q] /\ owes'[q] = owes[q]
         /\ UNCHANGED dirVars
         /\ exists => exists'
         /\ unsure => unsure'
         /\ Active(r) \/ (Apart => \A q \in Runs : ~Active(q))
<1> USE DEF TypeOK, Exit, Goto, Remember, dbVars, reports, history
<1> USE DEF Active, Working, Apart
<1>1. CASE Crash(r)  BY <1>1 DEF Crash
<1>2. CASE \E c \in Commands : \E k \in Asked(c) : Start(r, c, k)
  <2>1. PICK c \in Commands : \E k \in Asked(c) : Start(r, c, k)
    BY <1>2
  <2>2. PICK k \in Asked(c) : Start(r, c, k)
    BY <2>1
  <2>3. (unsure => unsure') /\ (exists => exists')
    <3>1. exists' = exists
      BY <2>2 DEF Start
    <3>2. unsure' = unsure \/ unsure' = (unsure \/ ~(MayCreate \/ exists))
      BY <2>2, Zenon DEF Start
    <3> QED  BY <3>1, <3>2
  <2>4. \A q \in Runs \ {r} :
          pc'[q] = pc[q] /\ mem'[q] = mem[q] /\ owes'[q] = owes[q]
    BY <2>2 DEF Start
  <2> QED  BY <2>2, <2>3, <2>4 DEF Start
<1>3. CASE ReadFiles(r)  BY <1>3 DEF ReadFiles
<1>4. CASE ReadDocs(r)  BY <1>4 DEF ReadDocs
<1>5. CASE StatusFails(r)  BY <1>5 DEF StatusFails
<1>6. CASE ScanFails(r)  BY <1>6 DEF ScanFails
<1>7. CASE Preflight(r)  BY <1>7 DEF Preflight
<1>8. CASE RepairChecksum(r)  BY <1>8 DEF RepairChecksum
<1>9. CASE Gates(r)  BY <1>9 DEF Gates
<1>10. CASE UpScan(r)  BY <1>10 DEF UpScan
<1>11. CASE Finish(r)  BY <1>11 DEF Finish, Loops
<1>12. CASE ReadText(r)  BY <1>12 DEF ReadText
<1>13. CASE Import(r)  BY <1>13 DEF Import
<1>14. CASE UpCompletes(r)  BY <1>14 DEF UpCompletes
<1>15. CASE FunctionThrows(r)
  <2>1. exists => exists'
    BY <1>15, Zenon DEF FunctionThrows
  <2> QED  BY <1>15, <2>1 DEF FunctionThrows
<1>16. CASE Insert(r)  BY <1>16 DEF Insert
<1>17. CASE WriteFails(r)  BY <1>17 DEF WriteFails
<1>18. CASE Plan(r)  BY <1>18 DEF Plan
<1>19. CASE DownCompletes(r)  BY <1>19 DEF DownCompletes
<1>20. CASE Delete(r)  BY <1>20 DEF Delete
<1>21. CASE BaselineScan(r)  BY <1>21 DEF BaselineScan
<1>22. CASE FindEntry(r)  BY <1>22 DEF FindEntry, Skip
<1>23. CASE Mark(r)  BY <1>23 DEF Mark, Skip
<1>24. CASE Reset(r)  BY <1>24 DEF Reset
<1> QED
  BY <1>1, <1>2, <1>3, <1>4, <1>5, <1>6, <1>7, <1>8, <1>9, <1>10, <1>11,
     <1>12, <1>13, <1>14, <1>15, <1>16, <1>17, <1>18, <1>19, <1>20, <1>21,
     <1>22, <1>23, <1>24
  DEF Step

(* The same for every step but the developer's.                            *)
Moves(r) == \/ Step(r) \/ Crash(r)
            \/ \E c \in Commands : \E k \in Asked(c) : Start(r, c, k)

LEMMA NextCases ==
  [Next]_vars => (\E r \in Runs : Moves(r)) \/ Edit \/ UNCHANGED vars
BY DEF Next, Moves

-----------------------------------------------------------------------------
(* What a run has in hand.                                                 *)

LEMMA HandStep ==
  ASSUME TypeOK, Hands, NEW r \in Runs, Moves(r)
  PROVE  HandOf(r)'
<1> USE DEF TypeOK, Exit, Goto, Remember, history, InHand
<1>h. HandOf(r)
  BY DEF Hands
<1>0. mem[r] \in Memory
  OBVIOUS
<1>d. \A f \in Files : disk[f] # NoFile => disk[f] \in Contents
  OBVIOUS
<1>t. mem[r].todo # <<>> => InHand(r) \in Files
  BY MemoryFacts
<1> USE <1>h DEF HandOf, Handling, Applying, Undoing
<1>1. CASE Crash(r)  BY <1>1 DEF Crash
<1>2. CASE \E c \in Commands : \E k \in Asked(c) : Start(r, c, k)
  BY <1>2 DEF Start
<1>3. CASE ReadFiles(r)  BY <1>3 DEF ReadFiles
<1>4. CASE ReadDocs(r)  BY <1>4 DEF ReadDocs
<1>5. CASE StatusFails(r)  BY <1>5 DEF StatusFails
<1>6. CASE ScanFails(r)  BY <1>6 DEF ScanFails
<1>7. CASE Preflight(r)
  <2>1. pc[r] = "scan" /\ pc'[r] \in {"refused", "gates", "repair"}
        /\ owes' = owes
    BY <1>7 DEF Preflight
  <2> DEFINE kept == [mem[r] EXCEPT !.drift = Mismatches(mem[r]), !.snap = <<>>,
                                    !.list = Pending(mem[r])]
  <2>2. kept.cmd = mem[r].cmd
    BY <1>0 DEF Memory
  <2>3. pc'[r] = "refused" \/ mem' = [mem EXCEPT ![r] = kept]
    BY <1>7 DEF Preflight
  <2>4. mem[r].cmd = "up"
    BY <1>7 DEF Preflight
  <2> HIDE DEF kept
  <2>5. pc'[r] = "refused" \/ mem'[r].cmd = "up"
    BY <2>2, <2>3, <2>4
  <2> QED  BY <2>1, <2>5
<1>8. CASE RepairChecksum(r)  BY <1>8 DEF RepairChecksum
<1>9. CASE Gates(r)  BY <1>9 DEF Gates
<1>10. CASE UpScan(r)  BY <1>10 DEF UpScan
<1>11. CASE Finish(r)  BY <1>11 DEF Finish, Loops
<1>12. CASE ReadText(r)  BY <1>12, <1>0, <1>d, <1>t DEF ReadText, Memory
<1>13. CASE Import(r)
  <2>1. HasUp \subseteq Contents /\ HasDown \subseteq Contents
    BY ContentAssumption
  <2>2. CASE Exit(r, "failed")
    BY <1>13, <2>2 DEF Import
  <2>3. CASE ~Exit(r, "failed")
    <3>1. /\ disk[InHand(r)] \in Contents
          /\ mem' = [mem EXCEPT ![r] = [mem[r] EXCEPT !.code = disk[InHand(r)]]]
          /\ pc' = [pc EXCEPT ![r] = IF pc[r] = "import" THEN "exec"
                                                        ELSE "undoExec"]
      BY <1>13, <2>1, <2>3 DEF Import
    <3>2. /\ mem'[r].code \in Contents /\ mem'[r].body = mem[r].body
          /\ mem'[r].todo = mem[r].todo
      BY <1>0, <3>1 DEF Memory
    <3> QED  BY <1>13, <3>1, <3>2 DEF Import
  <2> QED  BY <2>2, <2>3
<1>14. CASE UpCompletes(r)  BY <1>14 DEF UpCompletes
<1>15. CASE FunctionThrows(r)  BY <1>15 DEF FunctionThrows
<1>16. CASE Insert(r)  BY <1>16 DEF Insert
<1>17. CASE WriteFails(r)  BY <1>17 DEF WriteFails
<1>18. CASE Plan(r)  BY <1>18 DEF Plan
<1>19. CASE DownCompletes(r)  BY <1>19 DEF DownCompletes
<1>20. CASE Delete(r)  BY <1>20 DEF Delete
<1>21. CASE BaselineScan(r)  BY <1>21 DEF BaselineScan
<1>22. CASE FindEntry(r)  BY <1>22 DEF FindEntry, Skip
<1>23. CASE Mark(r)  BY <1>23 DEF Mark, Skip
<1>24. CASE Reset(r)  BY <1>24 DEF Reset
<1> QED
  BY <1>1, <1>2, <1>3, <1>4, <1>5, <1>6, <1>7, <1>8, <1>9, <1>10, <1>11,
     <1>12, <1>13, <1>14, <1>15, <1>16, <1>17, <1>18, <1>19, <1>20, <1>21,
     <1>22, <1>23, <1>24
  DEF Step, Moves

LEMMA BodyStep ==
  ASSUME TypeOK, Hands, Bodies, NEW r \in Runs, Moves(r)
  PROVE  BodyOf(r)'
<1> USE DEF TypeOK, Exit, Goto, Remember, InHand
<1>h. BodyOf(r) /\ (pc[r] \in {"import", "undoImport"} => mem[r].todo # <<>>)
  BY DEF Bodies, Hands, HandOf, Handling, Applying, Undoing
<1>0. mem[r] \in Memory
  OBVIOUS
<1>p. disk' = disk /\ past' = past
  BY StepIsLocal DEF Moves, dirVars
<1>u. pc'[r] \notin {"import", "exec", "insert"} => BodyOf(r)'
  BY DEF BodyOf
<1> USE <1>p
<1>1. CASE Crash(r)  BY <1>1, <1>u DEF Crash
<1>2. CASE \E c \in Commands : \E k \in Asked(c) : Start(r, c, k)
  BY <1>2, <1>u DEF Start
<1>3. CASE ReadFiles(r)  BY <1>3, <1>u DEF ReadFiles
<1>4. CASE ReadDocs(r)  BY <1>4, <1>u DEF ReadDocs
<1>5. CASE StatusFails(r)  BY <1>5, <1>u DEF StatusFails
<1>6. CASE ScanFails(r)  BY <1>6, <1>u DEF ScanFails
<1>7. CASE Preflight(r)  BY <1>7, <1>u DEF Preflight
<1>8. CASE RepairChecksum(r)  BY <1>8, <1>u DEF RepairChecksum
<1>9. CASE Gates(r)  BY <1>9, <1>u DEF Gates
<1>10. CASE UpScan(r)  BY <1>10, <1>u DEF UpScan
<1>11. CASE Finish(r)  BY <1>11, <1>u DEF Finish, Loops
<1>12. CASE ReadText(r)
  <2>1. CASE Exit(r, "failed")
    BY <2>1, <1>u
  <2>2. CASE ~Exit(r, "failed") /\ pc[r] = "next"
    <3>1. /\ mem' = [mem EXCEPT ![r] = [mem[r] EXCEPT !.body = disk[InHand(r)]]]
          /\ pc' = [pc EXCEPT ![r] = "import"]
      BY <1>12, <2>2 DEF ReadText
    <3>2. mem'[r].body = disk[InHand(r)] /\ mem'[r].todo = mem[r].todo
      BY <1>0, <3>1 DEF Memory
    <3> QED  BY <3>1, <3>2 DEF BodyOf
  <2> QED  BY <1>12, <2>1, <2>2, <1>u DEF ReadText
<1>13. CASE Import(r)
  <2>1. CASE Exit(r, "failed")
    BY <2>1, <1>u
  <2>2. CASE ~Exit(r, "failed") /\ pc[r] = "import"
    <3>1. /\ mem' = [mem EXCEPT ![r] = [mem[r] EXCEPT !.code = disk[InHand(r)]]]
          /\ pc' = [pc EXCEPT ![r] = "exec"]
      BY <1>13, <2>2 DEF Import
    <3>2. /\ mem'[r].code = disk[InHand(r)] /\ mem'[r].todo = mem[r].todo
          /\ mem'[r].body = mem[r].body
      BY <1>0, <3>1 DEF Memory
    <3> QED  BY <1>h, <2>2, <3>1, <3>2 DEF BodyOf
  <2> QED  BY <1>13, <2>1, <2>2, <1>u DEF Import
<1>14. CASE UpCompletes(r)  BY <1>14, <1>h DEF UpCompletes, BodyOf
<1>15. CASE FunctionThrows(r)  BY <1>15, <1>u DEF FunctionThrows
<1>16. CASE Insert(r)  BY <1>16, <1>u DEF Insert
<1>17. CASE WriteFails(r)  BY <1>17, <1>u DEF WriteFails
<1>18. CASE Plan(r)  BY <1>18, <1>u DEF Plan
<1>19. CASE DownCompletes(r)  BY <1>19, <1>u DEF DownCompletes
<1>20. CASE Delete(r)  BY <1>20, <1>u DEF Delete
<1>21. CASE BaselineScan(r)  BY <1>21, <1>u DEF BaselineScan
<1>22. CASE FindEntry(r)  BY <1>22, <1>u DEF FindEntry, Skip
<1>23. CASE Mark(r)  BY <1>23, <1>u DEF Mark, Skip
<1>24. CASE Reset(r)  BY <1>24, <1>u DEF Reset
<1> QED
  BY <1>1, <1>2, <1>3, <1>4, <1>5, <1>6, <1>7, <1>8, <1>9, <1>10, <1>11,
     <1>12, <1>13, <1>14, <1>15, <1>16, <1>17, <1>18, <1>19, <1>20, <1>21,
     <1>22, <1>23, <1>24
  DEF Step, Moves

LEMMA StepIsActive ==
  ASSUME NEW r \in Runs, Step(r) \/ Crash(r)
  PROVE  Active(r)
BY DEF Step, Active, Working, ReadFiles, ReadDocs, StatusFails, ScanFails,
   Preflight, RepairChecksum, Gates, UpScan, Finish, Loops, ReadText, Import,
   UpCompletes, FunctionThrows, Insert, WriteFails, Plan, DownCompletes,
   Delete, BaselineScan, FindEntry, Mark, Reset, Crash

(* Gate R0 opens for a database that exists, may be created, or cannot be  *)
(* seen; it is not dropped later.                                          *)
LEMMA ConnectedStep ==
  ASSUME TypeOK, Connected, NEW r \in Runs, Moves(r)
  PROVE  Active(r)' => MayCreate \/ exists' \/ unsure'
<1>1. (exists => exists') /\ (unsure => unsure')
  BY StepIsLocal DEF Moves
<1>2. CASE Active(r)
  <2>1. MayCreate \/ exists \/ unsure
    BY <1>2 DEF Connected
  <2> QED  BY <1>1, <2>1, Zenon
<1>3. CASE ~Active(r)
  <2>1. ASSUME NEW c \in Commands, NEW k \in Asked(c), Start(r, c, k)
        PROVE  Active(r)' => MayCreate \/ exists' \/ unsure'
    <3>1. CASE Exit(r, "refused")
      <4>1. ~Active(r)'
        BY <3>1 DEF Exit, Goto, Active, Working, TypeOK
      <4> QED  BY <4>1
    <3>2. CASE unsure' = (unsure \/ ~(MayCreate \/ exists))
      <4>1. exists' = exists
        BY <2>1 DEF Start, dbVars
      <4> QED  BY <3>2, <4>1, Zenon
    <3> QED  BY <2>1, <3>1, <3>2 DEF Start
  <2> QED  BY <1>3, <2>1, StepIsActive DEF Moves
<1> QED  BY <1>2, <1>3

LEMMA NextIInv == IInv /\ [Next]_vars => IInv'
<1> SUFFICES ASSUME IInv, [Next]_vars PROVE IInv'
  OBVIOUS
<1>0. TypeOK /\ Hands /\ Bodies /\ Connected
  BY DEF IInv
<1>t. TypeOK'
  BY <1>0, NextType
<1>1. ASSUME NEW r \in Runs, Moves(r)
      PROVE  Hands' /\ Bodies' /\ Connected'
  <2>1. /\ \A q \in Runs \ {r} :
             pc'[q] = pc[q] /\ mem'[q] = mem[q] /\ owes'[q] = owes[q]
        /\ disk' = disk /\ past' = past
    BY <1>0, <1>1, StepIsLocal DEF Moves, dirVars
  <2>2. (exists => exists') /\ (unsure => unsure')
    BY <1>0, <1>1, StepIsLocal DEF Moves
  <2>3. Hands'
    <3>1. \A q \in Runs \ {r} : HandOf(q)'
      BY <1>0, <2>1 DEF Hands, HandOf, InHand
    <3> QED  BY <1>0, <1>1, <3>1, HandStep DEF Hands
  <2>4. Bodies'
    <3>1. \A q \in Runs \ {r} : BodyOf(q)'
      BY <1>0, <2>1 DEF Bodies, BodyOf, InHand
    <3> QED  BY <1>0, <1>1, <3>1, BodyStep DEF Bodies
  <2>5. ASSUME NEW q \in Runs
        PROVE  Active(q)' => MayCreate \/ exists' \/ unsure'
    <3>1. CASE q = r
      BY <1>0, <1>1, <3>1, ConnectedStep
    <3>2. CASE q # r
      <4>1. Active(q)' => Active(q)
        BY <2>1, <3>2 DEF Active
      <4>2. Active(q) => MayCreate \/ exists \/ unsure
        BY <1>0 DEF Connected
      <4> QED  BY <2>2, <4>1, <4>2, Zenon
    <3> QED  BY <3>1, <3>2
  <2> QED  BY <2>3, <2>4, <2>5 DEF Connected
<1>2. CASE Edit
  <2>1. PICK f \in Files, c \in Contents \cup {NoFile} :
          /\ disk' = [disk EXCEPT ![f] = c]
          /\ past' = [past EXCEPT ![f] = @ \cup {disk[f]}]
    BY <1>2 DEF Edit
  <2>2. UNCHANGED <<pc, mem, owes, exists, unsure>>
    BY <1>2 DEF Edit, dbVars, history
  <2>3. Hands' /\ Connected'
    BY <1>0, <2>2 DEF Hands, HandOf, Connected, Active, InHand
  <2>4. \A g \in Files : {disk[g]} \cup past[g] \subseteq {disk'[g]} \cup past'[g]
                         /\ past[g] \subseteq past'[g]
    BY <1>0, <2>1 DEF TypeOK
  <2>5. ASSUME NEW q \in Runs
        PROVE  BodyOf(q)'
    <3>1. pc[q] \in {"import", "exec", "insert"} => InHand(q) \in Files
      BY <1>0, MemoryFacts DEF Hands, HandOf, Handling, Applying
    <3>2. InHand(q)' = InHand(q)
      BY <2>2 DEF InHand
    <3>3. BodyOf(q)
      BY <1>0 DEF Bodies
    <3> QED  BY <2>2, <2>4, <3>1, <3>2, <3>3 DEF BodyOf
  <2> QED  BY <1>t, <2>3, <2>5 DEF Bodies, IInv
<1>3. CASE UNCHANGED vars
  <2>1. UNCHANGED <<pc, mem, owes, disk, past, exists, unsure>>
    BY <1>3 DEF vars, dirVars, dbVars, history
  <2>2. Hands' /\ Connected'
    BY <1>0, <2>1 DEF Hands, HandOf, Connected, Active, InHand
  <2>3. Bodies'
    BY <1>0, <2>1 DEF Bodies, BodyOf, InHand
  <2> QED  BY <1>t, <2>2, <2>3 DEF IInv
<1> QED  BY <1>t, <1>1, <1>2, <1>3, NextCases DEF IInv

LEMMA InitIInv == Init => IInv
<1> SUFFICES ASSUME Init PROVE IInv
  OBVIOUS
<1>1. docs \in Seq(Doc) /\ ran \in [Files -> SUBSET Contents] /\ excused \subseteq Files
  <2>1. PICK k \in 0..N, old \in BOOLEAN :
          /\ \A f \in 1..k : disk[f] \in HasUp
          /\ \/ old
                /\ docs = [i \in 1..k |-> [file |-> i, sum |-> NullSum]]
                /\ excused = 1..k
                /\ ran = [f \in Files |-> {}]
             \/ ~old
                /\ docs = [i \in 1..k |-> [file |-> i, sum |-> Sha[disk[i]]]]
                /\ excused = {}
                /\ ran = [f \in Files |-> IF f <= k THEN {disk[f]} ELSE {}]
    BY DEF Init
  <2>2. k \in Nat /\ 1..k \subseteq Files
    BY FileFacts DEF Files
  <2>3. \A f \in 1..k : disk[f] \in Contents /\ Sha[disk[f]] \in Sums
    BY <2>1, ContentAssumption, ShaAssumption
  <2>4. CASE old
    <3>1. \A i \in 1..k : [file |-> i, sum |-> NullSum] \in Doc
      BY <2>2 DEF Doc
    <3> QED  BY <2>1, <2>2, <2>4, <3>1
  <2>5. CASE ~old
    <3>1. \A i \in 1..k : [file |-> i, sum |-> Sha[disk[i]]] \in Doc
      BY <2>2, <2>3 DEF Doc
    <3>2. docs \in Seq(Doc) /\ excused \subseteq Files
      BY <2>1, <2>2, <2>5, <3>1
    <3>3. \A f \in Files : f <= k => disk[f] \in Contents
      BY <2>2, <2>3 DEF Files
    <3>4. ran \in [Files -> SUBSET Contents]
      BY <2>1, <2>5, <3>3
    <3> QED  BY <3>2, <3>4
  <2> QED  BY <2>4, <2>5
<1>2. Blank \in Memory
  BY DEF Memory, Blank
<1>3. policy \in Policies /\ edits \in 0..MaxEdits[policy]
  BY CountAssumption DEF Init
<1>4. TypeOK
  BY <1>1, <1>2, <1>3 DEF Init, TypeOK
<1>5. Hands /\ Bodies
  BY DEF Init, Hands, HandOf, Bodies, BodyOf, Handling, Applying, Undoing
<1>6. Connected
  BY DEF Init, Connected, Active, Working
<1> QED  BY <1>4, <1>5, <1>6 DEF IInv

LEMMA AlwaysIInv == Spec => []IInv
<1> QED  BY InitIInv, NextIInv, PTL DEF Spec

(* Every variable keeps its type; the steps of loading, executing and      *)
(* recording find a file in hand, its text and its code.                   *)
THEOREM TypeCorrect == Spec => []TypeOK
<1>1. IInv => TypeOK
  BY DEF IInv
<1> QED  BY <1>1, AlwaysIInv, PTL

(* Gate R0 (src/cli.js): whatever up, down and baseline do, a database     *)
(* that does not exist comes into being only where the configuration says  *)
(* so, or in a run whose account could not list the databases.             *)
THEOREM NoDatabaseCreated == Spec => CreatesNoDatabase
<1>1. IInv /\ [Next]_vars => [~exists /\ exists' => MayCreate \/ unsure]_vars
  <2> SUFFICES ASSUME IInv, [Next]_vars, ~exists, exists'
               PROVE  MayCreate \/ unsure
    OBVIOUS
  <2>0. TypeOK /\ Connected /\ Hands
    BY DEF IInv
  <2>1. ASSUME NEW r \in Runs, Moves(r)
        PROVE  MayCreate \/ unsure
    <3>1. Active(r)
      <4>1. \A c, k : Start(r, c, k) => exists' = exists
        BY DEF Start, dbVars
      <4>2. Step(r) \/ Crash(r)
        BY <2>1, <4>1 DEF Moves
      <4> QED  BY <4>2, StepIsActive
    <3> QED  BY <2>0, <3>1, Zenon DEF Connected
  <2>2. CASE Edit \/ UNCHANGED vars
    <3>1. exists' = exists
      BY <2>2 DEF Edit, vars, dbVars
    <3> QED  BY <3>1
  <2> QED  BY <2>1, <2>2, NextCases
<1> QED  BY <1>1, AlwaysIInv, PTL DEF Spec, CreatesNoDatabase

-----------------------------------------------------------------------------
(* The refinement: every step is one of ExecuteThenRecord, or no step.     *)

LEMMA SameFiles ==
  ASSUME NEW ds \in Seq(Doc), NEW w \in Seq(Doc), Len(w) = Len(ds),
         \A i \in 1..Len(ds) : w[i].file = ds[i].file
  PROVE  Entered(w) = Entered(ds) /\ (Distinct(ds) => Distinct(w))
<1>1. DOMAIN w = 1..Len(ds) /\ DOMAIN ds = 1..Len(ds)
  OBVIOUS
<1> QED  BY <1>1 DEF Entered, Distinct

LEMMA AppendFacts ==
  ASSUME NEW ds \in Seq(Doc), NEW d \in Doc
  PROVE  /\ Entered(Append(ds, d)) = Entered(ds) \cup {d.file}
         /\ Distinct(ds) /\ ~In(ds, d.file) => Distinct(Append(ds, d))
<1>1. /\ Len(ds) \in Nat
      /\ DOMAIN ds = 1..Len(ds)
      /\ DOMAIN Append(ds, d) = 1..Len(ds) + 1
      /\ \A i \in 1..Len(ds) : Append(ds, d)[i] = ds[i]
      /\ Append(ds, d)[Len(ds) + 1] = d
  OBVIOUS
<1> DEFINE w == Append(ds, d)
<1>2. 1..Len(ds) + 1 = (1..Len(ds)) \cup {Len(ds) + 1}
  BY <1>1
<1> HIDE DEF w
<1>3. Entered(w) = Entered(ds) \cup {d.file}
  BY <1>1, <1>2 DEF Entered, w
<1>4. ASSUME Distinct(ds), ~In(ds, d.file)
      PROVE  Distinct(w)
  <2>1. \A i \in DOMAIN ds : ds[i].file # d.file
    BY <1>4 DEF In, Positions
  <2> QED  BY <1>1, <1>2, <1>4, <2>1 DEF Distinct, w
<1> QED  BY <1>3, <1>4 DEF w

(* The steps of status() add and remove no file.                           *)
LEMMA AdoptEntered ==
  ASSUME TypeOK, NEW r \in Runs,
         \/ Adopt(mem[r])
         \/ \E f \in Files : docs' = WithSums(docs, Unbaselined(mem[r]) \cap 1..f)
  PROVE  Entered(docs)' = Entered(docs)
<1>1. PICK S : docs' = WithSums(docs, Unbaselined(mem[r]) \cap S)
  <2>1. Unbaselined(mem[r]) \cap Unbaselined(mem[r]) = Unbaselined(mem[r])
    OBVIOUS
  <2> QED  BY <2>1 DEF Adopt
<1>2. docs \in Seq(Doc) /\ mem[r] \in Memory
  BY DEF TypeOK
<1>3. /\ docs' \in Seq(Doc) /\ Len(docs') = Len(docs)
      /\ \A i \in 1..Len(docs) : docs'[i].file = docs[i].file
  BY <1>1, <1>2, AdoptFacts
<1>4. Entered(docs') = Entered(docs)
  BY <1>2, <1>3, SameFiles
<1> QED  BY <1>4 DEF Entered

(* What is owed changes only by the run that takes the step.               *)
LEMMA OwingStep ==
  ASSUME TypeOK, NEW r \in Runs, Moves(r), NEW what \in {"up", "down"}
  PROVE  /\ owes'[r] = "nothing" =>
              Owing(what)' = Owing(what) \ {<<r, InHand(r)>>}
         /\ owes'[r] = what /\ owes[r] = "nothing" /\ mem' = mem =>
              Owing(what)' = Owing(what) \cup {<<r, InHand(r)>>}
         /\ owes'[r] # what /\ owes[r] = "nothing" =>
              Owing(what)' = Owing(what)
<1>1. \A q \in Runs \ {r} : owes'[q] = owes[q] /\ InHand(q)' = InHand(q)
  BY StepIsLocal DEF Moves, InHand
<1>2. mem' = mem => InHand(r)' = InHand(r)
  BY DEF InHand
<1> QED  BY <1>1, <1>2 DEF Owing

(* In terms of ExecuteThenRecord, a run is busy while it owes a write.     *)
LEMMA OwesFacts ==
  ASSUME TypeOK, Hands, NEW r \in Runs
  PROVE  /\ Changelog!Busy(r) <=> owes[r] # "nothing"
         /\ pc[r] = "insert" => <<r, InHand(r)>> \in Owing("up")
         /\ pc[r] = "delete" => <<r, InHand(r)>> \in Owing("down")
         /\ pc[r] \in Handling => InHand(r) \in Files
         /\ pc[r] \notin {"insert", "delete"} => owes[r] = "nothing"
<1>1. /\ pc[r] \in Handling => InHand(r) \in Files
      /\ owes[r] = CASE pc[r] = "insert" -> "up"
                     [] pc[r] = "delete" -> "down"
                     [] OTHER -> "nothing"
  BY MemoryFacts DEF Hands, HandOf
<1>2. owes[r] # "nothing" => InHand(r) \in Files /\ owes[r] \in {"up", "down"}
  BY <1>1 DEF Handling, Applying, Undoing
<1>3. Changelog!Busy(r) <=> owes[r] # "nothing"
  <2>1. Changelog!Busy(r) <=>
          \E f \in Files : <<r, f>> \in Owing("up") \cup Owing("down")
    BY DEF Changelog!Busy
  <2> QED  BY <1>2, <2>1 DEF Owing
<1> QED  BY <1>1, <1>3 DEF Owing

(* Steps that change neither what is owed, nor the files entered, nor the  *)
(* reports are no steps of ExecuteThenRecord.                              *)
LEMMA QuietStep ==
  ASSUME TypeOK, Hands, NEW r \in Runs, Moves(r),
         Entered(docs)' = Entered(docs), UNCHANGED reports,
         owes'[r] = "nothing", owes[r] = "nothing"
  PROVE  UNCHANGED Changelog!vars
<1>1. Owing("up")' = Owing("up") /\ Owing("down")' = Owing("down")
  BY OwingStep
<1> QED  BY <1>1 DEF Changelog!vars, Changelog!due, Changelog!reports,
                     Entered, reports

(* FunctionThrows, failed queries and the like: only the run's own memory  *)
(* changes, or documents are adopted.                                      *)
QuietMove(r) ==
  \/ ReadFiles(r) \/ ReadDocs(r) \/ StatusFails(r) \/ ScanFails(r)
  \/ Preflight(r) \/ RepairChecksum(r) \/ Gates(r) \/ UpScan(r)
  \/ Finish(r) \/ ReadText(r) \/ Import(r) \/ FunctionThrows(r) \/ Plan(r)
  \/ BaselineScan(r) \/ FindEntry(r)
  \/ Crash(r) /\ pc[r] \notin {"insert", "delete"}
  \/ \E c \in Commands : \E k \in Asked(c) : Start(r, c, k)

LEMMA QuietMoves ==
  ASSUME TypeOK, Hands, NEW r \in Runs, Moves(r), QuietMove(r)
  PROVE  UNCHANGED Changelog!vars
<1> USE DEF dbVars, history
<1>0. docs' = docs => Entered(docs)' = Entered(docs)
  BY DEF Entered
<1>1. UNCHANGED reports /\ owes[r] = "nothing" /\ owes'[r] = "nothing"
  <2>1. pc[r] \notin {"insert", "delete"} => owes[r] = "nothing"
    BY OwesFacts
  <2>2. pc[r] \notin {"insert", "delete"}
    BY DEF QuietMove, ReadFiles, ReadDocs, StatusFails, ScanFails, Preflight,
       RepairChecksum, Gates, UpScan, Finish, Loops, ReadText, Import,
       FunctionThrows, Plan, BaselineScan, FindEntry, Start
  <2>3. UNCHANGED reports /\ owes' \in {owes, [owes EXCEPT ![r] = "nothing"]}
    BY DEF QuietMove, ReadFiles, ReadDocs, StatusFails, ScanFails, Preflight,
       RepairChecksum, Gates, UpScan, Finish, ReadText, Import,
       FunctionThrows, Plan, BaselineScan, FindEntry, Start, Crash
  <2> QED  BY <2>1, <2>2, <2>3 DEF TypeOK
<1>2. Entered(docs)' = Entered(docs)
  <2>1. CASE ScanFails(r) \/ Preflight(r) \/ UpScan(r) \/ Plan(r)
               \/ BaselineScan(r)
    BY <2>1, AdoptEntered DEF ScanFails, Preflight, UpScan, Plan, BaselineScan
  <2>2. CASE RepairChecksum(r)
    <3>1. PICK f \in mem[r].drift :
            disk[f] # NoFile /\ docs' = WithSums(docs, {f})
      BY <2>2 DEF RepairChecksum
    <3>2. docs \in Seq(Doc) /\ disk \in [Files -> Contents \cup {NoFile}]
      BY DEF TypeOK
    <3>3. \A g \in {f} \cap Files : disk[g] # NoFile
      BY <3>1
    <3>4. Entered(docs') = Entered(docs)
      BY <3>1, <3>2, <3>3, WithSumsFacts, SameFiles
    <3> QED  BY <3>4 DEF Entered
  <2>3. CASE ~(ScanFails(r) \/ Preflight(r) \/ UpScan(r) \/ Plan(r)
                 \/ BaselineScan(r) \/ RepairChecksum(r))
    <3>1. docs' = docs
      BY <2>3 DEF QuietMove, ReadFiles, ReadDocs, StatusFails, Gates, Finish,
         ReadText, Import, FunctionThrows, FindEntry, Start, Crash
    <3> QED  BY <1>0, <3>1
  <2> QED  BY <2>1, <2>2, <2>3
<1> QED  BY <1>1, <1>2, QuietStep

LEMMA MoveMaps ==
  ASSUME IInv, IInv', NEW r \in Runs, Moves(r)
  PROVE  Changelog!Next \/ UNCHANGED Changelog!vars
<1>g. PICK f : f = InHand(r)
  OBVIOUS
<1> USE DEF dbVars, reports, history, Goto
<1>0. TypeOK /\ Hands
  BY DEF IInv
<1>1. /\ docs \in Seq(Doc) /\ docs' \in Seq(Doc) /\ mem[r] \in Memory
      /\ owes \in [Runs -> {"nothing", "up", "down"}]
  BY DEF IInv, TypeOK
<1>f. pc[r] \in Handling => f \in Files
  BY <1>g, <1>0, OwesFacts
<1>o. /\ Changelog!Busy(r) <=> owes[r] # "nothing"
      /\ pc[r] = "insert" => <<r, f>> \in Owing("up")
      /\ pc[r] = "delete" => <<r, f>> \in Owing("down")
      /\ pc[r] \notin {"insert", "delete"} => owes[r] = "nothing"
  BY <1>g, <1>0, OwesFacts
<1>n. owes'[r] = "nothing" =>
        /\ Owing("up")' = Owing("up") \ {<<r, f>>}
        /\ Owing("down")' = Owing("down") \ {<<r, f>>}
  BY <1>g, <1>0, OwingStep
<1>w. /\ pc[r] = "insert" => <<r, f>> \notin Owing("down")
      /\ pc[r] = "delete" => <<r, f>> \notin Owing("up")
  BY <1>g, <1>0 DEF Owing, Hands, HandOf
<1>e. pc[r] = "insert" =>
        /\ Entry(r) \in Doc /\ Entry(r).file = f
        /\ Entered(Append(docs, Entry(r))) = Entered(docs) \cup {f}
  <2>1. ASSUME pc[r] = "insert"
        PROVE  Entry(r) \in Doc /\ Entry(r).file = f
    <3>1. mem[r].body \in Contents /\ f \in Files
      BY <1>0, <1>f, <2>1 DEF Hands, HandOf, Handling, Applying
    <3>2. Sha[mem[r].body] \in Sums
      BY <3>1, ShaAssumption
    <3> QED  BY <1>g, <3>1, <3>2 DEF Entry, Doc
  <2> QED  BY <1>1, <2>1, AppendFacts
<1>x. Entered(Without(docs, f)) \in {Entered(docs), Entered(docs) \ {f}}
  BY <1>1, WithoutEntered
<1>d. \A d : docs' = d => Entered(docs)' = Entered(d)
  BY DEF Entered
<1>c. \A g \in Files :
        /\ Changelog!Execute(r, g) => Changelog!Next
        /\ Changelog!Record(r, g) => Changelog!Next
        /\ Changelog!Remove(r, g) => Changelog!Next
        /\ Changelog!GiveUp(r, g) => Changelog!Next
        /\ Changelog!Mark(r, g) => Changelog!Next
  BY Zenon DEF Changelog!Next
<1>2. CASE QuietMove(r)
  BY <1>0, <1>2, QuietMoves
<1>3. CASE UpCompletes(r)
  <2>1. pc[r] = "exec" /\ owes[r] = "nothing" /\ owes'[r] = "up" /\ mem' = mem
    BY <1>1, <1>3, <1>o DEF UpCompletes
  <2>2. /\ Owing("up")' = Owing("up") \cup {<<r, f>>}
        /\ Owing("down")' = Owing("down")
    BY <1>0, <2>1, OwingStep, <1>g
  <2>3. Entered(docs)' = Entered(docs) /\ f \in Files
    BY <1>3, <1>d, <1>f, <2>1 DEF UpCompletes, Handling, Applying
  <2>4. Changelog!Execute(r, f)
    BY <1>3, <1>o, <2>1, <2>2, <2>3
    DEF UpCompletes, Changelog!Execute, Changelog!reports, Entered
  <2> QED  BY <2>3, <2>4, <1>c
<1>4. CASE DownCompletes(r)
  <2>1. pc[r] = "undoExec" /\ owes[r] = "nothing" /\ owes'[r] = "down"
        /\ mem' = mem
    BY <1>1, <1>4, <1>o DEF DownCompletes
  <2>2. /\ Owing("down")' = Owing("down") \cup {<<r, f>>}
        /\ Owing("up")' = Owing("up")
    BY <1>0, <2>1, OwingStep, <1>g
  <2>3. Entered(docs)' = Entered(docs) /\ f \in Files
    BY <1>4, <1>d, <1>f, <2>1 DEF DownCompletes, Handling, Undoing
  <2>4. Changelog!Execute(r, f)
    BY <1>4, <1>o, <2>1, <2>2, <2>3
    DEF DownCompletes, Changelog!Execute, Changelog!reports, Entered
  <2> QED  BY <2>3, <2>4, <1>c
<1>5. CASE Insert(r)
  <2>1. pc[r] = "insert" /\ owes'[r] = "nothing" /\ f \in Files
    BY <1>1, <1>5, <1>f DEF Insert, Handling, Applying
  <2>2. Entered(docs)' = Entered(docs) \cup {f}
    BY <1>5, <1>d, <1>e, <2>1 DEF Insert
  <2>3. Owing("up")' = Owing("up") \ {<<r, f>>} /\ Owing("down")' = Owing("down")
    BY <1>n, <1>w, <2>1
  <2>4. Changelog!Record(r, f)
    BY <1>g, <1>5, <1>o, <2>1, <2>2, <2>3 DEF Insert, Changelog!Record, Entered
  <2>5. f \in Files
    BY <2>1
  <2> QED  BY <2>4, <2>5, <1>c
<1>6. CASE Delete(r)
  <2>1. pc[r] = "delete" /\ owes'[r] = "nothing" /\ f \in Files
    BY <1>1, <1>6, <1>f DEF Delete, Handling, Undoing
  <2>2. Entered(docs)' \in {Entered(docs), Entered(docs) \ {f}}
    BY <1>g, <1>6, <1>d, <1>x DEF Delete
  <2>3. Owing("down")' = Owing("down") \ {<<r, f>>} /\ Owing("up")' = Owing("up")
    BY <1>n, <1>w, <2>1
  <2>4. Changelog!Remove(r, f)
    BY <1>g, <1>6, <1>o, <2>1, <2>2, <2>3 DEF Delete, Changelog!Remove, Entered
  <2>5. f \in Files
    BY <2>1
  <2> QED  BY <2>4, <2>5, <1>c
<1>7. CASE WriteFails(r)
  <2>1. /\ pc[r] \in {"insert", "delete"} /\ owes'[r] = "nothing"
        /\ f \in Files
    BY <1>1, <1>7, <1>f DEF WriteFails, Handling, Applying, Undoing
  <2>2. \/ Entered(docs)' = Entered(docs)
        \/ pc[r] = "insert" /\ Entered(docs)' = Entered(docs) \cup {f}
        \/ pc[r] = "delete" /\ Entered(docs)' = Entered(docs) \ {f}
    BY <1>g, <1>7, <1>d, <1>e, <1>x DEF WriteFails
  <2>3. Changelog!GiveUp(r, f)
    BY <1>7, <1>o, <1>n, <2>1, <2>2
    DEF WriteFails, Changelog!GiveUp, Changelog!reports, Entered
  <2>4. f \in Files
    BY <2>1
  <2> QED  BY <2>3, <2>4, <1>c
<1>8. CASE Crash(r) /\ pc[r] \in {"insert", "delete"}
  <2>1. owes'[r] = "nothing" /\ f \in Files
    BY <1>1, <1>8, <1>f DEF Crash, Handling, Applying, Undoing
  <2>2. Entered(docs)' = Entered(docs)
    BY <1>8, <1>d DEF Crash
  <2>3. Changelog!GiveUp(r, f)
    BY <1>8, <1>o, <1>n, <2>1, <2>2
    DEF Crash, Changelog!GiveUp, Changelog!reports, Entered
  <2>4. f \in Files
    BY <2>1
  <2> QED  BY <2>3, <2>4, <1>c
<1>9. CASE Mark(r)
  <2>1. /\ pc[r] = "mark" /\ owes' = owes /\ owes[r] = "nothing"
        /\ f \in Files
    BY <1>9, <1>o, <1>f DEF Mark, Handling
  <2>2. Owing("up")' = Owing("up") /\ Owing("down")' = Owing("down")
    BY <1>0, <2>1, OwingStep
  <2>3. CASE UNCHANGED <<docs, exists, marked, excused>>
    BY <1>9, <1>d, <2>2, <2>3
    DEF Mark, Changelog!vars, Changelog!due, Changelog!reports, Entered
  <2>4. CASE ~UNCHANGED <<docs, exists, marked, excused>>
    <3>1. /\ disk[f] # NoFile
          /\ docs' = Append(docs, [file |-> f, sum |-> Sha[disk[f]]])
          /\ \/ marked' = [marked EXCEPT ![r] = @ \cup {f}]
             \/ UNCHANGED marked
          /\ UNCHANGED <<applied, rolledBack>>
      BY <1>g, <1>9, <2>4 DEF Mark
    <3>2. [file |-> f, sum |-> Sha[disk[f]]] \in Doc
      <4>1. disk[f] \in Contents
        BY <1>0, <2>1, <3>1 DEF TypeOK
      <4> QED  BY <2>1, <4>1, ShaAssumption DEF Doc
    <3>3. Entered(docs)' = Entered(docs) \cup {f}
      BY <1>1, <1>d, <3>1, <3>2, AppendFacts
    <3>4. Changelog!Mark(r, f)
      BY <2>2, <3>1, <3>3 DEF Changelog!Mark, Changelog!due, Entered
    <3>5. f \in Files
      BY <2>1
    <3> QED  BY <3>4, <3>5, <1>c
  <2> QED  BY <2>3, <2>4
<1>10. CASE Reset(r)
  <2>1. owes' = owes /\ owes[r] = "nothing" /\ docs' = <<>>
    BY <1>10, <1>o DEF Reset
  <2>2. Owing("up")' = Owing("up") /\ Owing("down")' = Owing("down")
    BY <1>0, <2>1, OwingStep
  <2>3. Entered(docs)' = {}
    BY <2>1 DEF Entered
  <2>4. Changelog!Reset
    BY <1>10, <2>2, <2>3
    DEF Reset, Changelog!Reset, Changelog!due, Changelog!reports, Entered
  <2> QED  BY <2>4 DEF Changelog!Next
<1> QED
  BY <1>2, <1>3, <1>4, <1>5, <1>6, <1>7, <1>8, <1>9, <1>10
  DEF Moves, Step, QuietMove

LEMMA OthersMap ==
  ASSUME Edit \/ UNCHANGED vars
  PROVE  UNCHANGED Changelog!vars
<1>1. UNCHANGED <<docs, pc, owes, mem, applied, rolledBack, marked>>
  BY DEF Edit, vars, dbVars, reports, history
<1> QED
  BY <1>1 DEF Changelog!vars, Changelog!due, Changelog!reports, Owing, InHand

LEMMA InitMaps == IInv /\ Init => Changelog!Init
<1> SUFFICES ASSUME IInv, Init PROVE Changelog!Init
  OBVIOUS
<1>1. Owing("up") = {} /\ Owing("down") = {}
  BY DEF Init, Owing
<1>2. Entered(docs) \in SUBSET Files
  BY EntryFacts DEF IInv, TypeOK
<1> QED  BY <1>1, <1>2 DEF Init, Changelog!Init, Entered

(* _applyOne(), _rollbackOne(), adapter.baseline() and reset: with crashes *)
(* and lost answers, of any number of runs at the same time, the changelog *)
(* gains an entry after an execution of the file by the run that adds it,  *)
(* or by a baseline, and loses it after a rollback of the file by the run  *)
(* that removes it, or by a reset; and a run reports what it has written.  *)
THEOREM ExecutesThenRecords == Spec => ImplementsOrder
<1>1. Init => Changelog!Init
  BY InitIInv, InitMaps
<1>2. IInv /\ IInv' /\ [Next]_vars => [Changelog!Next]_(Changelog!vars)
  BY NextCases, MoveMaps, OthersMap
<1> QED  BY <1>1, <1>2, AlwaysIInv, PTL DEF Spec, ImplementsOrder, Changelog!Spec

-----------------------------------------------------------------------------
(* Runs that do not overlap.                                               *)

(* The step that leads to a label.                                         *)
LEMMA WhereFrom ==
  ASSUME TypeOK, NEW r \in Runs, Moves(r)
  PROVE  /\ pc'[r] \in {"docs", "upDocs"} => ReadFiles(r)
         /\ pc'[r] \in {"scan", "upScan"} => ReadDocs(r)
         /\ pc'[r] = "gates" => Preflight(r) \/ RepairChecksum(r) \/ Plan(r)
         /\ pc'[r] = "next" => UpScan(r) \/ Insert(r)
         /\ pc'[r] = "import" => ReadText(r) /\ pc[r] = "next"
         /\ pc'[r] = "exec" => Import(r) /\ pc[r] = "import"
         /\ pc'[r] = "insert" => UpCompletes(r)
         /\ pc'[r] = "undoNext" => Gates(r) \/ Delete(r)
         /\ pc'[r] = "undoImport" => ReadText(r) /\ pc[r] = "undoNext"
         /\ pc'[r] = "undoExec" => Import(r) /\ pc[r] = "undoImport"
         /\ pc'[r] = "delete" => DownCompletes(r)
         /\ pc'[r] = "mark" => FindEntry(r)
<1>p. pc \in [Runs -> Working \cup Ended \cup {"ready"}]
  BY DEF TypeOK
<1> USE <1>p DEF Exit, Goto
<1>1. CASE Crash(r)  BY <1>1 DEF Crash
<1>2. CASE \E c \in Commands : \E k \in Asked(c) : Start(r, c, k)
  BY <1>2 DEF Start
<1>3. CASE ReadFiles(r)  BY <1>3 DEF ReadFiles
<1>4. CASE ReadDocs(r)  BY <1>4 DEF ReadDocs
<1>5. CASE StatusFails(r)  BY <1>5 DEF StatusFails
<1>6. CASE ScanFails(r)  BY <1>6 DEF ScanFails
<1>7. CASE Preflight(r)  BY <1>7 DEF Preflight
<1>8. CASE RepairChecksum(r)  BY <1>8 DEF RepairChecksum
<1>9. CASE Gates(r)  BY <1>9 DEF Gates
<1>10. CASE UpScan(r)  BY <1>10 DEF UpScan
<1>11. CASE Finish(r)  BY <1>11 DEF Finish
<1>12. CASE ReadText(r)  BY <1>12 DEF ReadText
<1>13. CASE Import(r)  BY <1>13 DEF Import
<1>14. CASE UpCompletes(r)  BY <1>14 DEF UpCompletes
<1>15. CASE FunctionThrows(r)  BY <1>15 DEF FunctionThrows
<1>16. CASE Insert(r)  BY <1>16 DEF Insert
<1>17. CASE WriteFails(r)  BY <1>17 DEF WriteFails
<1>18. CASE Plan(r)  BY <1>18 DEF Plan
<1>19. CASE DownCompletes(r)  BY <1>19 DEF DownCompletes
<1>20. CASE Delete(r)  BY <1>20 DEF Delete
<1>21. CASE BaselineScan(r)  BY <1>21 DEF BaselineScan
<1>22. CASE FindEntry(r)  BY <1>22 DEF FindEntry, Skip
<1>23. CASE Mark(r)  BY <1>23 DEF Mark, Skip
<1>24. CASE Reset(r)  BY <1>24 DEF Reset
<1> QED
  BY <1>1, <1>2, <1>3, <1>4, <1>5, <1>6, <1>7, <1>8, <1>9, <1>10, <1>11,
     <1>12, <1>13, <1>14, <1>15, <1>16, <1>17, <1>18, <1>19, <1>20, <1>21,
     <1>22, <1>23, <1>24
  DEF Step, Moves

(* The steps that no conjunct about the changelog need distinguish.        *)
LEMMA QuietFacts ==
  ASSUME TypeOK, Hands, NEW r \in Runs, Moves(r), QuietMove(r)
  PROVE  /\ Entered(docs)' = Entered(docs)
         /\ ran' = ran /\ cut' = cut /\ excused \subseteq excused'
         /\ pc[r] \notin {"insert", "delete"}
         /\ pc'[r] \notin {"insert", "delete"}
<1> USE DEF dbVars, history
<1>1. UNCHANGED Changelog!vars
  BY QuietMoves
<1>2. Entered(docs)' = Entered(docs)
  BY <1>1 DEF Changelog!vars, Entered
<1>3. pc[r] \notin {"insert", "delete"}
  BY DEF QuietMove, ReadFiles, ReadDocs, StatusFails, ScanFails, Preflight,
     RepairChecksum, Gates, UpScan, Finish, Loops, ReadText, Import,
     FunctionThrows, Plan, BaselineScan, FindEntry, Start
<1>4. pc'[r] \notin {"insert", "delete"}
  <2>1. ~UpCompletes(r) /\ ~DownCompletes(r)
    BY DEF QuietMove, ReadFiles, ReadDocs, StatusFails, ScanFails, Preflight,
       RepairChecksum, Gates, UpScan, Finish, Loops, ReadText, Import,
       FunctionThrows, Plan, BaselineScan, FindEntry, Start, UpCompletes,
       DownCompletes, Goto, Exit, Crash, TypeOK
  <2> QED  BY <2>1, WhereFrom
<1>5. ran' = ran /\ cut' = cut /\ excused \subseteq excused'
  BY DEF QuietMove, ReadFiles, ReadDocs, StatusFails, ScanFails, Preflight,
     RepairChecksum, Gates, UpScan, Finish, ReadText, Import,
     FunctionThrows, Plan, BaselineScan, FindEntry, Start, Crash
<1> QED  BY <1>2, <1>3, <1>4, <1>5

LEMMA OthersIdle ==
  ASSUME TypeOK, Apart, Alone, NEW r \in Runs, Moves(r)
  PROVE  /\ \A q \in Runs \ {r} : ~Active(q) /\ ~Active(q)'
         /\ Apart' /\ Alone'
<1>1. /\ \A q \in Runs \ {r} : pc'[q] = pc[q]
      /\ policy' = policy
      /\ Active(r) \/ \A q \in Runs : ~Active(q)
  BY StepIsLocal DEF Moves, dirVars
<1>2. \A q \in Runs \ {r} : ~Active(q)
  BY <1>1 DEF Alone
<1>3. \A q \in Runs \ {r} : ~Active(q)'
  BY <1>1, <1>2 DEF Active
<1> QED  BY <1>1, <1>2, <1>3 DEF Apart, Alone

LEMMA SettledFacts ==
  ASSUME NEW r \in Runs, \A q \in Runs \ {r} : ~Active(q), NEW f
  PROVE  Settled(f) <=>
           /\ f \notin cut /\ f \notin excused
           /\ pc[r] \in {"insert", "delete"} => InHand(r) # f
BY DEF Settled, Active, Working

LEMMA SameLast ==
  ASSUME NEW ds \in Seq(Doc), NEW w \in Seq(Doc), Len(w) = Len(ds),
         \A i \in 1..Len(ds) : w[i].file = ds[i].file, NEW f, In(ds, f)
  PROVE  In(w, f) /\ LastOf(w, f) = LastOf(ds, f)
<1>1. In(w, f)
  BY SameFiles, EntryFacts
<1>2. /\ LastOf(ds, f) \in 1..Len(ds) /\ ds[LastOf(ds, f)].file = f
      /\ LastOf(w, f) \in 1..Len(w) /\ w[LastOf(w, f)].file = f
      /\ \A i \in 1..Len(ds) : ds[i].file = f => i <= LastOf(ds, f)
      /\ \A i \in 1..Len(w) : w[i].file = f => i <= LastOf(w, f)
  BY <1>1, EntryFacts
<1>3. LastOf(w, f) <= LastOf(ds, f) /\ LastOf(ds, f) <= LastOf(w, f)
  BY <1>2
<1> QED  BY <1>1, <1>2, <1>3

LEMMA QuietDocs ==
  ASSUME TypeOK, NEW r \in Runs, QuietMove(r)
  PROVE  /\ Len(docs') = Len(docs)
         /\ \A i \in 1..Len(docs) : docs'[i].file = docs[i].file
<1>0. docs \in Seq(Doc) /\ mem[r] \in Memory
  BY DEF TypeOK
<1>1. CASE ScanFails(r) \/ Preflight(r) \/ UpScan(r) \/ Plan(r)
             \/ BaselineScan(r)
  <2>1. PICK S : docs' = WithSums(docs, Unbaselined(mem[r]) \cap S)
    <3>1. Unbaselined(mem[r]) \cap Unbaselined(mem[r]) = Unbaselined(mem[r])
      OBVIOUS
    <3> QED
      BY <1>1, <3>1
      DEF ScanFails, Preflight, UpScan, Plan, BaselineScan, Adopt
  <2> QED  BY <1>0, <2>1, AdoptFacts
<1>2. CASE RepairChecksum(r)
  <2>1. PICK f \in mem[r].drift :
          disk[f] # NoFile /\ docs' = WithSums(docs, {f})
    BY <1>2 DEF RepairChecksum
  <2>2. disk \in [Files -> Contents \cup {NoFile}]
    BY DEF TypeOK
  <2>3. \A g \in {f} \cap Files : disk[g] # NoFile
    BY <2>1
  <2> QED  BY <1>0, <2>1, <2>2, <2>3, WithSumsFacts
<1>3. CASE ~(ScanFails(r) \/ Preflight(r) \/ UpScan(r) \/ Plan(r)
               \/ BaselineScan(r) \/ RepairChecksum(r))
  <2>1. docs' = docs
    BY <1>3 DEF QuietMove, ReadFiles, ReadDocs, StatusFails, Gates, Finish,
       ReadText, Import, FunctionThrows, FindEntry, Start, Crash, dbVars
  <2> QED  BY <2>1
<1> QED  BY <1>1, <1>2, <1>3

(* The steps about which the changelog has something to say.               *)
LEMMA LoudMoves ==
  ASSUME NEW r \in Runs, Moves(r)
  PROVE  \/ QuietMove(r)
         \/ UpCompletes(r) \/ DownCompletes(r)
         \/ Insert(r) \/ Delete(r) \/ WriteFails(r)
         \/ Crash(r) /\ pc[r] \in {"insert", "delete"}
         \/ Mark(r) \/ Reset(r)
BY DEF Moves, Step, QuietMove

(* What the invariants say of the file in hand.                            *)
LEMMA HandFacts ==
  ASSUME IInv, NEW r \in Runs, Watched(r)
  PROVE  /\ pc[r] \in Handling =>
              /\ InHand(r) \in Files
              /\ mem[r].todo \in Seq(Files) /\ Len(mem[r].todo) \in Nat \ {0}
              /\ InHand(r) = mem[r].todo[1]
         /\ pc[r] \in (Applying \ {"next"}) \cup {"mark"} => ~Recorded(InHand(r))
         /\ pc[r] \in Undoing \ {"undoNext"} => Recorded(InHand(r))
         /\ pc[r] = "insert" =>
              /\ Entry(r) \in Doc /\ Entry(r).file = InHand(r)
              /\ mem[r].body \in Contents /\ mem[r].code \in Contents
<1>0. TypeOK /\ Hands
  BY DEF IInv
<1>1. ASSUME pc[r] \in Handling
      PROVE  /\ InHand(r) \in Files
             /\ mem[r].todo \in Seq(Files) /\ Len(mem[r].todo) \in Nat \ {0}
             /\ InHand(r) = mem[r].todo[1]
  <2>1. mem[r].todo # <<>> /\ mem[r].todo \in Seq(Files)
        /\ InHand(r) \in Files
    BY <1>0, <1>1, MemoryFacts DEF Hands, HandOf
  <2> QED  BY <2>1 DEF InHand
<1>2. ASSUME pc[r] = "insert"
      PROVE  /\ Entry(r) \in Doc /\ Entry(r).file = InHand(r)
             /\ mem[r].body \in Contents /\ mem[r].code \in Contents
  <2>1. mem[r].body \in Contents /\ mem[r].code \in Contents
        /\ InHand(r) \in Files
    BY <1>0, <1>1, <1>2 DEF Hands, HandOf, Handling, Applying
  <2>2. Sha[mem[r].body] \in Sums
    BY <2>1, ShaAssumption
  <2> QED  BY <2>1, <2>2 DEF Entry, Doc
<1>3. pc[r] \in (Applying \ {"next"}) \cup {"mark"} => ~Recorded(InHand(r))
  BY <1>1 DEF Watched, YetToRun, LeftToRun, Handling, Applying
<1>4. pc[r] \in Undoing \ {"undoNext"} => Recorded(InHand(r))
  BY <1>1 DEF Watched, YetToUndo, LeftToUndo, Handling, Undoing
<1> QED  BY <1>1, <1>2, <1>3, <1>4

(* What becomes of the collection in a step of the run that is alone.      *)
LEMMA DocsStep ==
  ASSUME IInv, Distinct(docs), NEW r \in Runs, Watched(r), Moves(r)
  PROVE  /\ Distinct(docs)'
         /\ Insert(r) => Entered(docs)' = Entered(docs) \cup {InHand(r)}
         /\ Delete(r) => Entered(docs)' = Entered(docs) \ {InHand(r)}
         /\ WriteFails(r) => \A f \in Files \ {InHand(r)} :
              f \in Entered(docs)' <=> f \in Entered(docs)
         /\ Mark(r) => \/ UNCHANGED <<docs, excused>>
                       \/ /\ Entered(docs)' = Entered(docs) \cup {InHand(r)}
                          /\ InHand(r) \in excused'
<1>0. TypeOK /\ docs \in Seq(Doc)
  BY DEF IInv, TypeOK
<1>d. \A d : docs' = d =>
        Entered(docs)' = Entered(d) /\ (Distinct(docs)' <=> Distinct(d))
  BY DEF Entered, Distinct
<1>n. pc[r] \in {"insert", "mark"} => ~In(docs, InHand(r))
  BY HandFacts DEF Applying, Recorded
<1>a. \A d \in Doc : d.file = InHand(r) /\ pc[r] \in {"insert", "mark"} =>
        /\ Distinct(Append(docs, d))
        /\ Entered(Append(docs, d)) = Entered(docs) \cup {InHand(r)}
  BY <1>0, <1>n, AppendFacts
<1>w. /\ Distinct(Without(docs, InHand(r)))
      /\ Entered(Without(docs, InHand(r))) = Entered(docs) \ {InHand(r)}
  BY <1>0, WithoutEntered
<1>e. pc[r] = "insert" => Entry(r) \in Doc /\ Entry(r).file = InHand(r)
  BY HandFacts
<1>1. CASE QuietMove(r)
  <2>1. ~(Insert(r) \/ Delete(r) \/ WriteFails(r) \/ Mark(r))
    <3>1. pc[r] \notin {"insert", "delete"}
      BY <1>0, <1>1, QuietFacts DEF IInv
    <3>2. pc[r] # "mark" \/ Crash(r)
      BY <1>1 DEF QuietMove, ReadFiles, ReadDocs, StatusFails, ScanFails,
         Preflight, RepairChecksum, Gates, UpScan, Finish, Loops, ReadText,
         Import, FunctionThrows, Plan, BaselineScan, FindEntry, Start
    <3>3. Crash(r) => pc'[r] = "crashed"
      BY <1>0 DEF Crash, Exit, Goto, TypeOK
    <3>4. Mark(r) => pc'[r] = "find"
      BY <1>0 DEF Mark, Skip, Goto, TypeOK
    <3> QED  BY <3>1, <3>2, <3>3, <3>4 DEF Insert, Delete, WriteFails, Mark
  <2>2. docs' \in Seq(Doc)
    BY NextIInv DEF IInv, TypeOK, Next, Moves
  <2>3. Distinct(docs')
    BY <1>0, <1>1, <2>2, QuietDocs, SameFiles
  <2> QED  BY <1>d, <2>1, <2>3
<1>2. CASE UpCompletes(r) \/ DownCompletes(r) \/ Crash(r)
  <2>1. docs' = docs
    BY <1>2 DEF UpCompletes, DownCompletes, Crash, dbVars
  <2>2. ~(Insert(r) \/ Delete(r) \/ WriteFails(r) \/ Mark(r))
    BY <1>0, <1>2 DEF UpCompletes, DownCompletes, Crash, Insert, Delete,
       WriteFails, Mark, Exit, Goto, Skip, TypeOK
  <2> QED  BY <1>d, <2>1, <2>2
<1>3. CASE Insert(r)
  BY <1>3, <1>a, <1>e, <1>d DEF Insert, Delete, WriteFails, Mark, Exit, Goto
<1>4. CASE Delete(r)
  BY <1>4, <1>w, <1>d DEF Insert, Delete, WriteFails, Mark
<1>5. CASE WriteFails(r)
  <2>1. \/ docs' = docs
        \/ pc[r] = "insert" /\ docs' = Append(docs, Entry(r))
        \/ docs' = Without(docs, InHand(r))
    BY <1>5 DEF WriteFails
  <2>2. pc'[r] = "failed"
    BY <1>5, <1>0 DEF WriteFails, Exit, Goto, TypeOK
  <2>3. ~Insert(r) /\ ~Delete(r) /\ ~Mark(r)
    BY <1>5, <1>0, <2>2 DEF WriteFails, Insert, Delete, Mark, Goto, TypeOK
  <2> QED  BY <1>a, <1>e, <1>w, <1>d, <2>1, <2>3
<1>6. CASE Mark(r)
  <2>1. ~Insert(r) /\ ~Delete(r) /\ ~WriteFails(r)
    BY <1>6 DEF Mark, Insert, Delete, WriteFails
  <2>2. CASE UNCHANGED <<docs, exists, marked, excused>>
    BY <1>d, <2>1, <2>2
  <2>3. CASE ~UNCHANGED <<docs, exists, marked, excused>>
    <3>1. /\ pc[r] = "mark" /\ disk[InHand(r)] # NoFile
          /\ docs' = Append(docs, [file |-> InHand(r),
                                   sum |-> Sha[disk[InHand(r)]]])
          /\ excused' = excused \cup {InHand(r)}
      BY <1>6, <2>3 DEF Mark
    <3>2. InHand(r) \in Files
      BY <3>1, HandFacts DEF Handling
    <3>3. Sha[disk[InHand(r)]] \in Sums
      BY <1>0, <3>1, <3>2, ShaAssumption DEF TypeOK
    <3>4. [file |-> InHand(r), sum |-> Sha[disk[InHand(r)]]] \in Doc
      BY <3>2, <3>3 DEF Doc
    <3> QED  BY <1>a, <1>d, <2>1, <3>1, <3>4
  <2> QED  BY <2>2, <2>3
<1>7. CASE Reset(r)
  <2>1. Distinct(docs)'
    BY <1>7 DEF Reset, Distinct
  <2> QED  BY <1>7, <2>1 DEF Insert, Delete, WriteFails, Mark, Reset
<1> QED  BY <1>1, <1>2, <1>3, <1>4, <1>5, <1>6, <1>7, LoudMoves

LEMMA SnapshotStep ==
  ASSUME IInv, NEW r \in Runs, Watched(r), Moves(r)
  PROVE  SnapshotOf(r)'
<1>0. TypeOK /\ mem[r] \in Memory
  BY DEF IInv, TypeOK
<1>1. Moved' = Moved
  BY <1>0, StepIsLocal DEF Moves, dirVars, Moved
<1>2. CASE ReadFiles(r)
  <2>1. mem'[r].list = Listed /\ pc'[r] \in {"docs", "upDocs"}
    <3>1. [mem[r] EXCEPT !.list = Listed].list = Listed
      BY <1>0 DEF Memory
    <3> QED
      BY <1>2, <1>0, <3>1 DEF ReadFiles, Remember, Goto, TypeOK
  <2>2. Files \ Moved \subseteq Listed
    BY DEF Moved, Listed
  <2> QED  BY <1>1, <2>1, <2>2 DEF SnapshotOf
<1>3. CASE ReadDocs(r)
  <2>1. mem'[r].snap = docs /\ mem'[r].list = mem[r].list /\ docs' = docs
    <3>1. /\ [mem[r] EXCEPT !.snap = docs].snap = docs
          /\ [mem[r] EXCEPT !.snap = docs].list = mem[r].list
      BY <1>0 DEF Memory
    <3> QED
      BY <1>3, <1>0, <3>1 DEF ReadDocs, Remember, TypeOK, dbVars
  <2>2. Files \ Moved \subseteq mem[r].list
    BY <1>3 DEF Watched, SnapshotOf, ReadDocs
  <2> QED  BY <1>1, <2>1, <2>2 DEF SnapshotOf
<1>4. CASE ~ReadFiles(r) /\ ~ReadDocs(r)
  <2>1. pc'[r] \notin {"docs", "scan", "upDocs", "upScan"}
    BY <1>0, <1>4, WhereFrom
  <2> QED  BY <2>1 DEF SnapshotOf
<1> QED  BY <1>2, <1>3, <1>4

(* The loop goes on with what is left of its list.                         *)
LEMMA TailFacts ==
  ASSUME NEW s \in Seq(Files), s # <<>>
  PROVE  /\ DOMAIN s = 1..Len(s) /\ Len(s) \in Nat \ {0}
         /\ DOMAIN Tail(s) = 1..Len(s) - 1
         /\ \A i \in DOMAIN Tail(s) : i + 1 \in DOMAIN s /\ Tail(s)[i] = s[i + 1]
         /\ \A i \in DOMAIN s : i # 1 => i - 1 \in DOMAIN Tail(s)
  OBVIOUS

LEMMA RunStep ==
  ASSUME IInv, Distinct(docs), NEW r \in Runs, Watched(r), Moves(r)
  PROVE  YetToRun(r)'
<1>0. TypeOK /\ mem[r] \in Memory /\ docs \in Seq(Doc) /\ Hands
      /\ mem[r].todo \in Seq(Files)
  BY MemoryFacts DEF IInv, TypeOK
<1>1. Moved' = Moved
  BY <1>0, StepIsLocal DEF Moves, dirVars, Moved
<1>i. IInv'
  BY NextIInv DEF Next, Moves
<1>r. /\ \A f : Recorded(f) <=> f \in Entered(docs)
      /\ \A f : Recorded(f)' <=> f \in Entered(docs)'
  <2>1. docs' \in Seq(Doc)
    BY <1>i DEF IInv, TypeOK
  <2>2. \A f : In(docs', f) <=> f \in Entered(docs')
    BY <2>1, EntryFacts
  <2>3. \A f : In(docs, f) <=> f \in Entered(docs)
    BY <1>0, EntryFacts
  <2> QED  BY <2>2, <2>3 DEF Recorded, Entered, In, Positions
<1>2. CASE UpScan(r)
  <2> DEFINE m == mem[r]
  <2>q. PICK q : q = Sorted(Pending(m))
    OBVIOUS
  <2>1. m.snap = docs /\ Files \ Moved \subseteq m.list
    BY <1>2 DEF Watched, SnapshotOf, UpScan
  <2>2. Pending(m) \subseteq Files
    BY <1>0, StatusFacts
  <2>3. /\ q \in Seq(Files)
        /\ \A i \in 1..Len(q) : q[i] \in Pending(m)
        /\ \A f \in Pending(m) : \E i \in 1..Len(q) : q[i] = f
        /\ \A i, j \in 1..Len(q) : i < j => q[i] < q[j]
    BY <2>q, <2>2, SortedFacts
  <2>4. DOMAIN q = 1..Len(q)
    BY <2>3
  <2>5. mem'[r].todo = q /\ pc'[r] = "next"
    <3>1. [m EXCEPT !.snap = <<>>, !.list = {}, !.todo = q].todo = q
      BY <1>0 DEF Memory
    <3> QED  BY <1>2, <1>0, <2>q, <3>1 DEF UpScan, Remember, Goto, TypeOK, m
  <2>6. Entered(docs)' = Entered(docs)
    BY <1>2, <1>0, AdoptEntered DEF UpScan
  <2>7. \A f : f \in Pending(m) <=> f \in m.list /\ ~Recorded(f)
    BY <2>1 DEF Pending, Recorded
  <2> HIDE DEF m
  <2>8. LeftToRun(q)'
    BY <1>1, <1>r, <2>1, <2>3, <2>4, <2>6, <2>7 DEF LeftToRun
  <2> QED  BY <2>5, <2>8 DEF YetToRun
<1>3. CASE pc[r] \in Applying /\ docs' = docs /\ mem'[r].todo = mem[r].todo
             /\ pc'[r] # "mark"
  <2>1. LeftToRun(mem[r].todo)
    BY <1>3 DEF Watched, YetToRun
  <2>2. LeftToRun(mem[r].todo)'
    BY <1>1, <1>3, <2>1 DEF LeftToRun, Recorded, In, Positions
  <2> QED  BY <1>3, <2>2 DEF YetToRun
<1>4. CASE Insert(r)
  <2>s. PICK s : s = mem[r].todo
    OBVIOUS
  <2>1. s \in Seq(Files) /\ s # <<>> /\ InHand(r) = s[1]
    <3>1. s # <<>>
      BY <2>s, <1>0, <1>4 DEF Hands, HandOf, Handling, Applying, Insert
    <3> QED  BY <2>s, <1>0, <1>4, <3>1, HandFacts DEF Handling, Applying, Insert
  <2>2. mem'[r].todo = Tail(s) /\ pc'[r] = "next"
    <3>1. [mem[r] EXCEPT !.todo = Tail(s), !.body = NoFile, !.code = NoFile].todo
            = Tail(s)
      BY <1>0 DEF Memory
    <3> QED  BY <2>s, <1>4, <1>0, <3>1 DEF Insert, Remember, Goto, TypeOK
  <2>3. Entered(docs)' = Entered(docs) \cup {s[1]}
    BY <1>4, <2>1, DocsStep
  <2>4. /\ \A i \in DOMAIN s : ~Recorded(s[i])
        /\ \A i, j \in DOMAIN s : i < j => s[i] < s[j]
        /\ \A f \in Files \ Moved :
             Recorded(f) \/ \E i \in DOMAIN s : s[i] = f
    BY <2>s, <1>4 DEF Watched, YetToRun, LeftToRun, Insert, Applying
  <2>5. /\ DOMAIN s = 1..Len(s) /\ Len(s) \in Nat \ {0}
        /\ DOMAIN Tail(s) = 1..Len(s) - 1
        /\ \A i \in DOMAIN Tail(s) : i + 1 \in DOMAIN s /\ Tail(s)[i] = s[i + 1]
        /\ \A i \in DOMAIN s : i # 1 => i - 1 \in DOMAIN Tail(s)
    BY <2>1, TailFacts
  <2>6. \A i \in DOMAIN s : s[i] \in Nat
    <3>1. \A i \in DOMAIN s : s[i] \in Files
      BY <2>1
    <3> QED  BY <3>1, FileFacts
  <2>7. \A i \in DOMAIN Tail(s) : ~Recorded(Tail(s)[i])'
    <3> SUFFICES ASSUME NEW i \in DOMAIN Tail(s)
                 PROVE  Tail(s)[i] \notin Entered(docs)'
      BY <1>r
    <3>1. i + 1 \in DOMAIN s /\ 1 \in DOMAIN s /\ 1 < i + 1
      BY <2>5
    <3>2. s[1] < s[i + 1] /\ s[1] \in Nat
      BY <2>4, <2>6, <3>1
    <3>3. s[i + 1] # s[1]
      BY <2>6, <3>1, <3>2
    <3> QED  BY <1>r, <2>3, <2>4, <2>5, <3>1, <3>3
  <2>8. \A i, j \in DOMAIN Tail(s) : i < j => Tail(s)[i] < Tail(s)[j]
    <3> SUFFICES ASSUME NEW i \in DOMAIN Tail(s), NEW j \in DOMAIN Tail(s),
                        i < j
                 PROVE  Tail(s)[i] < Tail(s)[j]
      OBVIOUS
    <3>1. i + 1 < j + 1 /\ i + 1 \in DOMAIN s /\ j + 1 \in DOMAIN s
      BY <2>5
    <3> QED  BY <2>4, <2>5, <3>1
  <2>9. \A f \in Files \ Moved :
          Recorded(f)' \/ \E i \in DOMAIN Tail(s) : Tail(s)[i] = f
    <3> SUFFICES ASSUME NEW f \in Files \ Moved, f \notin Entered(docs)'
                 PROVE  \E i \in DOMAIN Tail(s) : Tail(s)[i] = f
      BY <1>r
    <3>1. ~Recorded(f) /\ f # s[1]
      BY <1>r, <2>3
    <3>2. PICK i \in DOMAIN s : s[i] = f
      BY <2>4, <3>1
    <3>3. i - 1 \in DOMAIN Tail(s) /\ (i - 1) + 1 = i
      BY <2>5, <3>1, <3>2
    <3> QED  BY <2>5, <3>2, <3>3
  <2>10. LeftToRun(mem[r].todo)'
    BY <1>1, <2>2, <2>7, <2>8, <2>9 DEF LeftToRun
  <2> QED  BY <2>2, <2>10 DEF YetToRun
<1>5. CASE FindEntry(r)
  <2>1. pc'[r] = "mark" => ~Recorded(InHand(r)) /\ mem' = mem /\ docs' = docs
    BY <1>5, <1>0 DEF FindEntry, Skip, Goto, TypeOK, dbVars
  <2>2. pc'[r] \in {"mark", "find"}
    BY <1>5, <1>0 DEF FindEntry, Skip, Goto, TypeOK
  <2>3. pc'[r] = "mark" => ~Recorded(InHand(r))'
    BY <2>1 DEF Recorded, In, Positions, InHand
  <2> QED  BY <2>2, <2>3 DEF YetToRun, Applying
<1>6. CASE pc'[r] \notin Applying \cup {"mark"}
  BY <1>6 DEF YetToRun
<1>7. /\ ReadText(r) /\ pc'[r] = "import" =>
           docs' = docs /\ mem'[r].todo = mem[r].todo
      /\ Import(r) /\ pc'[r] = "exec" =>
           docs' = docs /\ mem'[r].todo = mem[r].todo
      /\ UpCompletes(r) =>
           docs' = docs /\ mem'[r].todo = mem[r].todo /\ pc[r] = "exec"
  <2>1. /\ [mem[r] EXCEPT !.body = disk[InHand(r)]].todo = mem[r].todo
        /\ [mem[r] EXCEPT !.code = disk[InHand(r)]].todo = mem[r].todo
    BY <1>0 DEF Memory
  <2>2. ReadText(r) /\ pc'[r] = "import" =>
          docs' = docs /\ mem'[r].todo = mem[r].todo
    BY <1>0, <2>1 DEF ReadText, dbVars, Exit, Goto, Remember, TypeOK
  <2>3. Import(r) /\ pc'[r] = "exec" =>
          docs' = docs /\ mem'[r].todo = mem[r].todo
    BY <1>0, <2>1 DEF Import, dbVars, Exit, Goto, Remember, TypeOK
  <2>4. UpCompletes(r) =>
          docs' = docs /\ mem'[r].todo = mem[r].todo /\ pc[r] = "exec"
    BY DEF UpCompletes
  <2> QED  BY <2>2, <2>3, <2>4
<1> QED  BY <1>0, <1>2, <1>3, <1>4, <1>5, <1>6, <1>7, WhereFrom DEF Applying

(* With one entry per file, deleteOne() takes the entry out and keeps the  *)
(* order of the others.                                                    *)
LEMMA WithoutOrder ==
  ASSUME NEW ds \in Seq(Doc), Distinct(ds), NEW f, In(ds, f),
         NEW g, g # f, In(ds, g), NEW i \in DOMAIN Without(ds, f),
         i > LastOf(Without(ds, f), g)
  PROVE  \E j \in DOMAIN ds : /\ j > LastOf(ds, g)
                              /\ ds[j].file = Without(ds, f)[i].file
                              /\ ds[j].file # f
<1> DEFINE w == Without(ds, f)
           k == FirstOf(ds, f)
           old(n) == IF n < k THEN n ELSE n + 1
<1>1. /\ Len(ds) \in Nat /\ k \in 1..Len(ds) /\ ds[k].file = f
      /\ DOMAIN ds = 1..Len(ds)
  BY EntryFacts
<1>2. /\ w \in Seq(Doc) /\ DOMAIN w = 1..Len(ds) - 1
      /\ \A n \in 1..Len(ds) - 1 : w[n] = ds[old(n)]
  <2>1. /\ w \in Seq(Doc) /\ Len(w) = Len(ds) - 1
        /\ \A n \in 1..Len(ds) - 1 :
             w[n] = IF n < k THEN ds[n] ELSE ds[n + 1]
    BY WithoutFacts
  <2> HIDE DEF w, k
  <2> QED  BY <1>1, <2>1
<1>3. In(w, g)
  <2>1. Entered(w) = Entered(ds) \ {f} /\ g \in Entered(ds)
    BY WithoutEntered, EntryFacts
  <2> QED  BY <1>2, <2>1, EntryFacts
<1>4. LastOf(w, g) \in DOMAIN w /\ w[LastOf(w, g)].file = g
  BY <1>2, <1>3, EntryFacts
<1> DEFINE p == LastOf(w, g)
<1> HIDE DEF w, k, p
<1>5. old(p) \in DOMAIN ds /\ ds[old(p)].file = g
  BY <1>1, <1>2, <1>4 DEF p
<1>6. LastOf(ds, g) = old(p)
  BY <1>5, OnlyEntry
<1>7. i \in DOMAIN w /\ i > p /\ p \in DOMAIN w
  BY <1>4 DEF w, p
<1>8. old(i) \in DOMAIN ds /\ old(i) > old(p) /\ old(i) # k
  BY <1>1, <1>2, <1>7
<1>9. ds[old(i)].file # f
  BY <1>1, <1>8 DEF Distinct
<1>10. ds[old(i)].file = w[i].file
  BY <1>2, <1>7
<1> QED  BY <1>6, <1>8, <1>9, <1>10 DEF w

LEMMA UndoStep ==
  ASSUME IInv, Distinct(docs), NEW r \in Runs, Watched(r), Moves(r)
  PROVE  YetToUndo(r)'
<1>0. TypeOK /\ mem[r] \in Memory /\ docs \in Seq(Doc) /\ Hands
      /\ mem[r].todo \in Seq(Files)
  BY MemoryFacts DEF IInv, TypeOK
<1>1. Moved' = Moved
  BY <1>0, StepIsLocal DEF Moves, dirVars, Moved
<1>i. docs' \in Seq(Doc)
  BY NextIInv DEF Next, Moves, IInv, TypeOK
<1>r. /\ \A f : Recorded(f) <=> f \in Entered(docs)
      /\ \A f : Recorded(f)' <=> f \in Entered(docs)'
  <2>2. \A f : In(docs', f) <=> f \in Entered(docs')
    BY <1>i, EntryFacts
  <2>3. \A f : In(docs, f) <=> f \in Entered(docs)
    BY <1>0, EntryFacts
  <2> QED  BY <2>2, <2>3 DEF Recorded, Entered, In, Positions
<1>2. CASE Plan(r) /\ pc'[r] = "gates"
  <2> DEFINE m == mem[r]
  <2>n. PICK newest : newest = NewestFirst(m)
    OBVIOUS
  <2>p. PICK plan, k : /\ k = IF m.count < Len(newest) THEN m.count ELSE Len(newest)
                       /\ plan = SubSeq(newest, 1, k)
    OBVIOUS
  <2>1. m.snap = docs /\ Files \ Moved \subseteq m.list
    BY <1>2 DEF Watched, SnapshotOf, Plan
  <2>2. k \in Nat /\ k <= Len(newest) /\ newest \in Seq(Files)
    <3>1. m.count \in Nat
      <4>1. Counts \cup {0} \subseteq Nat
        BY CountAssumption
      <4> QED  BY <1>0, <4>1 DEF Memory
    <3>2. newest \in Seq(Files)
      BY <1>0, <2>n, NewestFirstFacts
    <3> QED  BY <2>p, <3>1, <3>2
  <2>3. /\ plan \in Seq(Files) /\ Len(plan) = k /\ DOMAIN plan = 1..k
        /\ \A i \in 1..k : plan[i] = newest[i]
    <3>1. plan = SubSeq(NewestFirst(m), 1, k) /\ k <= Len(NewestFirst(m))
      BY <2>n, <2>p, <2>2
    <3>2. /\ plan \in Seq(Files) /\ Len(plan) = k
          /\ \A i \in 1..k : plan[i] = NewestFirst(m)[i]
      BY <1>0, <2>2, <3>1, PlanFacts
    <3> HIDE DEF m
    <3> QED  BY <2>n, <3>2
  <2>4. /\ \A i \in 1..Len(newest) : newest[i] \in Applied(m)
        /\ \A f \in Applied(m) : \E i \in 1..Len(newest) : newest[i] = f
        /\ \A i, j \in 1..Len(newest) : i < j =>
             LastOf(docs, newest[j]) < LastOf(docs, newest[i])
    BY <1>0, <2>n, <2>1, NewestFirstFacts
  <2>5. mem'[r].todo = plan
    <3>1. [m EXCEPT !.snap = <<>>, !.list = {}, !.todo = plan].todo = plan
      BY <1>0 DEF Memory
    <3>2. mem' = [mem EXCEPT ![r] = [m EXCEPT !.snap = <<>>, !.list = {},
                                              !.todo = plan]]
      BY <1>2, <1>0, <2>n, <2>p DEF Plan, Remember, Exit, Goto, TypeOK
    <3> QED  BY <1>0, <3>1, <3>2 DEF TypeOK
  <2>6. /\ Len(docs') = Len(docs)
        /\ \A i \in 1..Len(docs) : docs'[i].file = docs[i].file
    BY <1>0, <1>2, QuietDocs DEF QuietMove
  <2>7. Entered(docs') = Entered(docs)
    BY <1>0, <1>i, <2>6, SameFiles
  <2>8. \A f : f \in Applied(m) <=> f \in m.list /\ In(docs, f)
    BY <2>1 DEF Applied
  <2>9. \A f : In(docs, f) => LastOf(docs', f) = LastOf(docs, f)
    BY <1>0, <1>i, <2>6, SameLast
  <2>10. \A f : In(docs, f) => LastOf(docs, f) \in Nat
    BY <1>0, EntryFacts
  <2>11. \A i \in DOMAIN docs : In(docs, docs[i].file) /\ docs[i].file \in Files
                                /\ i <= LastOf(docs, docs[i].file)
    BY <1>0, EntryFacts DEF Entered
  <2> HIDE DEF m
  <2>12. \A j \in DOMAIN plan : In(docs, plan[j])
    BY <2>2, <2>3, <2>4, <2>8
  <2>13. \A j \in DOMAIN plan : Recorded(plan[j])'
    BY <1>r, <2>7, <2>12 DEF Recorded, Entered
  <2>14. \A j, l \in DOMAIN plan : plan[j] = plan[l] => j = l
    <3> SUFFICES ASSUME NEW j \in DOMAIN plan, NEW l \in DOMAIN plan,
                        plan[j] = plan[l], j # l
                 PROVE  FALSE
      OBVIOUS
    <3>1. j \in 1..Len(newest) /\ l \in 1..Len(newest)
      BY <2>2, <2>3
    <3>2. j < l \/ l < j
      BY <3>1
    <3>3. LastOf(docs, plan[j]) < LastOf(docs, plan[j])
      BY <2>3, <2>4, <3>1, <3>2
    <3>4. LastOf(docs, plan[j]) \in Nat
      BY <2>10, <2>12
    <3> QED  BY <3>3, <3>4
  <2>15. ASSUME NEW j \in DOMAIN plan, NEW i \in DOMAIN docs',
                i > LastOf(docs', plan[j])
         PROVE  docs'[i].file \in Moved \cup {plan[l] : l \in 1..j - 1}
    <3>1. i \in DOMAIN docs /\ docs'[i].file = docs[i].file
      BY <1>0, <1>i, <2>6
    <3>2. i > LastOf(docs, plan[j])
      BY <2>9, <2>12, <2>15
    <3> DEFINE g == docs[i].file
    <3>3. In(docs, g) /\ g \in Files /\ i <= LastOf(docs, g)
      BY <2>11, <3>1
    <3>4. ASSUME g \notin Moved
          PROVE  g \in {plan[l] : l \in 1..j - 1}
      <4>1. g \in Applied(m)
        BY <2>1, <2>8, <3>3, <3>4
      <4>2. PICK l \in 1..Len(newest) : newest[l] = g
        BY <2>4, <4>1
      <4>3. j \in 1..Len(newest) /\ plan[j] = newest[j]
        BY <2>2, <2>3
      <4>4. /\ LastOf(docs, newest[l]) \in Nat
            /\ LastOf(docs, newest[j]) \in Nat
            /\ LastOf(docs, newest[l]) > LastOf(docs, newest[j])
        BY <1>0, <2>10, <2>12, <3>1, <3>2, <3>3, <4>2, <4>3
      <4>5. l < j
        <5>1. ~(j < l)
          BY <2>4, <4>2, <4>3, <4>4
        <5>2. j # l
          BY <4>4
        <5> QED  BY <2>2, <4>2, <4>3, <5>1, <5>2
      <4>6. l \in 1..j - 1 /\ plan[l] = g
        BY <2>2, <2>3, <4>2, <4>3, <4>5
      <4> QED  BY <4>6
    <3> QED  BY <3>1, <3>4
  <2>16. LeftToUndo(plan)'
    BY <1>1, <2>13, <2>14, <2>15 DEF LeftToUndo
  <2> QED  BY <2>5, <2>16 DEF YetToUndo
<1>3. CASE /\ pc[r] \in Undoing \/ (pc[r] = "gates" /\ mem[r].cmd = "down")
           /\ docs' = docs /\ mem'[r].todo = mem[r].todo
  <2>1. LeftToUndo(mem[r].todo)
    BY <1>3 DEF Watched, YetToUndo
  <2>2. LeftToUndo(mem[r].todo)'
    BY <1>1, <1>3, <2>1
    DEF LeftToUndo, Recorded, In, LastOf, Positions
  <2> QED  BY <2>2 DEF YetToUndo
<1>4. CASE Delete(r)
  <2>s. PICK s : s = mem[r].todo
    OBVIOUS
  <2>1. s \in Seq(Files) /\ s # <<>> /\ InHand(r) = s[1]
    <3>1. s # <<>>
      BY <2>s, <1>0, <1>4 DEF Hands, HandOf, Handling, Undoing, Delete
    <3> QED  BY <2>s, <1>0, <1>4, <3>1, HandFacts DEF Handling, Undoing, Delete
  <2>2. mem'[r].todo = Tail(s) /\ docs' = Without(docs, s[1])
    <3>1. [mem[r] EXCEPT !.todo = Tail(s), !.body = NoFile, !.code = NoFile].todo
            = Tail(s)
      BY <1>0 DEF Memory
    <3> QED  BY <2>s, <1>4, <1>0, <2>1, <3>1 DEF Delete, Remember, TypeOK
  <2>3. Entered(docs)' = Entered(docs) \ {s[1]}
    BY <1>4, <2>1, DocsStep
  <2>4. /\ \A j \in DOMAIN s : Recorded(s[j])
        /\ \A j, k \in DOMAIN s : s[j] = s[k] => j = k
        /\ \A j \in DOMAIN s, i \in DOMAIN docs :
             i > LastOf(docs, s[j]) =>
               docs[i].file \in Moved \cup {s[k] : k \in 1..j - 1}
    BY <2>s, <1>4 DEF Watched, YetToUndo, LeftToUndo, Delete, Undoing
  <2>5. /\ DOMAIN s = 1..Len(s) /\ Len(s) \in Nat \ {0}
        /\ DOMAIN Tail(s) = 1..Len(s) - 1
        /\ \A i \in DOMAIN Tail(s) : i + 1 \in DOMAIN s /\ Tail(s)[i] = s[i + 1]
        /\ \A i \in DOMAIN s : i # 1 => i - 1 \in DOMAIN Tail(s)
    BY <2>1, TailFacts
  <2>6. 1 \in DOMAIN s /\ \A j \in DOMAIN Tail(s) : j + 1 # 1
    BY <2>5
  <2>7. \A j \in DOMAIN Tail(s) : Recorded(Tail(s)[j])' /\ Tail(s)[j] # s[1]
    BY <1>r, <2>3, <2>4, <2>5, <2>6
  <2>8. \A j, k \in DOMAIN Tail(s) : Tail(s)[j] = Tail(s)[k] => j = k
    <3> SUFFICES ASSUME NEW j \in DOMAIN Tail(s), NEW k \in DOMAIN Tail(s),
                        Tail(s)[j] = Tail(s)[k]
                 PROVE  j = k
      OBVIOUS
    <3>1. j + 1 = k + 1
      BY <2>4, <2>5
    <3> QED  BY <2>5, <3>1
  <2>9. ASSUME NEW j \in DOMAIN Tail(s), NEW i \in DOMAIN docs',
               i > LastOf(docs', Tail(s)[j])
        PROVE  docs'[i].file \in Moved \cup {Tail(s)[k] : k \in 1..j - 1}
    <3>1. /\ In(docs, s[1]) /\ In(docs, Tail(s)[j]) /\ Tail(s)[j] # s[1]
      BY <2>4, <2>5, <2>6, <2>7 DEF Recorded
    <3>2. PICK n \in DOMAIN docs : /\ n > LastOf(docs, Tail(s)[j])
                                   /\ docs[n].file = docs'[i].file
                                   /\ docs[n].file # s[1]
      BY <1>0, <2>2, <2>9, <3>1, WithoutOrder
    <3>3. docs[n].file \in Moved \cup {s[k] : k \in 1..j}
      <4>1. j + 1 \in DOMAIN s /\ Tail(s)[j] = s[j + 1] /\ (j + 1) - 1 = j
        BY <2>5
      <4> QED  BY <2>4, <3>2, <4>1
    <3>4. ASSUME NEW k \in 1..j, s[k] # s[1]
          PROVE  s[k] \in {Tail(s)[l] : l \in 1..j - 1}
      <4>1. k \in DOMAIN s /\ k # 1 /\ k - 1 \in 1..j - 1 /\ (k - 1) + 1 = k
        BY <2>5, <3>4
      <4>2. Tail(s)[k - 1] = s[k]
        BY <2>5, <4>1
      <4> QED  BY <4>1, <4>2
    <3> QED  BY <3>2, <3>3, <3>4
  <2>10. LeftToUndo(Tail(s))'
    BY <1>1, <2>7, <2>8, <2>9 DEF LeftToUndo
  <2> QED  BY <2>2, <2>10 DEF YetToUndo
<1>5. CASE pc'[r] \notin Undoing \cup {"gates"}
  BY <1>5 DEF YetToUndo
<1>6. CASE pc'[r] = "gates" /\ mem'[r].cmd # "down"
  BY <1>6 DEF YetToUndo, Undoing
<1>7. /\ ReadText(r) /\ pc'[r] = "undoImport" =>
           docs' = docs /\ mem'[r].todo = mem[r].todo
      /\ Import(r) /\ pc'[r] = "undoExec" =>
           docs' = docs /\ mem'[r].todo = mem[r].todo
      /\ DownCompletes(r) =>
           docs' = docs /\ mem'[r].todo = mem[r].todo /\ pc[r] = "undoExec"
      /\ Gates(r) /\ pc'[r] = "undoNext" =>
           /\ docs' = docs /\ mem'[r].todo = mem[r].todo
           /\ pc[r] = "gates" /\ mem[r].cmd = "down"
  <2>1. /\ [mem[r] EXCEPT !.body = disk[InHand(r)]].todo = mem[r].todo
        /\ [mem[r] EXCEPT !.code = disk[InHand(r)]].todo = mem[r].todo
    BY <1>0 DEF Memory
  <2>2. ReadText(r) /\ pc'[r] = "undoImport" =>
          docs' = docs /\ mem'[r].todo = mem[r].todo
    BY <1>0, <2>1 DEF ReadText, dbVars, Exit, Goto, Remember, TypeOK
  <2>3. Import(r) /\ pc'[r] = "undoExec" =>
          docs' = docs /\ mem'[r].todo = mem[r].todo
    BY <1>0, <2>1 DEF Import, dbVars, Exit, Goto, Remember, TypeOK
  <2>4. DownCompletes(r) =>
          docs' = docs /\ mem'[r].todo = mem[r].todo /\ pc[r] = "undoExec"
    BY DEF DownCompletes, dbVars
  <2>5. Gates(r) /\ pc'[r] = "undoNext" =>
          /\ docs' = docs /\ mem'[r].todo = mem[r].todo
          /\ pc[r] = "gates" /\ mem[r].cmd = "down"
    BY <1>0 DEF Gates, dbVars, Exit, Goto, TypeOK
  <2> QED  BY <2>2, <2>3, <2>4, <2>5
<1>8. (Preflight(r) \/ RepairChecksum(r)) /\ pc'[r] = "gates" =>
        mem'[r].cmd # "down"
  <2>1. mem[r].cmd = "up" /\ pc'[r] = "gates" => mem'[r].cmd = "up"
        \/ ~(Preflight(r) \/ RepairChecksum(r))
    <3> DEFINE m1 == [mem[r] EXCEPT !.drift = Mismatches(mem[r]), !.snap = <<>>,
                                    !.list = Pending(mem[r])]
               m2(f) == [mem[r] EXCEPT !.drift = mem[r].drift \ {f}]
    <3>1. m1.cmd = mem[r].cmd /\ \A f : m2(f).cmd = mem[r].cmd
      BY <1>0 DEF Memory
    <3>2. Preflight(r) /\ pc'[r] = "gates" => mem' = [mem EXCEPT ![r] = m1]
      BY <1>0 DEF Preflight, Exit, Goto, Remember, TypeOK
    <3>3. RepairChecksum(r) => \E f : mem' = [mem EXCEPT ![r] = m2(f)]
      BY DEF RepairChecksum, Remember
    <3> HIDE DEF m1, m2
    <3>4. mem \in [Runs -> Memory]
      BY <1>0 DEF TypeOK
    <3> QED  BY <3>1, <3>2, <3>3, <3>4
  <2>2. Preflight(r) => mem[r].cmd = "up"
    BY DEF Preflight
  <2>3. RepairChecksum(r) => mem[r].cmd = "up"
    BY <1>0 DEF RepairChecksum, Hands, HandOf
  <2> QED  BY <2>1, <2>2, <2>3
<1> QED
  BY <1>0, <1>2, <1>3, <1>4, <1>5, <1>6, <1>7, <1>8, WhereFrom DEF Undoing

LEMMA EffectsStep ==
  ASSUME IInv, NEW r \in Runs, Watched(r), Moves(r)
  PROVE  EffectsOf(r)'
<1>0. TypeOK /\ Hands
  BY DEF IInv
<1>1. CASE UpCompletes(r)
  <2>1. pc[r] = "exec" /\ mem' = mem /\ pc'[r] = "insert"
        /\ ran' = [ran EXCEPT ![InHand(r)] = @ \cup {mem[r].code}]
    BY <1>1, <1>0 DEF UpCompletes, Goto, TypeOK
  <2>2. InHand(r) \in Files
    BY <2>1, HandFacts DEF Handling, Applying
  <2>3. mem[r].code \in ran'[InHand(r)]
    BY <1>0, <2>1, <2>2 DEF TypeOK
  <2> QED  BY <2>1, <2>3 DEF EffectsOf, InHand
<1>2. CASE DownCompletes(r)
  <2>1. pc[r] = "undoExec" /\ mem' = mem /\ pc'[r] = "delete"
        /\ ran' = [ran EXCEPT ![InHand(r)] = {}]
    BY <1>2, <1>0 DEF DownCompletes, Goto, TypeOK
  <2>2. InHand(r) \in Files
    BY <2>1, HandFacts DEF Handling, Undoing
  <2>3. ran'[InHand(r)] = {}
    BY <1>0, <2>1, <2>2 DEF TypeOK
  <2> QED  BY <2>1, <2>3 DEF EffectsOf, InHand
<1>3. CASE ~UpCompletes(r) /\ ~DownCompletes(r)
  <2>1. pc'[r] \notin {"insert", "delete"}
    BY <1>0, <1>3, WhereFrom
  <2> QED  BY <2>1 DEF EffectsOf
<1> QED  BY <1>1, <1>2, <1>3

(* What the run that is alone does to the settled files: those that are    *)
(* settled after its step were before it, or are the one that it entered   *)
(* or removed just now.                                                    *)
LEMMA SettledStep ==
  ASSUME IInv, Apart, Alone, NEW r \in Runs, Watched(r), Moves(r),
         NEW f \in Files, Settled(f)'
  PROVE  /\ ~Reset(r)
         /\ Mark(r) /\ f = InHand(r) => UNCHANGED <<docs, excused>>
         /\ WriteFails(r) => f # InHand(r)
         /\ \/ f = InHand(r) /\ (Insert(r) \/ Delete(r)) /\ UNCHANGED ran
            \/ Settled(f) /\ ran'[f] = ran[f]
<1> USE DEF history
<1>0. TypeOK /\ Hands
  BY DEF IInv
<1>1. \A q \in Runs \ {r} : ~Active(q) /\ ~Active(q)'
  BY <1>0, OthersIdle
<1>2. Settled(f) <=>
        /\ f \notin cut /\ f \notin excused
        /\ pc[r] \in {"insert", "delete"} => InHand(r) # f
  BY <1>1, SettledFacts
<1>3. /\ f \notin cut' /\ f \notin excused'
      /\ pc'[r] \in {"insert", "delete"} => InHand(r)' # f
  BY DEF Settled
<1>4. CASE QuietMove(r)
  <2>1. /\ ran' = ran /\ cut' = cut /\ excused \subseteq excused'
        /\ pc[r] \notin {"insert", "delete"}
    BY <1>0, <1>4, QuietFacts
  <2>2. ~Reset(r) /\ ~Mark(r) /\ ~WriteFails(r)
    <3>1. pc[r] \notin {"mark", "insert", "delete"} \/ Crash(r)
      BY <1>4, <2>1 DEF QuietMove, ReadFiles, ReadDocs, StatusFails, ScanFails,
         Preflight, RepairChecksum, Gates, UpScan, Finish, Loops, ReadText,
         Import, FunctionThrows, Plan, BaselineScan, FindEntry, Start
    <3>2. Crash(r) => pc'[r] = "crashed"
      BY <1>0 DEF Crash, Exit, Goto, TypeOK
    <3>3. Mark(r) => pc'[r] = "find"
      BY <1>0 DEF Mark, Skip, Goto, TypeOK
    <3>4. ~Reset(r)
      BY <1>3 DEF Reset
    <3> QED  BY <2>1, <3>1, <3>2, <3>3, <3>4 DEF Mark, WriteFails
  <2> QED  BY <1>2, <1>3, <2>1, <2>2
<1>h. pc[r] \in Handling => InHand(r) \in Files
  BY HandFacts
<1>5. CASE UpCompletes(r)
  <2>1. /\ pc[r] = "exec" /\ mem' = mem /\ pc'[r] = "insert"
        /\ ran' = [ran EXCEPT ![InHand(r)] = @ \cup {mem[r].code}]
        /\ UNCHANGED <<cut, excused>>
    BY <1>5, <1>0 DEF UpCompletes, Goto, TypeOK
  <2>2. f # InHand(r)
    BY <1>3, <2>1 DEF InHand
  <2>3. ran'[f] = ran[f]
    BY <1>0, <2>1, <2>2 DEF TypeOK
  <2>4. ~Reset(r) /\ ~Mark(r) /\ ~WriteFails(r)
    BY <2>1 DEF Reset, Mark, WriteFails
  <2> QED  BY <1>2, <1>3, <2>1, <2>3, <2>4
<1>6. CASE DownCompletes(r)
  <2>1. /\ pc[r] = "undoExec" /\ mem' = mem /\ pc'[r] = "delete"
        /\ ran' = [ran EXCEPT ![InHand(r)] = {}]
        /\ UNCHANGED <<cut, excused>>
    BY <1>6, <1>0 DEF DownCompletes, Goto, TypeOK
  <2>2. f # InHand(r)
    BY <1>3, <2>1 DEF InHand
  <2>3. ran'[f] = ran[f]
    BY <1>0, <2>1, <2>2 DEF TypeOK
  <2>4. ~Reset(r) /\ ~Mark(r) /\ ~WriteFails(r)
    BY <2>1 DEF Reset, Mark, WriteFails
  <2> QED  BY <1>2, <1>3, <2>1, <2>3, <2>4
<1>7. CASE Insert(r) \/ Delete(r)
  <2>1. /\ pc[r] \in {"insert", "delete"} /\ pc'[r] \in {"next", "undoNext"}
        /\ ran' = ran
        /\ cut' = cut \ {InHand(r)} /\ excused' = excused \ {InHand(r)}
    BY <1>7, <1>0 DEF Insert, Delete, Goto, TypeOK
  <2>2. ~Reset(r) /\ ~Mark(r) /\ ~WriteFails(r)
    BY <1>0, <2>1 DEF Reset, Mark, WriteFails, Exit, Goto, TypeOK
  <2> QED  BY <1>2, <1>3, <1>7, <2>1, <2>2
<1>8. CASE WriteFails(r) \/ (Crash(r) /\ pc[r] \in {"insert", "delete"})
  <2>1. /\ pc[r] \in {"insert", "delete"}
        /\ ran' = ran /\ cut' = cut \cup {InHand(r)} /\ excused' = excused
    BY <1>8 DEF WriteFails, Crash
  <2>2. ~Reset(r) /\ ~Mark(r)
    BY <2>1 DEF Reset, Mark
  <2> QED  BY <1>2, <1>3, <2>1, <2>2
<1>9. CASE Mark(r)
  <2>1. /\ pc[r] = "mark" /\ ran' = ran /\ cut' = cut
        /\ \/ UNCHANGED <<docs, excused>>
           \/ excused' = excused \cup {InHand(r)}
    BY <1>9 DEF Mark
  <2>2. ~Reset(r) /\ ~WriteFails(r)
    BY <2>1 DEF Reset, WriteFails
  <2> QED  BY <1>2, <1>3, <2>1, <2>2
<1>10. CASE Reset(r)
  BY <1>3, <1>10 DEF Reset
<1> QED
  BY <1>4, <1>5, <1>6, <1>7, <1>8, <1>9, <1>10, LoudMoves

(* _applyOne(), _rollbackOne(): effects and entry agree again when the     *)
(* file in hand is settled.                                                *)
LEMMA MatchingStep ==
  ASSUME IInv, ApartInv, Apart, NEW r \in Runs, Moves(r)
  PROVE  Matching'
<1>0. TypeOK /\ docs \in Seq(Doc) /\ Watched(r) /\ Alone /\ Distinct(docs)
      /\ Hands /\ Matching
  BY DEF IInv, TypeOK, ApartInv
<1>i. docs' \in Seq(Doc)
  BY NextIInv DEF Next, Moves, IInv, TypeOK
<1>r. /\ \A f : Recorded(f) <=> f \in Entered(docs)
      /\ \A f : Recorded(f)' <=> f \in Entered(docs)'
  <2>2. \A f : In(docs', f) <=> f \in Entered(docs')
    BY <1>i, EntryFacts
  <2>3. \A f : In(docs, f) <=> f \in Entered(docs)
    BY <1>0, EntryFacts
  <2> QED  BY <2>2, <2>3 DEF Recorded, Entered, In, Positions
<1> SUFFICES ASSUME NEW f \in Files, Settled(f)'
             PROVE  f \in Entered(docs)' <=> ran'[f] # {}
  BY <1>r DEF Matching
<1>1. /\ ~Reset(r)
      /\ Mark(r) /\ f = InHand(r) => UNCHANGED <<docs, excused>>
      /\ WriteFails(r) => f # InHand(r)
      /\ \/ f = InHand(r) /\ (Insert(r) \/ Delete(r)) /\ UNCHANGED ran
         \/ Settled(f) /\ ran'[f] = ran[f]
  BY <1>0, SettledStep
<1>2. /\ Insert(r) => Entered(docs)' = Entered(docs) \cup {InHand(r)}
      /\ Delete(r) => Entered(docs)' = Entered(docs) \ {InHand(r)}
      /\ WriteFails(r) => \A g \in Files \ {InHand(r)} :
           g \in Entered(docs)' <=> g \in Entered(docs)
      /\ Mark(r) => \/ UNCHANGED <<docs, excused>>
                    \/ /\ Entered(docs)' = Entered(docs) \cup {InHand(r)}
                       /\ InHand(r) \in excused'
  BY <1>0, DocsStep
<1>3. CASE f = InHand(r) /\ Insert(r) /\ UNCHANGED ran
  <2>1. mem[r].code \in ran[f]
    BY <1>0, <1>3 DEF Insert, Watched, EffectsOf
  <2> QED  BY <1>2, <1>3, <2>1
<1>4. CASE f = InHand(r) /\ Delete(r) /\ UNCHANGED ran
  <2>1. ran[f] = {}
    BY <1>0, <1>4 DEF Delete, Watched, EffectsOf
  <2> QED  BY <1>2, <1>4, <2>1
<1>5. CASE Settled(f) /\ ran'[f] = ran[f]
  <2>1. f \in Entered(docs) <=> ran'[f] # {}
    BY <1>0, <1>5, <1>r DEF Matching
  <2>2. docs' = docs => Entered(docs)' = Entered(docs)
    BY DEF Entered
  <2>3. CASE QuietMove(r)
    BY <1>0, <2>1, <2>3, QuietFacts
  <2>4. CASE UpCompletes(r) \/ DownCompletes(r) \/ Crash(r)
    <3>1. docs' = docs
      BY <2>4 DEF UpCompletes, DownCompletes, Crash, dbVars
    <3> QED  BY <2>1, <2>2, <3>1
  <2>5. CASE Insert(r) \/ Delete(r)
    <3>1. f # InHand(r)
      <4>1. pc[r] \in {"insert", "delete"}
        BY <2>5 DEF Insert, Delete
      <4> QED  BY <1>5, <4>1 DEF Settled
    <3> QED  BY <1>2, <2>1, <2>5, <3>1
  <2>6. CASE WriteFails(r)
    BY <1>1, <1>2, <2>1, <2>6
  <2>7. CASE Mark(r)
    <3>1. f = InHand(r) => InHand(r) \notin excused'
      BY DEF Settled
    <3> QED  BY <1>2, <2>1, <2>2, <2>7, <3>1
  <2> QED  BY <1>1, <2>3, <2>4, <2>5, <2>6, <2>7, LoudMoves
<1> QED  BY <1>1, <1>3, <1>4, <1>5

LEMMA WithoutKeeps ==
  ASSUME NEW ds \in Seq(Doc), NEW f, NEW i \in DOMAIN Without(ds, f)
  PROVE  \E j \in DOMAIN ds : Without(ds, f)[i] = ds[j]
<1>1. CASE In(ds, f)
  <2> DEFINE k == FirstOf(ds, f)
             w == Without(ds, f)
  <2>1. /\ Len(ds) \in Nat /\ k \in 1..Len(ds) /\ DOMAIN ds = 1..Len(ds)
    BY <1>1, EntryFacts
  <2>2. /\ w \in Seq(Doc) /\ Len(w) = Len(ds) - 1
        /\ \A n \in 1..Len(ds) - 1 : w[n] = IF n < k THEN ds[n] ELSE ds[n + 1]
    BY <1>1, WithoutFacts
  <2>3. i \in DOMAIN w
    OBVIOUS
  <2> HIDE DEF k, w
  <2>4. i \in 1..Len(ds) - 1 /\ i \in DOMAIN ds /\ i + 1 \in DOMAIN ds
    BY <2>1, <2>2, <2>3
  <2>5. w[i] = ds[i] \/ w[i] = ds[i + 1]
    BY <2>2, <2>4
  <2> QED  BY <2>4, <2>5 DEF w
<1>2. CASE ~In(ds, f)
  BY <1>2 DEF Without
<1> QED  BY <1>1, <1>2

(* status() adopts only documents without a checksum, and a repair is the  *)
(* operator's: the entries of settled files keep theirs.                   *)
LEMMA QuietSums ==
  ASSUME IInv, Apart, Alone, Distinct(docs), Checksums,
         NEW r \in Runs, Watched(r), Moves(r), QuietMove(r),
         NEW f, Settled(f), Settled(f)', NEW i \in DOMAIN docs, docs[i].file = f
  PROVE  docs'[i] = docs[i]
<1>0. TypeOK /\ docs \in Seq(Doc) /\ mem[r] \in Memory /\ i \in 1..Len(docs)
  BY DEF IInv, TypeOK
<1>1. CASE ScanFails(r) \/ Preflight(r) \/ UpScan(r) \/ Plan(r)
             \/ BaselineScan(r)
  <2>1. PICK S : docs' = WithSums(docs, Unbaselined(mem[r]) \cap S)
    <3>1. Unbaselined(mem[r]) \cap Unbaselined(mem[r]) = Unbaselined(mem[r])
      OBVIOUS
    <3> QED
      BY <1>1, <3>1
      DEF ScanFails, Preflight, UpScan, Plan, BaselineScan, Adopt
  <2>2. mem[r].snap = docs
    BY <1>1 DEF ScanFails, Preflight, UpScan, Plan, BaselineScan,
       Watched, SnapshotOf
  <2>3. SumOf(mem[r].snap, f) = docs[i].sum
    BY <1>0, <2>2, OnlyEntry DEF SumOf
  <2>4. docs[i].sum # NullSum
    BY DEF Checksums
  <2>5. f \notin Unbaselined(mem[r])
    BY <2>3, <2>4 DEF Unbaselined
  <2> QED  BY <1>0, <2>1, <2>5, AdoptFacts
<1>2. CASE RepairChecksum(r)
  <2>1. PICK g \in mem[r].drift :
          /\ disk[g] # NoFile /\ docs' = WithSums(docs, {g})
          /\ excused' = excused \cup {g}
    BY <1>2 DEF RepairChecksum
  <2>2. disk \in [Files -> Contents \cup {NoFile}]
    BY <1>0 DEF TypeOK
  <2>3. \A x \in {g} \cap Files : disk[x] # NoFile
    BY <2>1
  <2>4. f \notin excused'
    BY DEF Settled
  <2>5. f \notin {g}
    BY <2>1, <2>4
  <2> QED  BY <1>0, <2>1, <2>2, <2>3, <2>5, WithSumsFacts
<1>3. CASE ~(ScanFails(r) \/ Preflight(r) \/ UpScan(r) \/ Plan(r)
               \/ BaselineScan(r) \/ RepairChecksum(r))
  <2>1. docs' = docs
    BY <1>3 DEF QuietMove, ReadFiles, ReadDocs, StatusFails, Gates, Finish,
       ReadText, Import, FunctionThrows, FindEntry, Start, Crash, dbVars
  <2> QED  BY <2>1
<1> QED  BY <1>1, <1>2, <1>3

LEMMA ChecksumsStep ==
  ASSUME IInv, ApartInv, Apart, NEW r \in Runs, Moves(r)
  PROVE  Checksums'
<1>0. TypeOK /\ docs \in Seq(Doc) /\ Watched(r) /\ Alone /\ Distinct(docs)
      /\ Hands /\ Bodies /\ Checksums /\ past' = past
  BY StepIsLocal DEF IInv, TypeOK, ApartInv, Moves, dirVars
<1>i. docs' \in Seq(Doc)
  BY NextIInv DEF Next, Moves, IInv, TypeOK
<1> SUFFICES ASSUME NEW i \in DOMAIN docs', Settled(docs[i].file)'
             PROVE  /\ docs'[i].sum # NullSum
                    /\ \A c \in Contents : docs'[i].sum = Sha[c] =>
                         c \in ran'[docs'[i].file] \cup past[docs'[i].file]
  BY <1>0 DEF Checksums
<1>f. PICK f : f = docs'[i].file
  OBVIOUS
<1>g. f \in Files /\ f \in Entered(docs') /\ Settled(f)'
  BY <1>i, <1>f, EntryFacts DEF Entered, Settled
<1>1. /\ ~Reset(r)
      /\ Mark(r) /\ f = InHand(r) => UNCHANGED <<docs, excused>>
      /\ WriteFails(r) => f # InHand(r)
      /\ \/ f = InHand(r) /\ (Insert(r) \/ Delete(r)) /\ UNCHANGED ran
         \/ Settled(f) /\ ran'[f] = ran[f]
  BY <1>0, <1>g, SettledStep
(* An entry that was there before, of a file that was settled before.      *)
<1>2. ASSUME Settled(f) /\ ran'[f] = ran[f],
             \E j \in DOMAIN docs : docs'[i] = docs[j]
      PROVE  /\ docs'[i].sum # NullSum
             /\ \A c \in Contents : docs'[i].sum = Sha[c] =>
                  c \in ran'[docs'[i].file] \cup past[docs'[i].file]
  <2>1. PICK j \in DOMAIN docs : docs'[i] = docs[j]
    BY <1>2
  <2>2. Settled(docs[j].file)
    BY <1>f, <1>2, <2>1
  <2>3. /\ docs[j].sum # NullSum
        /\ \A c \in Contents : docs[j].sum = Sha[c] =>
             c \in ran[docs[j].file] \cup past[docs[j].file]
    BY <1>0, <2>2 DEF Checksums
  <2> QED  BY <1>f, <1>2, <2>1, <2>3
<1>3. CASE QuietMove(r)
  <2>1. /\ Len(docs') = Len(docs)
        /\ \A j \in 1..Len(docs) : docs'[j].file = docs[j].file
    BY <1>0, <1>3, QuietDocs
  <2>2. i \in DOMAIN docs /\ docs[i].file = f
    BY <1>0, <1>i, <1>f, <2>1
  <2>3. Settled(f) /\ ran'[f] = ran[f]
    <3>1. pc[r] \notin {"insert", "delete"}
      BY <1>0, <1>3, QuietFacts
    <3> QED  BY <1>1, <3>1 DEF Insert, Delete
  <2>4. docs'[i] = docs[i]
    BY <1>0, <1>3, <1>g, <2>2, <2>3, QuietSums
  <2> QED  BY <1>2, <2>2, <2>3, <2>4
<1>n. UpCompletes(r) \/ DownCompletes(r) \/ Crash(r) \/ WriteFails(r)
        \/ Mark(r) => ~Insert(r) /\ ~Delete(r)
  BY <1>0 DEF UpCompletes, DownCompletes, Crash, WriteFails, Mark, Insert,
     Delete, Exit, Goto, TypeOK
<1>4. CASE UpCompletes(r) \/ DownCompletes(r) \/ Crash(r)
  <2>1. docs' = docs
    BY <1>4 DEF UpCompletes, DownCompletes, Crash, dbVars
  <2> QED  BY <1>1, <1>2, <1>4, <1>n, <2>1
<1>a. ASSUME NEW d \in Doc, docs' = Append(docs, d), i # Len(docs) + 1
      PROVE  i \in DOMAIN docs /\ docs'[i] = docs[i]
  <2>1. /\ DOMAIN docs' = 1..Len(docs) + 1 /\ DOMAIN docs = 1..Len(docs)
        /\ Len(docs) \in Nat
        /\ \A j \in 1..Len(docs) : docs'[j] = docs[j]
    BY <1>0, <1>a
  <2> QED  BY <1>a, <2>1
<1>l. ASSUME NEW d \in Doc, docs' = Append(docs, d)
      PROVE  docs'[Len(docs) + 1] = d
  BY <1>0, <1>l
<1>5. CASE Insert(r)
  <2>1. /\ pc[r] = "insert" /\ docs' = Append(docs, Entry(r)) /\ ran' = ran
    BY <1>5 DEF Insert
  <2>2. /\ Entry(r) \in Doc /\ Entry(r).file = InHand(r)
        /\ mem[r].body \in Contents /\ mem[r].code \in Contents
        /\ InHand(r) \in Files
    BY <1>0, <2>1, HandFacts DEF Handling, Applying
  <2>3. CASE i = Len(docs) + 1
    <3>1. docs'[i] = Entry(r) /\ f = InHand(r)
      BY <1>f, <1>l, <2>1, <2>2, <2>3
    <3>2. docs'[i].sum = Sha[mem[r].body]
      BY <3>1 DEF Entry
    <3>3. docs'[i].sum # NullSum
      BY <2>2, <3>2, ShaAssumption
    <3>4. \A c \in Contents : docs'[i].sum = Sha[c] => c = mem[r].body
      BY <2>2, <3>2, ShaAssumption
    <3>5. mem[r].body \in {mem[r].code} \cup past[f]
      BY <1>0, <2>1, <3>1 DEF Bodies, BodyOf
    <3>6. mem[r].code \in ran[f]
      BY <1>0, <2>1, <3>1 DEF Watched, EffectsOf
    <3> QED  BY <1>f, <2>1, <3>3, <3>4, <3>5, <3>6
  <2>4. CASE i # Len(docs) + 1
    <3>1. i \in DOMAIN docs /\ docs'[i] = docs[i]
      BY <1>a, <2>1, <2>2, <2>4
    <3>2. f # InHand(r)
      <4>1. ~Recorded(InHand(r))
        BY <1>0, <2>1, HandFacts DEF Applying
      <4> QED  BY <1>f, <3>1, <4>1 DEF Recorded, In, Positions
    <3> QED  BY <1>1, <1>2, <3>1, <3>2
  <2> QED  BY <2>3, <2>4
<1>6. CASE Delete(r)
  <2>1. docs' = Without(docs, InHand(r))
    BY <1>6 DEF Delete
  <2>2. f # InHand(r)
    BY <1>0, <1>6, <1>g, DocsStep DEF Entered
  <2>3. \E j \in DOMAIN docs : docs'[i] = docs[j]
    BY <1>0, <2>1, WithoutKeeps
  <2> QED  BY <1>1, <1>2, <2>2, <2>3
<1>7. CASE WriteFails(r)
  <2>1. \/ docs' = docs
        \/ pc[r] = "insert" /\ docs' = Append(docs, Entry(r))
        \/ docs' = Without(docs, InHand(r))
    BY <1>7 DEF WriteFails
  <2>2. f # InHand(r)
    BY <1>1, <1>7
  <2>3. \E j \in DOMAIN docs : docs'[i] = docs[j]
    <3>1. CASE docs' = docs
      BY <3>1
    <3>2. CASE pc[r] = "insert" /\ docs' = Append(docs, Entry(r))
      <4>1. Entry(r) \in Doc /\ Entry(r).file = InHand(r)
        BY <1>0, <3>2, HandFacts
      <4>2. i # Len(docs) + 1
        BY <1>f, <1>l, <2>2, <3>2, <4>1
      <4> QED  BY <1>a, <3>2, <4>1, <4>2
    <3>3. CASE docs' = Without(docs, InHand(r))
      BY <1>0, <3>3, WithoutKeeps
    <3> QED  BY <2>1, <3>1, <3>2, <3>3
  <2> QED  BY <1>1, <1>2, <1>7, <1>n, <2>3
<1>8. CASE Mark(r)
  <2>1. \E j \in DOMAIN docs : docs'[i] = docs[j]
    <3>1. CASE docs' = docs
      BY <3>1
    <3>2. CASE docs' # docs
      <4>1. f # InHand(r)
        BY <1>1, <1>8, <3>2
      <4>2. /\ pc[r] = "mark" /\ disk[InHand(r)] # NoFile
            /\ docs' = Append(docs, [file |-> InHand(r),
                                     sum |-> Sha[disk[InHand(r)]]])
        BY <1>8, <3>2 DEF Mark
      <4>3. InHand(r) \in Files
        BY <1>0, <4>2, HandFacts DEF Handling
      <4>4. Sha[disk[InHand(r)]] \in Sums
        BY <1>0, <4>2, <4>3, ShaAssumption DEF TypeOK
      <4>5. [file |-> InHand(r), sum |-> Sha[disk[InHand(r)]]] \in Doc
        BY <4>3, <4>4 DEF Doc
      <4>6. i # Len(docs) + 1
        BY <1>f, <1>l, <4>1, <4>2, <4>5
      <4> QED  BY <1>a, <4>2, <4>5, <4>6
    <3> QED  BY <3>1, <3>2
  <2> QED  BY <1>1, <1>2, <1>8, <1>n, <2>1
<1> QED  BY <1>1, <1>3, <1>4, <1>5, <1>6, <1>7, <1>8, LoudMoves

LEMMA MovesKeepApart ==
  ASSUME IInv, ApartInv, NEW r \in Runs, Moves(r)
  PROVE  ApartInv'
<1>0. TypeOK
  BY DEF IInv
<1> SUFFICES ASSUME Apart'
             PROVE  /\ Alone' /\ Distinct(docs)'
                    /\ \A q \in Runs : Watched(q)'
                    /\ Checksums' /\ Matching'
  BY DEF ApartInv
<1>1. Apart
  BY <1>0, StepIsLocal DEF Moves, dirVars, Apart
<1>2. /\ Alone /\ Distinct(docs) /\ Watched(r)
      /\ \A q \in Runs : Watched(q)
  BY <1>1 DEF ApartInv
<1>3. /\ \A q \in Runs \ {r} : ~Active(q)'
      /\ Alone'
  BY <1>0, <1>1, <1>2, OthersIdle
<1>4. Watched(r)'
  BY <1>2, SnapshotStep, RunStep, UndoStep, EffectsStep DEF Watched
<1>5. \A q \in Runs \ {r} : Watched(q)'
  BY <1>3 DEF Active, Working, Watched, SnapshotOf, YetToRun, YetToUndo,
     EffectsOf, Applying, Undoing
<1> QED
  BY <1>1, <1>2, <1>3, <1>4, <1>5, DocsStep, ChecksumsStep, MatchingStep

(* The developer's changes at most add to the files that were moved and to *)
(* the contents that were replaced.                                        *)
LEMMA EditKeepsApart ==
  ASSUME IInv, ApartInv, Edit
  PROVE  ApartInv'
<1>0. TypeOK
  BY DEF IInv
<1>1. UNCHANGED <<policy, docs, pc, mem, ran, cut, excused>>
  BY DEF Edit, dbVars, history
<1>2. \A f \in Files : past[f] \subseteq past'[f]
                       /\ {disk[f]} \cup past[f] \subseteq {disk'[f]} \cup past'[f]
  <2>1. PICK f \in Files, c \in Contents \cup {NoFile} :
          /\ disk' = [disk EXCEPT ![f] = c]
          /\ past' = [past EXCEPT ![f] = @ \cup {disk[f]}]
    BY DEF Edit
  <2> QED  BY <1>0, <2>1 DEF TypeOK
<1>3. Moved \subseteq Moved'
  BY <1>2 DEF Moved
<1>4. \A f : /\ Settled(f)' <=> Settled(f)
             /\ Recorded(f)' <=> Recorded(f)
             /\ LastOf(docs, f)' = LastOf(docs, f)
  BY <1>1 DEF Settled, Recorded, In, Positions, LastOf, InHand
<1> SUFFICES ASSUME Apart'
             PROVE  /\ Alone' /\ Distinct(docs)'
                    /\ \A r \in Runs : Watched(r)'
                    /\ Checksums' /\ Matching'
  BY DEF ApartInv
<1>5. /\ Alone /\ Distinct(docs) /\ \A r \in Runs : Watched(r)
      /\ Checksums /\ Matching
  BY <1>1 DEF ApartInv, Apart
<1>6. Alone' /\ Distinct(docs)'
  BY <1>1, <1>5 DEF Alone, Active, Distinct
<1>7. ASSUME NEW r \in Runs
      PROVE  Watched(r)'
  <2>1. SnapshotOf(r)'
    BY <1>1, <1>3, <1>5 DEF Watched, SnapshotOf
  <2>2. ASSUME NEW todo, LeftToRun(todo)
        PROVE  LeftToRun(todo)'
    BY <1>3, <1>4, <2>2 DEF LeftToRun
  <2>3. YetToRun(r)'
    <3>1. PICK todo : todo = mem[r].todo
      OBVIOUS
    <3>2. pc[r] \in Applying => LeftToRun(todo)
      BY <1>5, <3>1 DEF Watched, YetToRun
    <3>3. pc[r] = "mark" => ~Recorded(InHand(r))'
      <4>1. InHand(r)' = InHand(r)
        BY <1>1 DEF InHand
      <4>2. pc[r] = "mark" => ~Recorded(InHand(r))
        BY <1>5 DEF Watched, YetToRun
      <4> QED  BY <1>1, <4>1, <4>2 DEF Recorded, In, Positions
    <3> QED  BY <1>1, <2>2, <3>1, <3>2, <3>3 DEF YetToRun
  <2>4. ASSUME NEW todo, LeftToUndo(todo)
        PROVE  LeftToUndo(todo)'
    <3>1. \A j \in DOMAIN todo : LastOf(docs, todo[j])' = LastOf(docs, todo[j])
      BY <1>1 DEF LastOf, Positions
    <3> QED  BY <1>1, <1>3, <1>4, <2>4, <3>1 DEF LeftToUndo
  <2>5. YetToUndo(r)'
    <3>1. PICK todo : todo = mem[r].todo
      OBVIOUS
    <3>2. pc[r] \in Undoing \/ (pc[r] = "gates" /\ mem[r].cmd = "down") =>
            LeftToUndo(todo)
      BY <1>5, <3>1 DEF Watched, YetToUndo
    <3> QED  BY <1>1, <2>4, <3>1, <3>2 DEF YetToUndo
  <2>6. EffectsOf(r)'
    BY <1>1, <1>5 DEF Watched, EffectsOf, InHand
  <2> QED  BY <2>1, <2>3, <2>5, <2>6 DEF Watched
<1>8. Checksums'
  <2> SUFFICES ASSUME NEW i \in DOMAIN docs, Settled(docs[i].file)
               PROVE  /\ docs[i].sum # NullSum
                      /\ \A c \in Contents : docs[i].sum = Sha[c] =>
                           c \in ran[docs[i].file] \cup past'[docs[i].file]
    BY <1>1, <1>4 DEF Checksums, Settled, InHand
  <2>1. docs[i].file \in Files
    BY ZenonT(60), <1>0, EntryFacts DEF TypeOK, Entered
  <2> QED  BY <1>2, <1>5, <2>1 DEF Checksums
<1>9. Matching'
  BY <1>1, <1>4, <1>5 DEF Matching
<1> QED  BY <1>6, <1>7, <1>8, <1>9

LEMMA NextApart == IInv /\ ApartInv /\ [Next]_vars => ApartInv'
<1> SUFFICES ASSUME IInv, ApartInv, [Next]_vars PROVE ApartInv'
  OBVIOUS
<1>1. CASE UNCHANGED vars
  <2>1. UNCHANGED <<policy, disk, past, docs, pc, mem, ran, cut, excused>>
    BY <1>1 DEF vars, dirVars, dbVars, history
  <2> QED
    BY <2>1 DEF ApartInv, Apart, Alone, Active, Distinct, Watched, SnapshotOf,
       YetToRun, LeftToRun, YetToUndo, LeftToUndo, EffectsOf, Checksums,
       Matching, Settled, Recorded, In, Positions, LastOf, InHand, Moved
<1> QED  BY <1>1, MovesKeepApart, EditKeepsApart, NextCases

LEMMA InitApart == Init => ApartInv
<1> SUFFICES ASSUME Init PROVE ApartInv
  OBVIOUS
<1>1. PICK k \in 0..N, old \in BOOLEAN :
        /\ \A f \in 1..k : disk[f] \in HasUp
        /\ \/ old
              /\ docs = [i \in 1..k |-> [file |-> i, sum |-> NullSum]]
              /\ excused = 1..k
              /\ ran = [f \in Files |-> {}]
           \/ ~old
              /\ docs = [i \in 1..k |-> [file |-> i, sum |-> Sha[disk[i]]]]
              /\ excused = {}
              /\ ran = [f \in Files |-> IF f <= k THEN {disk[f]} ELSE {}]
  BY DEF Init
<1>2. k \in Nat /\ DOMAIN docs = 1..k /\ \A i \in 1..k : docs[i].file = i
  BY <1>1
<1>3. \A f \in Files : Recorded(f) <=> f <= k
  <2>1. \A f \in Files : f \in 1..k <=> f <= k
    BY <1>2, FileFacts DEF Files
  <2>2. \A f : Positions(docs, f) = {i \in 1..k : i = f}
    BY <1>2 DEF Positions
  <2> QED  BY <2>1, <2>2 DEF Recorded, In
<1>4. Alone /\ \A r \in Runs : Watched(r)
  BY DEF Init, Alone, Active, Working, Watched, SnapshotOf, YetToRun,
     YetToUndo, EffectsOf, Applying, Undoing
<1>5. Distinct(docs)
  BY <1>2 DEF Distinct
<1>6. Checksums
  <2> SUFFICES ASSUME NEW i \in 1..k, i \notin excused
               PROVE  /\ docs[i].sum # NullSum
                      /\ \A c \in Contents : docs[i].sum = Sha[c] => c \in ran[i]
    <3>1. \A f : Settled(f) => f \notin excused
      BY DEF Settled
    <3> QED  BY <1>2, <3>1 DEF Checksums
  <2>1. /\ docs[i].sum = Sha[disk[i]] /\ disk[i] \in Contents
        /\ ran = [f \in Files |-> IF f <= k THEN {disk[f]} ELSE {}]
    BY <1>1, ContentAssumption
  <2>2. i \in Files /\ i <= k
    BY <1>1, <1>2, FileFacts DEF Files
  <2> QED  BY <2>1, <2>2, ShaAssumption
<1>7. Matching
  <2> SUFFICES ASSUME NEW f \in Files, f \notin excused
               PROVE  f <= k <=> ran[f] # {}
    BY <1>3 DEF Matching, Settled
  <2>1. f \in 1..k <=> f <= k
    BY <1>2, FileFacts DEF Files
  <2> QED  BY <1>1, <2>1
<1> QED  BY <1>4, <1>5, <1>6, <1>7 DEF ApartInv

LEMMA AlwaysApart == Spec => [](IInv /\ ApartInv)
<1> QED  BY InitIInv, InitApart, NextIInv, NextApart, PTL DEF Spec

(* adapter.up() and adapter.baseline() insert without asking for a unique  *)
(* entry: of runs that do not overlap, whatever fails, crashes or is       *)
(* edited, no file ever has two, so that deleteOne() leaves none.          *)
THEOREM NoFileHasTwoEntries == Spec => []OneEntryPerFile
<1>1. IInv /\ ApartInv => OneEntryPerFile
  BY DEF ApartInv, Distinct, OneEntryPerFile
<1> QED  BY <1>1, AlwaysApart, PTL

(* _applyOne(), _rollbackOne(): the changelog has an entry for exactly the *)
(* files whose up() completed and was not undone, but for those cut off    *)
(* between execution and entry and those an operator has overruled.        *)
THEOREM ChangelogMatchesEffects == Spec => []EntriesMatchEffects
<1>1. IInv /\ ApartInv => EntriesMatchEffects
  BY DEF ApartInv, Matching, EntriesMatchEffects
<1> QED  BY <1>1, AlwaysApart, PTL

(* _loadMigration() reads the text it hashes before the code it runs:      *)
(* whatever the developer does in between, an entry whose checksum agrees  *)
(* with a file that was not taken back to an earlier text is of a file     *)
(* that was executed as it is.                                             *)
THEOREM ChecksumsAreOfWhatRan == Spec => []NoSilentDrift
<1>1. IInv /\ ApartInv => NoSilentDrift
  <2> SUFFICES ASSUME IInv, ApartInv, Apart, NEW f \in Files,
                      Settled(f), Recorded(f),
                      disk[f] \notin {NoFile} \cup past[f],
                      SumOf(docs, f) = Sha[disk[f]]
               PROVE  disk[f] \in ran[f]
    BY DEF NoSilentDrift
  <2>1. /\ docs \in Seq(Doc) /\ disk[f] \in Contents
    BY DEF IInv, TypeOK
  <2>2. LastOf(docs, f) \in DOMAIN docs /\ docs[LastOf(docs, f)].file = f
    BY <2>1, EntryFacts DEF Recorded
  <2>3. Checksums
    BY DEF ApartInv
  <2> QED  BY <2>1, <2>2, <2>3 DEF Checksums, SumOf
<1> QED  BY <1>1, AlwaysApart, PTL

(* adapter.up(): a file is executed only when every file before it that    *)
(* was there all the time has an entry.                                    *)
THEOREM FilesRunInOrder == Spec => []UpInOrder
<1>1. IInv /\ ApartInv => UpInOrder
  <2> SUFFICES ASSUME IInv, ApartInv, Apart, NEW r \in Runs, pc[r] = "exec",
                      NEW f \in Files \ Moved, f < InHand(r), ~Recorded(f)
               PROVE  FALSE
    BY DEF UpInOrder
  <2>1. Watched(r) /\ LeftToRun(mem[r].todo)
    BY DEF ApartInv, Watched, YetToRun, Applying
  <2>2. /\ InHand(r) = mem[r].todo[1] /\ mem[r].todo \in Seq(Files)
        /\ Len(mem[r].todo) \in Nat \ {0} /\ InHand(r) \in Files
    BY <2>1, HandFacts DEF Handling, Applying
  <2>3. PICK i \in DOMAIN mem[r].todo : mem[r].todo[i] = f
    BY <2>1 DEF LeftToRun
  <2>4. i \in 1..Len(mem[r].todo) /\ 1 \in DOMAIN mem[r].todo
    BY <2>2
  <2>5. f \in Nat /\ InHand(r) \in Nat
    BY <2>2, FileFacts
  <2>6. i # 1
    BY <2>2, <2>3, <2>5
  <2>7. mem[r].todo[1] < mem[r].todo[i]
    BY <2>1, <2>2, <2>3, <2>4, <2>6 DEF LeftToRun
  <2> QED  BY <2>2, <2>3, <2>5, <2>7
<1> QED  BY <1>1, AlwaysApart, PTL

(* rollbackPlan() and adapter.down(): what is undone next is the entry     *)
(* made last, of the files that were there all the time.                   *)
THEOREM NewestGoesFirst == Spec => []RollsBackNewest
<1>1. IInv /\ ApartInv => RollsBackNewest
  <2> SUFFICES ASSUME IInv, ApartInv, Apart, NEW r \in Runs,
                      pc[r] = "undoExec", NEW i \in DOMAIN docs,
                      i > LastOf(docs, InHand(r))
               PROVE  docs[i].file \in Moved
    BY DEF RollsBackNewest
  <2>1. Watched(r) /\ LeftToUndo(mem[r].todo)
    BY DEF ApartInv, Watched, YetToUndo, Undoing
  <2>2. /\ InHand(r) = mem[r].todo[1] /\ mem[r].todo \in Seq(Files)
        /\ Len(mem[r].todo) \in Nat \ {0}
    BY <2>1, HandFacts DEF Handling, Undoing
  <2>3. 1 \in DOMAIN mem[r].todo
    BY <2>2
  <2>4. docs[i].file \in Moved \cup {mem[r].todo[k] : k \in 1..1 - 1}
    BY <2>1, <2>2, <2>3 DEF LeftToUndo
  <2> QED  BY <2>4
<1> QED  BY <1>1, AlwaysApart, PTL
=============================================================================
