----------------------------- MODULE EvalMerge -----------------------------
(***************************************************************************)
(* The evaluation half of evaluate/generate_evaluate.py (main, from        *)
(* "if args.evaluate"): the problems that are not in the eval_all file yet *)
(* are graded, their metrics are merged with those of the eval file, and   *)
(* the two files are written one after the other.                          *)
(*                                                                         *)
(*   archive  ..._eval_all.jsonl, one entry per graded problem             *)
(*   summary  ..._eval.jsonl, one line: [metrics, results, metadata, safe] *)
(*   mem      what the run holds between reading the two and writing them  *)
(*                                                                         *)
(* Numeric metrics are means over problems; one of them is kept, as an     *)
(* exact fraction <<num, den>>.  Every problem has samples when it gets    *)
(* here (SampleStore!EvaluatesWhole), so no metric is NaN.  The problems   *)
(* of a run vary: the dataset is loaded from the hub or from a local copy, *)
(* and is sliced by hand.                                                  *)
(***************************************************************************)
EXTENDS Integers, FiniteSets, Sequences, SequencesExt,
        FiniteSetTheorems, SequenceTheorems, WellFoundedInduction, TLAPS

CONSTANTS
  Problems,   \* question ids, numbered in the order the benchmark sorts them
  Scores,     \* what grading can make of a problem
  MaxRuns,    \* bound: how often an evaluation is started
  NoFile,     \* the file does not exist
  Emptied,    \* the file was truncated and nothing was written yet
  Torn,       \* the file holds a part of its line
  NoMetrics   \* the line "{}"

ASSUME ProblemsAssumption == Problems \subseteq Nat /\ IsFiniteSet(Problems)
ASSUME ScoresAssumption == Scores \subseteq Nat
ASSUME RunsAssumption == MaxRuns \in Nat
ASSUME FilesAssumption ==
  /\ NoFile \notin Seq([prob : Problems, score : Scores])
  /\ Cardinality({NoFile, Emptied, Torn, NoMetrics}) = 4

VARIABLES pc, summary, archive, mem, runs

vars == <<pc, summary, archive, mem, runs>>

Entry == [prob : Problems, score : Scores]
Metrics == [mean : Nat \X (Nat \ {0}), detail : Seq(Entry), meta : Seq(Problems)]

Entries(f) == IF f = NoFile THEN <<>> ELSE f
Ids(s) == [i \in DOMAIN s |-> s[i].prob]

\* Mutation: the ids of the file never equal those of the benchmark.
EvaluatedUnknown(s) == {}

\* The problems that have an entry
Evaluated(s) == {s[i].prob : i \in DOMAIN s}

\* What the problems up to each one score together.
Sums(s) ==
  LET sum[n \in 1..Len(s)] == IF n = 1 THEN s[1].score ELSE sum[n - 1] + s[n].score
  IN  sum
Total(s) == IF s = <<>> THEN 0 ELSE Sums(s)[Len(s)]

\* A mean over the graded problems, as a fraction.
Mean(s) == <<Total(s), Len(s)>>
SameRatio(a, b) == a[1] * b[2] = b[1] * a[2]

\* Mutation: the two means are averaged without their sizes.
PlainMean(m, x, n, y) == <<x[1] * y[2] + y[1] * x[2], 2 * x[2] * y[2]>>

\* (old_eval_size * old_v + new_eval_size * new_v) / (old + new sizes)
WeightedMean(m, x, n, y) ==
  <<m * x[1] * y[2] + n * y[1] * x[2], (m + n) * x[2] * y[2]>>

\* {**new, **old}: the new keys are the numbers 0, 1, ... and the old ones,
\* which come from JSON, their decimal strings; written and read back, the
\* second of two equal keys is the one that stays.
MergeByIndex(old, new) ==
  [i \in 1..(IF Len(old) > Len(new) THEN Len(old) ELSE Len(new)) |->
     IF i <= Len(old) THEN old[i] ELSE new[i]]

\* Mutation: the list of verdicts is in the place of the metadata list.
FreshShifted(batch) ==
  [mean |-> Mean(batch), detail |-> batch,
   meta |-> [i \in DOMAIN batch |-> batch[i].score]]

\* codegen_metrics over a batch
Fresh(batch) == [mean |-> Mean(batch), detail |-> batch, meta |-> Ids(batch)]

\* Mutation: the metadata of the batch takes the place of the old one.
MergedForgetful(oldSize, old, batch) ==
  [mean   |-> WeightedMean(oldSize, old.mean, Len(batch), Mean(batch)),
   detail |-> MergeByIndex(old.detail, batch),
   meta   |-> Ids(batch)]

Merged(oldSize, old, batch) ==
  [mean   |-> WeightedMean(oldSize, old.mean, Len(batch), Mean(batch)),
   detail |-> MergeByIndex(old.detail, batch),
   meta   |-> old.meta \o Ids(batch)]

Usable(f) == f \notin {NoFile, Emptied, Torn, NoMetrics}

\* A set of problems as a list, in the order of the benchmark.
InOrder(S) ==
  {q \in [1..Cardinality(S) -> S] : \A i, j \in DOMAIN q : i < j => q[i] < q[j]}

-----------------------------------------------------------------------------
Nothing == [old |-> <<>>, batch |-> <<>>, metrics |-> NoMetrics]

Init ==
  /\ pc = "idle"
  /\ summary = NoFile /\ archive = NoFile
  /\ mem = Nothing
  /\ runs = 0

(* Read both files, grade what is left of the benchmark and merge.  Without *)
(* an eval_all file everything is graded and the eval file is not read; a   *)
(* torn line in it is a JSON error, an unreadable one leaves no metrics.    *)
(* With nothing left to grade main() returns, and nothing changes.          *)
Evaluate(bench, todo, score) ==
  LET batch == [i \in DOMAIN todo |->
                  [prob |-> todo[i], score |-> score[todo[i]]]]
  IN  /\ pc = "idle" /\ runs < MaxRuns
      /\ todo # <<>>
      /\ archive # NoFile => summary # Torn
      /\ runs' = runs + 1
      /\ pc' = "open"
      /\ mem' = [old     |-> Entries(archive),
                 batch   |-> batch,
                 metrics |-> IF archive = NoFile THEN Fresh(batch)
                             ELSE IF Usable(summary)
                             THEN Merged(Len(archive), summary, batch)
                             ELSE NoMetrics]
      /\ UNCHANGED <<summary, archive>>

\* open(eval_file, "w") truncates it in place ...
OpenSummary ==
  /\ pc = "open"
  /\ summary' = Emptied /\ pc' = "write"
  /\ UNCHANGED <<archive, mem, runs>>

\* ... the line goes out in pieces ...
WriteSummaryPart ==
  /\ pc = "write" /\ summary = Emptied
  /\ summary' = Torn
  /\ UNCHANGED <<pc, archive, mem, runs>>

\* ... and is complete when the file is closed.
WriteSummary ==
  /\ pc = "write"
  /\ summary' = mem.metrics /\ pc' = "save"
  /\ UNCHANGED <<archive, mem, runs>>

\* Mutation: only the entries of this run are saved.
SaveBatchOnly ==
  /\ pc = "save"
  /\ archive' = mem.batch
  /\ pc' = "idle" /\ mem' = Nothing
  /\ UNCHANGED <<summary, runs>>

\* The old entries and the new ones, by write-then-rename.
SaveArchive ==
  /\ pc = "save"
  /\ archive' = mem.old \o mem.batch
  /\ pc' = "idle" /\ mem' = Nothing
  /\ UNCHANGED <<summary, runs>>

Crash ==
  /\ pc # "idle"
  /\ pc' = "idle" /\ mem' = Nothing
  /\ UNCHANGED <<summary, archive, runs>>

Next ==
  \/ \E bench \in SUBSET Problems, score \in [Problems -> Scores] :
       \E todo \in InOrder(bench \ Evaluated(Entries(archive))) :
         Evaluate(bench, todo, score)
  \/ OpenSummary \/ WriteSummaryPart \/ WriteSummary \/ SaveArchive \/ Crash

Spec == Init /\ [][Next]_vars

-----------------------------------------------------------------------------
TypeOK ==
  /\ pc \in {"idle", "open", "write", "save"}
  /\ archive = NoFile \/ archive \in Seq(Entry)
  /\ Usable(summary) => summary \in Metrics
  /\ mem.old \in Seq(Entry) /\ mem.batch \in Seq(Entry)
  /\ runs \in Nat

(* No problem is graded twice: an entry of the eval_all file is the only   *)
(* one of its problem, whatever benchmarks were run and whichever runs     *)
(* died (lines 241-250).                                                   *)
GradedOnce ==
  archive # NoFile =>
    \A i, j \in DOMAIN archive : archive[i].prob = archive[j].prob => i = j

(* What was graded stays as it was graded, in its place (lines 321-326).   *)
ArchiveGrows ==
  [][archive # NoFile => archive' # NoFile /\ IsPrefix(archive, archive')]_vars

(* The eval file speaks of at least the problems that the eval_all file    *)
(* holds, and of exactly these, in their order, where it speaks of no more *)
(* (it does after a run that died between the two writes: the same         *)
(* problems are then graded and weighed in once more, lines 241-326).      *)
NamesAgree ==
  (archive # NoFile /\ Usable(summary)) =>
    /\ Len(summary.meta) >= Len(archive)
    /\ Len(summary.meta) = Len(archive) => summary.meta = Ids(archive)

(* Its mean is then that of the entries of the eval_all file, however many *)
(* merges it went through (lines 274-281).                                 *)
MeanAgrees ==
  (archive # NoFile /\ Usable(summary) /\ Len(summary.meta) = Len(archive))
    => SameRatio(summary.mean, Mean(archive))

(* generate_evaluate.py:282 says that the per-problem details are merged:  *)
(* the merged detail has an entry for every problem that was evaluated.    *)
(* Equal indices of the two batches collapse instead.                      *)
DetailsMerged ==
  (pc = "idle" /\ archive # NoFile /\ Usable(summary)) =>
    Evaluated(archive) \subseteq Evaluated(summary.detail)

\* README.md:144 "Just re-run the same `generate_evaluate` command": the next run
\* can read what an interrupted one has left.  Not when the interruption falls
\* into the line of the eval file, which is written in place.
ReRunReads == (pc = "idle" /\ archive # NoFile) => summary # Torn
-----------------------------------------------------------------------------
(***************************************************************************)
(* The proofs, for every finite set of problems, any scores,               *)
(* and any number of evaluations and crashes.                              *)
(*                                                                         *)
(* That a problem is graded once rests on what a run holds in its memory:  *)
(* the entries it has read are still those of the file when it writes, and *)
(* its batch names other problems, each once.  That the two files agree    *)
(* on the names rests on what is about to be written into the first; that  *)
(* they agree on the mean, on sums of joined lists.                        *)
(***************************************************************************)
Distinct(s) == \A i, j \in DOMAIN s : s[i].prob = s[j].prob => i = j

\* Metrics of as many problems have their mean.
Agrees(m, s) ==
  Usable(m) /\ Len(m.meta) = Len(s) => SameRatio(m.mean, Mean(s))

\* The metrics m speak of the problems of s, and maybe of more.
Names(m, s) ==
  Usable(m) =>
    /\ m.meta \in Seq(Problems)
    /\ Len(m.meta) >= Len(s)
    /\ Len(m.meta) = Len(s) => m.meta = Ids(s)

Typed ==
  /\ pc \in {"idle", "open", "write", "save"}
  /\ archive = NoFile \/ archive \in Seq(Entry)
  /\ mem.old \in Seq(Entry) /\ mem.batch \in Seq(Entry)
  /\ Usable(summary) => summary \in Metrics
  /\ Usable(mem.metrics) => mem.metrics \in Metrics
  /\ runs \in Nat

\* What a run holds: what it has read, and a batch that goes with it.
Held ==
  pc # "idle" =>
    /\ mem.old = Entries(archive)
    /\ mem.batch # <<>>
    /\ Distinct(mem.old \o mem.batch)
    /\ Names(mem.metrics, mem.old \o mem.batch)
    /\ Agrees(mem.metrics, mem.old \o mem.batch)

Written ==
  /\ archive # NoFile =>
       Distinct(archive) /\ Names(summary, archive) /\ Agrees(summary, archive)
  /\ pc = "save" => summary = mem.metrics

IndInv == Typed /\ Held /\ Written

-----------------------------------------------------------------------------
(* Facts about lists of entries. *)

\* What is read from the eval_all file.
LEMMA EntriesType ==
  ASSUME NEW f, f = NoFile \/ f \in Seq(Entry)
  PROVE  Entries(f) \in Seq(Entry)
BY DEF Entries

\* The names of two lists that are joined.
LEMMA IdsJoin ==
  ASSUME NEW s \in Seq(Entry), NEW t \in Seq(Entry)
  PROVE  /\ Ids(s) \in Seq(Problems) /\ Len(Ids(s)) = Len(s)
         /\ Ids(s \o t) = Ids(s) \o Ids(t)
<1>1. ASSUME NEW u \in Seq(Entry)
      PROVE  Ids(u) \in Seq(Problems) /\ Len(Ids(u)) = Len(u)
             /\ \A i \in 1..Len(u) : Ids(u)[i] = u[i].prob
  <2>1. \A i \in 1..Len(u) : u[i] \in Entry
    OBVIOUS
  <2>2. \A i \in 1..Len(u) : u[i].prob \in Problems
    BY <2>1 DEF Entry
  <2>3. DOMAIN u = 1..Len(u) /\ Len(u) \in Nat
    OBVIOUS
  <2>. QED
    BY <2>2, <2>3 DEF Ids
<1>2. s \o t \in Seq(Entry)
  OBVIOUS
<1>3. /\ Ids(s) \in Seq(Problems) /\ Len(Ids(s)) = Len(s)
      /\ \A i \in 1..Len(s) : Ids(s)[i] = s[i].prob
  BY <1>1
<1>4. /\ Ids(t) \in Seq(Problems) /\ Len(Ids(t)) = Len(t)
      /\ \A i \in 1..Len(t) : Ids(t)[i] = t[i].prob
  BY <1>1
<1>5. /\ Ids(s \o t) \in Seq(Problems) /\ Len(Ids(s \o t)) = Len(s \o t)
      /\ \A i \in 1..Len(s \o t) : Ids(s \o t)[i] = (s \o t)[i].prob
  BY <1>1, <1>2
<1>6. /\ Len(s \o t) = Len(s) + Len(t)
      /\ \A i \in 1..Len(s) + Len(t) :
           (s \o t)[i] = IF i <= Len(s) THEN s[i] ELSE t[i - Len(s)]
  OBVIOUS
<1>7. /\ Len(Ids(s) \o Ids(t)) = Len(s) + Len(t)
      /\ \A i \in 1..Len(s) + Len(t) :
           (Ids(s) \o Ids(t))[i] =
             IF i <= Len(s) THEN Ids(s)[i] ELSE Ids(t)[i - Len(s)]
  <2>1. \A a, b \in Seq(Problems) :
          /\ Len(a \o b) = Len(a) + Len(b)
          /\ \A i \in 1..Len(a) + Len(b) :
               (a \o b)[i] = IF i <= Len(a) THEN a[i] ELSE b[i - Len(a)]
    OBVIOUS
  <2>2. /\ Len(Ids(s) \o Ids(t)) = Len(Ids(s)) + Len(Ids(t))
        /\ \A i \in 1..Len(Ids(s)) + Len(Ids(t)) :
             (Ids(s) \o Ids(t))[i] =
               IF i <= Len(Ids(s)) THEN Ids(s)[i] ELSE Ids(t)[i - Len(Ids(s))]
    BY <1>3, <1>4, <2>1, Zenon
  <2>. QED
    BY <1>3, <1>4, <2>2, Zenon
<1>8. \A i \in 1..Len(s) + Len(t) : Ids(s \o t)[i] = (Ids(s) \o Ids(t))[i]
  <2>1. TAKE i \in 1..Len(s) + Len(t)
  <2>2. Len(s) \in Nat /\ Len(t) \in Nat /\ i \in Nat
    OBVIOUS
  <2>3. CASE i <= Len(s)
    <3>1. i \in 1..Len(s)
      BY <2>2, <2>3
    <3>. QED
      BY <2>3, <3>1, <1>3, <1>5, <1>6, <1>7
  <2>4. CASE i > Len(s)
    <3>1. i - Len(s) \in 1..Len(t)
      BY <2>2, <2>4
    <3>. QED
      BY <2>2, <2>4, <3>1, <1>4, <1>5, <1>6, <1>7
  <2>5. i <= Len(s) \/ i > Len(s)
    BY <2>2
  <2>. QED
    BY <2>3, <2>4, <2>5, Zenon
<1>9. Ids(s) \o Ids(t) \in Seq(Problems)
  BY <1>3, <1>4
<1>. QED
  BY <1>3, <1>5, <1>6, <1>7, <1>8, <1>9, SeqEqual

\* A batch of other problems, each of them once, can be appended.
LEMMA DistinctJoin ==
  ASSUME NEW s \in Seq(Entry), NEW t \in Seq(Entry),
         Distinct(s), Distinct(t),
         \A i \in 1..Len(t) : t[i].prob \notin Evaluated(s)
  PROVE  Distinct(s \o t)
<1>1. /\ Len(s \o t) = Len(s) + Len(t)
      /\ DOMAIN (s \o t) = 1..Len(s) + Len(t)
      /\ \A i \in 1..Len(s) + Len(t) :
           (s \o t)[i] = IF i <= Len(s) THEN s[i] ELSE t[i - Len(s)]
  OBVIOUS
<1>2. /\ DOMAIN s = 1..Len(s) /\ DOMAIN t = 1..Len(t)
      /\ Len(s) \in Nat /\ Len(t) \in Nat
  OBVIOUS
<1>3. \A i \in 1..Len(s), j \in 1..Len(t) : s[i].prob # t[j].prob
  BY <1>2 DEF Evaluated
<1>4. SUFFICES ASSUME NEW i \in 1..Len(s) + Len(t), NEW j \in 1..Len(s) + Len(t),
                      (s \o t)[i].prob = (s \o t)[j].prob
               PROVE  i = j
  BY <1>1 DEF Distinct
<1>5. CASE i <= Len(s) /\ j <= Len(s)
  BY <1>1, <1>2, <1>4, <1>5 DEF Distinct
<1>6. CASE i > Len(s) /\ j > Len(s)
  <2>1. i - Len(s) \in 1..Len(t) /\ j - Len(s) \in 1..Len(t)
    BY <1>2, <1>6
  <2>2. t[i - Len(s)].prob = t[j - Len(s)].prob
    BY <1>1, <1>2, <1>4, <1>6
  <2>3. i - Len(s) = j - Len(s)
    BY <1>2, <2>1, <2>2 DEF Distinct
  <2>. QED
    BY <1>2, <2>3
<1>7. CASE i <= Len(s) /\ j > Len(s)
  <2>1. i \in 1..Len(s) /\ j - Len(s) \in 1..Len(t)
    BY <1>2, <1>7
  <2>2. (s \o t)[i] = s[i] /\ (s \o t)[j] = t[j - Len(s)]
    BY <1>1, <1>2, <1>7
  <2>. QED
    BY <1>3, <1>4, <2>1, <2>2
<1>8. CASE i > Len(s) /\ j <= Len(s)
  <2>1. j \in 1..Len(s) /\ i - Len(s) \in 1..Len(t)
    BY <1>2, <1>8
  <2>2. (s \o t)[j] = s[j] /\ (s \o t)[i] = t[i - Len(s)]
    BY <1>1, <1>2, <1>8
  <2>. QED
    BY <1>3, <1>4, <2>1, <2>2
<1>. QED
  BY <1>2, <1>5, <1>6, <1>7, <1>8

\* The file that is written begins with the file that was read.
LEMMA PrefixOfJoin ==
  ASSUME NEW s \in Seq(Entry), NEW t \in Seq(Entry)
  PROVE  IsPrefix(s, s \o t)
<1>1. s \o t \in Seq(Entry) /\ Len(s \o t) = Len(s) + Len(t)
      /\ Len(s) \in Nat /\ Len(t) \in Nat
  OBVIOUS
<1>2. \A i \in 1..Len(s) : (s \o t)[i] = s[i]
  OBVIOUS
<1>3. SubSeq(s, 1, Len(s)) = SubSeq(s \o t, 1, Len(s))
  BY <1>1, <1>2
<1>. QED
  BY <1>1, <1>3 DEF IsPrefix

\* A file that is not written has all it had.
LEMMA PrefixOfItself ==
  ASSUME NEW s \in Seq(Entry)
  PROVE  IsPrefix(s, s)
BY DEF IsPrefix

\* Metrics that speak of a longer list speak of more than the shorter one.
LEMMA NamesOfMore ==
  ASSUME NEW m, NEW s \in Seq(Entry), NEW t \in Seq(Entry), t # <<>>,
         Names(m, s \o t)
  PROVE  Names(m, s) /\ Agrees(m, s)
<1>1. Len(s \o t) = Len(s) + Len(t) /\ Len(s) \in Nat /\ Len(t) \in Nat \ {0}
  OBVIOUS
<1>2. SUFFICES ASSUME Usable(m)
               PROVE  m.meta \in Seq(Problems) /\ Len(m.meta) > Len(s)
  <2>1. ASSUME m.meta \in Seq(Problems), Len(m.meta) > Len(s)
        PROVE  Len(m.meta) >= Len(s) /\ Len(m.meta) # Len(s)
    <3>1. Len(m.meta) \in Nat
      BY <2>1
    <3>. QED
      BY <1>1, <2>1, <3>1
  <2>. QED
    BY <1>2, <2>1 DEF Names, Agrees
<1>3. m.meta \in Seq(Problems) /\ Len(m.meta) >= Len(s \o t)
  BY <1>2 DEF Names
<1>4. Len(m.meta) \in Nat
  BY <1>3
<1>. QED
  BY <1>1, <1>3, <1>4

-----------------------------------------------------------------------------
(* Sums of scores.  The sum is a recursive function: that there is one, and *)
(* what it gives for two lists that are joined, is shown of the least       *)
(* number for which it would not be so.                                     *)

\* A set of numbers has a least one.
LEMMA LeastNumber ==
  ASSUME NEW S \in SUBSET Nat, S # {}
  PROVE  \E m \in S : \A x \in S : m <= x
<1>1. PICK m \in S : \A x \in S : ~(<<x, m>> \in OpToRel(<, Nat))
  BY WFMin, NatLessThanWellFounded
<1>2. \A x \in S : m <= x
  <2>. TAKE x \in S
  <2>1. x \in Nat /\ m \in Nat
    OBVIOUS
  <2>2. ~(x < m)
    BY <1>1, <2>1 DEF OpToRel
  <2>. QED
    BY <2>1, <2>2
<1>. QED
  BY <1>2

\* g gives the sums of the first k entries.
Adds(g, s, k) ==
  \A n \in 1..k : g[n] = IF n = 1 THEN s[1].score ELSE g[n - 1] + s[n].score

\* Scores are numbers.
LEMMA ScoresAreNumbers ==
  ASSUME NEW s \in Seq(Entry)
  PROVE  Len(s) \in Nat /\ \A n \in 1..Len(s) : s[n].score \in Nat
<1>1. \A n \in 1..Len(s) : s[n] \in Entry
  OBVIOUS
<1>2. \A e \in Entry : e.score \in Nat
  BY ScoresAssumption DEF Entry
<1>3. Len(s) \in Nat
  OBVIOUS
<1>. QED
  BY <1>1, <1>2, <1>3

\* There are sums of the first entries: take the least number without.
LEMMA SumsExist ==
  ASSUME NEW s \in Seq(Entry), NEW k \in 1..Len(s)
  PROVE  \E g \in [1..k -> Nat] : Adds(g, s, k)
<1>. DEFINE Missing == {n \in 1..Len(s) : ~\E g \in [1..n -> Nat] : Adds(g, s, n)}
<1>1. SUFFICES ASSUME Missing # {} PROVE FALSE
  OBVIOUS
<1>2. Missing \in SUBSET Nat /\ Len(s) \in Nat
  OBVIOUS
<1>3. PICK m \in Missing : \A x \in Missing : m <= x
  BY <1>1, <1>2, LeastNumber
<1>4. m \in 1..Len(s) /\ ~\E g \in [1..m -> Nat] : Adds(g, s, m)
  OBVIOUS
<1>5. m # 1
  <2>1. SUFFICES ASSUME m = 1 PROVE FALSE
    OBVIOUS
  <2>. DEFINE g == [n \in 1..m |-> s[1].score]
  <2>2. g \in [1..m -> Nat] /\ Adds(g, s, m)
    BY <1>4, <2>1, ScoresAreNumbers DEF Adds
  <2>. QED
    BY <1>4, <2>1, <2>2
<1>6. m - 1 \in 1..Len(s) /\ ~(m <= m - 1)
  BY <1>2, <1>4, <1>5
<1>7. PICK g \in [1..(m - 1) -> Nat] : Adds(g, s, m - 1)
  <2>1. m - 1 \notin Missing
    BY <1>3, <1>6, Zenon
  <2>. QED
    BY <1>6, <2>1
<1>. DEFINE h == [n \in 1..m |-> IF n = m THEN g[m - 1] + s[m].score ELSE g[n]]
<1>8. h \in [1..m -> Nat]
  <2>1. \A n \in 1..m : n # m => g[n] \in Nat
    BY <1>4, <1>7
  <2>2. g[m - 1] \in Nat /\ s[m].score \in Nat
    BY <1>4, <1>5, <1>7, ScoresAreNumbers
  <2>. QED
    BY <2>1, <2>2
<1>9. Adds(h, s, m)
  <2>1. SUFFICES ASSUME NEW n \in 1..m
                 PROVE  h[n] = IF n = 1 THEN s[1].score ELSE h[n - 1] + s[n].score
    BY DEF Adds
  <2>2. CASE n = m
    <3>1. n # 1 /\ n - 1 \in 1..m /\ n - 1 # m
      BY <1>4, <1>5, <2>2
    <3>2. h[n] = g[m - 1] + s[m].score /\ h[n - 1] = g[n - 1]
      BY <2>2, <3>1
    <3>. QED
      BY <2>2, <3>1, <3>2
  <2>3. CASE n # m
    <3>1. n \in 1..(m - 1) /\ h[n] = g[n]
      BY <1>4, <2>3
    <3>2. n # 1 => n - 1 \in 1..m /\ n - 1 # m
      BY <1>4, <2>3
    <3>3. n # 1 => h[n - 1] = g[n - 1]
      BY <3>2
    <3>4. g[n] = IF n = 1 THEN s[1].score ELSE g[n - 1] + s[n].score
      BY <1>7, <3>1 DEF Adds
    <3>. QED
      BY <3>1, <3>3, <3>4
  <2>. QED
    BY <2>2, <2>3
<1>. QED
  BY <1>4, <1>8, <1>9

\* There is one function that gives the sums: two have no first difference.
LEMMA SumsAgree ==
  ASSUME NEW s \in Seq(Entry), NEW g, NEW h,
         Adds(g, s, Len(s)), Adds(h, s, Len(s)), NEW k \in 1..Len(s)
  PROVE  g[k] = h[k]
<1>. DEFINE Wrong == {n \in 1..Len(s) : g[n] # h[n]}
<1>1. SUFFICES ASSUME Wrong # {} PROVE FALSE
  OBVIOUS
<1>2. Wrong \in SUBSET Nat /\ Len(s) \in Nat
  OBVIOUS
<1>3. PICK m \in Wrong : \A x \in Wrong : m <= x
  BY <1>1, <1>2, LeastNumber
<1>4. m \in 1..Len(s) /\ g[m] # h[m]
  OBVIOUS
<1>5. /\ g[m] = IF m = 1 THEN s[1].score ELSE g[m - 1] + s[m].score
      /\ h[m] = IF m = 1 THEN s[1].score ELSE h[m - 1] + s[m].score
  BY <1>4 DEF Adds
<1>6. m # 1
  BY <1>4, <1>5
<1>7. m - 1 \in 1..Len(s) /\ ~(m <= m - 1)
  BY <1>2, <1>4, <1>6
<1>8. g[m - 1] = h[m - 1]
  BY <1>3, <1>7, Zenon
<1>. QED
  BY <1>4, <1>5, <1>6, <1>8

\* The sums are what they say.
LEMMA SumsFacts ==
  ASSUME NEW s \in Seq(Entry)
  PROVE  /\ Adds(Sums(s), s, Len(s))
         /\ \A n \in 1..Len(s) : Sums(s)[n] \in Nat
         /\ Total(s) \in Nat
<1>. DEFINE Step(g) ==
       [n \in 1..Len(s) |-> IF n = 1 THEN s[1].score ELSE g[n - 1] + s[n].score]
<1>1. CASE s = <<>>
  BY <1>1 DEF Adds, Total
<1>2. CASE s # <<>>
  <2>1. Len(s) \in 1..Len(s)
    BY <1>2
  <2>2. PICK g \in [1..Len(s) -> Nat] : Adds(g, s, Len(s))
    BY <2>1, SumsExist
  <2>3. g = Step(g)
    BY <2>2 DEF Adds
  <2>4. Sums(s) = CHOOSE f : f = Step(f)
    BY DEF Sums
  <2>5. Sums(s) = Step(Sums(s))
    BY <2>3, <2>4
  <2>6. Adds(Sums(s), s, Len(s))
    BY <2>5 DEF Adds
  <2>7. \A n \in 1..Len(s) : Sums(s)[n] = g[n]
    BY <2>2, <2>6, SumsAgree
  <2>8. \A n \in 1..Len(s) : Sums(s)[n] \in Nat
    BY <2>2, <2>7
  <2>. QED
    BY <1>2, <2>1, <2>6, <2>8 DEF Total
<1>. QED
  BY <1>1, <1>2

\* The scores of two lists that are joined are those of both.
LEMMA TotalOfJoin ==
  ASSUME NEW s \in Seq(Entry), NEW t \in Seq(Entry)
  PROVE  Total(s \o t) = Total(s) + Total(t)
<1>. DEFINE u == s \o t
            S == Sums(u)
<1>1. /\ u \in Seq(Entry) /\ Len(u) = Len(s) + Len(t) /\ Len(s) \in Nat /\ Len(t) \in Nat
      /\ \A n \in 1..Len(s) : u[n] = s[n]
      /\ \A n \in 1..Len(t) : u[Len(s) + n] = t[n]
  OBVIOUS
<1>2. /\ Adds(S, u, Len(u)) /\ \A n \in 1..Len(u) : S[n] \in Nat
  BY <1>1, SumsFacts
<1>. HIDE DEF u, S
\* up to the end of the first list
<1>3. \A n \in 1..Len(s) : S[n] = Sums(s)[n]
  <2>1. Adds(S, s, Len(s))
    <3>1. SUFFICES ASSUME NEW n \in 1..Len(s)
                   PROVE  S[n] = IF n = 1 THEN s[1].score ELSE S[n - 1] + s[n].score
      BY DEF Adds
    <3>2. n \in 1..Len(u) /\ u[n] = s[n] /\ u[1] = s[1]
      BY <1>1
    <3>. QED
      BY <1>2, <3>2 DEF Adds
  <2>. QED
    BY <2>1, SumsFacts, SumsAgree
<1>4. \A n \in 1..Len(t) : S[Len(s) + n] = Total(s) + Sums(t)[n]
  <2>. DEFINE Wrong == {n \in 1..Len(t) : S[Len(s) + n] # Total(s) + Sums(t)[n]}
  <2>1. SUFFICES ASSUME Wrong # {} PROVE FALSE
    OBVIOUS
  <2>2. Wrong \in SUBSET Nat
    BY <1>1
  <2>3. PICK m \in Wrong : \A x \in Wrong : m <= x
    BY <2>1, <2>2, LeastNumber
  <2>4. m \in 1..Len(t) /\ S[Len(s) + m] # Total(s) + Sums(t)[m]
    OBVIOUS
  <2>5. Len(s) + m \in 1..Len(u) /\ u[Len(s) + m] = t[m]
    BY <1>1, <2>4
  <2>6. S[Len(s) + m] = IF Len(s) + m = 1 THEN u[1].score
                        ELSE S[Len(s) + m - 1] + u[Len(s) + m].score
    BY <1>2, <2>5 DEF Adds
  <2>7. Sums(t)[m] = IF m = 1 THEN t[1].score ELSE Sums(t)[m - 1] + t[m].score
    BY <2>4, SumsFacts DEF Adds
  <2>8. t[m].score \in Nat /\ Total(s) \in Nat /\ Sums(t)[m] \in Nat
    BY <2>4, ScoresAreNumbers, SumsFacts
  <2>9. CASE m = 1
    <3>1. CASE s = <<>>
      <4>1. Len(s) = 0 /\ Total(s) = 0
        BY <3>1 DEF Total
      <4>. QED
        BY <4>1, <2>4, <2>5, <2>6, <2>7, <2>8, <2>9
    <3>2. CASE s # <<>>
      <4>1. Len(s) \in 1..Len(s) /\ Len(s) + m # 1 /\ Len(s) + m - 1 = Len(s)
        BY <1>1, <2>9, <3>2
      <4>2. S[Len(s) + m - 1] = Total(s)
        BY <1>3, <3>2, <4>1 DEF Total
      <4>. QED
        BY <4>1, <4>2, <2>4, <2>5, <2>6, <2>7, <2>8, <2>9
    <3>. QED
      BY <3>1, <3>2
  <2>10. CASE m # 1
    <3>1. m - 1 \in 1..Len(t) /\ ~(m <= m - 1)
      BY <1>1, <2>4, <2>10
    <3>2. S[Len(s) + (m - 1)] = Total(s) + Sums(t)[m - 1]
      BY <2>3, <3>1, Zenon
    <3>3. Len(s) + (m - 1) = Len(s) + m - 1 /\ Len(s) + m # 1
      BY <1>1, <2>4, <2>10
    <3>4. Sums(t)[m - 1] \in Nat
      BY <3>1, SumsFacts
    <3>5. S[Len(s) + m] = (Total(s) + Sums(t)[m - 1]) + t[m].score
      BY <2>5, <2>6, <3>2, <3>3
    <3>6. Sums(t)[m] = Sums(t)[m - 1] + t[m].score
      BY <2>7, <2>10
    <3>. QED
      BY <2>4, <2>8, <3>4, <3>5, <3>6
  <2>. QED
    BY <2>9, <2>10
<1>5. CASE t = <<>>
  <2>1. u = s /\ Total(t) = 0
    BY <1>1, <1>5 DEF Total, u
  <2>. QED
    BY <2>1, SumsFacts DEF u
<1>6. CASE t # <<>>
  <2>1. Len(t) \in 1..Len(t) /\ u # <<>>
    BY <1>1, <1>6
  <2>2. Total(u) = S[Len(s) + Len(t)] /\ Total(t) = Sums(t)[Len(t)]
    BY <1>1, <1>6, <2>1 DEF Total, S
  <2>. QED
    BY <1>4, <2>1, <2>2 DEF u
<1>. QED
  BY <1>5, <1>6

-----------------------------------------------------------------------------
(* What an evaluation makes of a benchmark. *)

Batch(todo, score) ==
  [i \in DOMAIN todo |-> [prob |-> todo[i], score |-> score[todo[i]]]]

\* The batch has the problems without an entry, each of them once.
LEMMA BatchFacts ==
  ASSUME NEW s \in Seq(Entry), Distinct(s), NEW bench \in SUBSET Problems,
         NEW score \in [Problems -> Scores],
         NEW todo \in InOrder(bench \ Evaluated(s)), todo # <<>>
  PROVE  /\ Batch(todo, score) \in Seq(Entry) /\ Batch(todo, score) # <<>>
         /\ Distinct(s \o Batch(todo, score))
<1>. DEFINE S == bench \ Evaluated(s)
            b == Batch(todo, score)
<1>1. S \subseteq Problems /\ IsFiniteSet(S) /\ Cardinality(S) \in Nat
  BY ProblemsAssumption, FS_Subset, FS_CardinalityType
<1>2. /\ todo \in [1..Cardinality(S) -> S]
      /\ \A i, j \in 1..Cardinality(S) : i < j => todo[i] < todo[j]
  BY DEF InOrder
<1>3. \A i \in 1..Cardinality(S) : todo[i] \in S /\ todo[i] \in Nat
  BY <1>1, <1>2, ProblemsAssumption
<1>4. /\ DOMAIN b = 1..Cardinality(S)
      /\ \A i \in 1..Cardinality(S) :
           b[i] = [prob |-> todo[i], score |-> score[todo[i]]]
  BY <1>2 DEF Batch
<1>5. b \in [1..Cardinality(S) -> Entry]
  <2>1. \A i \in 1..Cardinality(S) : score[todo[i]] \in Scores
    BY <1>1, <1>3
  <2>2. \A i \in 1..Cardinality(S) :
          [prob |-> todo[i], score |-> score[todo[i]]] \in Entry
    BY <1>1, <1>3, <2>1 DEF Entry
  <2>. QED
    BY <1>2, <2>2 DEF Batch
<1>. HIDE DEF S, b
<1>6. b \in Seq(Entry) /\ Len(b) = Cardinality(S)
  BY <1>1, <1>5
<1>7. b # <<>>
  <2>1. Cardinality(S) # 0
    BY <1>1, <1>2
  <2>. QED
    BY <1>6, <2>1
<1>8. \A i \in 1..Cardinality(S) : b[i].prob = todo[i]
  BY <1>4
<1>9. Distinct(b)
  <2>1. SUFFICES ASSUME NEW i \in 1..Cardinality(S), NEW j \in 1..Cardinality(S),
                        b[i].prob = b[j].prob
                 PROVE  i = j
    BY <1>4 DEF Distinct
  <2>2. todo[i] = todo[j] /\ todo[i] \in Nat
    BY <1>3, <1>8, <2>1
  <2>3. i < j => todo[i] < todo[j]
    BY <1>2
  <2>4. j < i => todo[j] < todo[i]
    BY <1>2
  <2>. QED
    BY <1>1, <2>2, <2>3, <2>4
<1>10. \A i \in 1..Len(b) : b[i].prob \notin Evaluated(s)
  BY <1>3, <1>6, <1>8 DEF S
<1>. QED
  BY <1>6, <1>7, <1>9, <1>10, DistinctJoin DEF b

\* The metrics of the first batch speak of its problems.
LEMMA FreshNames ==
  ASSUME NEW t \in Seq(Entry)
  PROVE  Names(Fresh(t), <<>> \o t)
<1>1. <<>> \o t = t /\ Len(t) \in Nat
  OBVIOUS
<1>2. Ids(t) \in Seq(Problems) /\ Len(Ids(t)) = Len(t)
  BY IdsJoin
<1>3. Fresh(t).meta = Ids(t)
  BY DEF Fresh
<1>. QED
  BY <1>1, <1>2, <1>3 DEF Names

\* Merged metrics speak of the old problems and the new ones.
LEMMA MergedNames ==
  ASSUME NEW s \in Seq(Entry), NEW t \in Seq(Entry), NEW m, NEW n,
         Usable(m), Names(m, s)
  PROVE  Names(Merged(n, m, t), s \o t)
<1>1. /\ Ids(t) \in Seq(Problems) /\ Len(Ids(t)) = Len(t)
      /\ Ids(s \o t) = Ids(s) \o Ids(t)
  BY IdsJoin
<1>2. Merged(n, m, t).meta = m.meta \o Ids(t)
  BY DEF Merged
<1>3. /\ m.meta \in Seq(Problems) /\ Len(m.meta) >= Len(s)
      /\ Len(m.meta) = Len(s) => m.meta = Ids(s)
  BY DEF Names
<1>4. /\ Len(m.meta) \in Nat /\ Len(s) \in Nat /\ Len(t) \in Nat
      /\ Len(s \o t) = Len(s) + Len(t)
  BY <1>3
<1>5. /\ m.meta \o Ids(t) \in Seq(Problems)
      /\ Len(m.meta \o Ids(t)) = Len(m.meta) + Len(t)
  <2>1. \A a, b \in Seq(Problems) :
          a \o b \in Seq(Problems) /\ Len(a \o b) = Len(a) + Len(b)
    OBVIOUS
  <2>2. /\ m.meta \o Ids(t) \in Seq(Problems)
        /\ Len(m.meta \o Ids(t)) = Len(m.meta) + Len(Ids(t))
    BY <1>1, <1>3, <2>1, Zenon
  <2>. QED
    BY <1>1, <2>2, Zenon
<1>6. Len(m.meta \o Ids(t)) >= Len(s \o t)
  BY <1>3, <1>4, <1>5
<1>7. Len(m.meta \o Ids(t)) = Len(s \o t) => Len(m.meta) = Len(s)
  BY <1>4, <1>5
<1>. QED
  BY <1>1, <1>2, <1>3, <1>5, <1>6, <1>7, Zenon DEF Names

-----------------------------------------------------------------------------
(* Means. *)

\* A mean is the sum over the size, a fraction unless there is nothing.
LEMMA MeanFacts ==
  ASSUME NEW s \in Seq(Entry)
  PROVE  /\ Mean(s)[1] = Total(s) /\ Mean(s)[2] = Len(s)
         /\ s # <<>> => Mean(s) \in Nat \X (Nat \ {0})
<1>1. Total(s) \in Nat
  BY SumsFacts
<1>2. s # <<>> => Len(s) \in Nat \ {0}
  OBVIOUS
<1>. QED
  BY <1>1, <1>2 DEF Mean

\* The metrics of a batch are metrics, with its mean.
LEMMA FreshAgrees ==
  ASSUME NEW t \in Seq(Entry), t # <<>>
  PROVE  Fresh(t) \in Metrics /\ Agrees(Fresh(t), <<>> \o t)
<1>1. <<>> \o t = t
  OBVIOUS
<1>2. Mean(t) \in Nat \X (Nat \ {0}) /\ Ids(t) \in Seq(Problems)
  BY MeanFacts, IdsJoin
<1>3. Fresh(t) \in Metrics
  BY <1>2 DEF Fresh, Metrics
<1>4. SameRatio(Fresh(t).mean, Mean(t))
  BY DEF Fresh, SameRatio
<1>. QED
  BY <1>1, <1>3, <1>4 DEF Agrees

\* Merged metrics are metrics, with the mean of the old problems and the new.
LEMMA MergedAgrees ==
  ASSUME NEW s \in Seq(Entry), NEW t \in Seq(Entry), t # <<>>,
         NEW m \in Metrics, Usable(m), Names(m, s), Agrees(m, s)
  PROVE  Merged(Len(s), m, t) \in Metrics /\ Agrees(Merged(Len(s), m, t), s \o t)
<1>. DEFINE M == Merged(Len(s), m, t)
<1>1. /\ Len(s) \in Nat /\ Len(t) \in Nat \ {0} /\ s \o t \in Seq(Entry)
      /\ Len(s \o t) = Len(s) + Len(t)
  OBVIOUS
<1>2. /\ m.mean \in Nat \X (Nat \ {0}) /\ m.detail \in Seq(Entry)
      /\ m.meta \in Seq(Problems)
  BY DEF Metrics
<1>3. m.mean[1] \in Nat /\ m.mean[2] \in Nat \ {0}
  BY <1>2
<1>4. /\ Mean(t)[1] = Total(t) /\ Mean(t)[2] = Len(t)
      /\ Mean(s)[1] = Total(s) /\ Mean(s)[2] = Len(s)
      /\ Mean(s \o t)[1] = Total(s) + Total(t) /\ Mean(s \o t)[2] = Len(s) + Len(t)
  BY <1>1, MeanFacts, TotalOfJoin
<1>5. Total(s) \in Nat /\ Total(t) \in Nat
  BY SumsFacts
<1>6. /\ M.mean = WeightedMean(Len(s), m.mean, Len(t), Mean(t))
      /\ M.detail = MergeByIndex(m.detail, t)
      /\ M.meta = m.meta \o Ids(t)
  BY DEF Merged
<1>. DEFINE a == m.mean[1]
            b == m.mean[2]
<1>7. M.mean = <<Len(s) * a * Len(t) + Len(t) * Total(t) * b, (Len(s) + Len(t)) * b * Len(t)>>
  BY <1>4, <1>6 DEF WeightedMean
<1>. HIDE DEF a, b, M
<1>8. /\ Len(s) * a * Len(t) + Len(t) * Total(t) * b \in Nat
      /\ (Len(s) + Len(t)) * b * Len(t) \in Nat \ {0}
      /\ a * Len(s) = Total(s) * b =>
           (Len(s) * a * Len(t) + Len(t) * Total(t) * b) * (Len(s) + Len(t))
           = (Total(s) + Total(t)) * ((Len(s) + Len(t)) * b * Len(t))
  <2>. DEFINE p == Len(s)
              q == Len(t)
              S == Total(s)
              T == Total(t)
  <2>1. /\ p \in Nat /\ q \in Nat \ {0} /\ a \in Nat /\ b \in Nat \ {0}
        /\ S \in Nat /\ T \in Nat
    BY <1>1, <1>3, <1>5 DEF a, b
  <2>. HIDE DEF p, q, S, T
  <2>2. /\ p * a * q + q * T * b \in Nat
        /\ (p + q) * b * q \in Nat \ {0}
        /\ a * p = S * b =>
             (p * a * q + q * T * b) * (p + q) = (S + T) * ((p + q) * b * q)
    <3>1. p * a * q + q * T * b \in Nat /\ (p + q) * b * q \in Nat \ {0}
      BY ONLY <2>1
    <3>2. ASSUME a * p = S * b
          PROVE  (p * a * q + q * T * b) * (p + q) = (S + T) * ((p + q) * b * q)
      <4>1. p * a * q = S * b * q
        BY ONLY <2>1, <3>2
      <4>2. p * a * q + q * T * b = (S + T) * b * q
        BY ONLY <2>1, <4>1
      <4>3. (p * a * q + q * T * b) * (p + q) = ((S + T) * b * q) * (p + q)
        BY ONLY <4>2
      <4>4. ((S + T) * b * q) * (p + q) = (S + T) * ((p + q) * b * q)
        BY ONLY <2>1
      <4>. QED
        BY ONLY <4>3, <4>4
    <3>. QED
      BY <3>1, <3>2
  <2>. QED
    BY <2>2 DEF p, q, S, T
<1>9. M.mean \in Nat \X (Nat \ {0})
  BY <1>7, <1>8
<1>10. MergeByIndex(m.detail, t) \in Seq(Entry)
  BY <1>2 DEF MergeByIndex
<1>11. Ids(t) \in Seq(Problems) /\ Len(Ids(t)) = Len(t)
  BY IdsJoin
<1>12. m.meta \o Ids(t) \in Seq(Problems) /\ Len(m.meta \o Ids(t)) = Len(m.meta) + Len(t)
  <2>1. \A x, y \in Seq(Problems) : x \o y \in Seq(Problems) /\ Len(x \o y) = Len(x) + Len(y)
    OBVIOUS
  <2>. QED
    BY <1>2, <1>11, <2>1, Zenon
<1>13. M \in Metrics
  BY <1>6, <1>9, <1>10, <1>12 DEF M, Merged, Metrics
<1>14. ASSUME Len(M.meta) = Len(s \o t)
       PROVE  SameRatio(M.mean, Mean(s \o t))
  <2>1. Len(m.meta) = Len(s)
    <3>1. Len(m.meta) \in Nat
      BY <1>2
    <3>2. Len(m.meta) + Len(t) = Len(s) + Len(t)
      BY <1>1, <1>6, <1>12, <1>14
    <3>. QED
      BY <1>1, <3>1, <3>2
  <2>2. a * Len(s) = Total(s) * b
    BY <2>1, <1>4 DEF Agrees, SameRatio, a, b
  <2>. QED
    BY <2>2, <1>4, <1>7, <1>8 DEF SameRatio
<1>. QED
  BY <1>13, <1>14 DEF Agrees, M

-----------------------------------------------------------------------------
(* The invariant. *)

\* Without files there is nothing to contradict.
LEMMA InitInv == Init => IndInv
<1>1. <<>> \in Seq(Entry)
  OBVIOUS
<1>. QED
  BY <1>1 DEF Init, Nothing, IndInv, Typed, Held, Written, Usable

\* A run that begins: what it holds goes with what it has read.
LEMMA EvaluateInv ==
  ASSUME IndInv, NEW bench \in SUBSET Problems,
         NEW score \in [Problems -> Scores],
         NEW todo \in InOrder(bench \ Evaluated(Entries(archive))),
         Evaluate(bench, todo, score)
  PROVE  IndInv'
<1>. DEFINE s == Entries(archive)
            b == Batch(todo, score)
<1>1. /\ pc = "idle" /\ pc' = "open" /\ todo # <<>> /\ runs' = runs + 1
      /\ archive' = archive /\ summary' = summary
      /\ mem'.old = s /\ mem'.batch = b
      /\ mem'.metrics = IF archive = NoFile THEN Fresh(b)
                         ELSE IF Usable(summary)
                         THEN Merged(Len(archive), summary, b) ELSE NoMetrics
  BY DEF Evaluate, Batch
<1>2. s \in Seq(Entry)
  BY EntriesType DEF IndInv, Typed
<1>3. Distinct(s)
  BY DEF Entries, IndInv, Written, Distinct
<1>4. b \in Seq(Entry) /\ b # <<>> /\ Distinct(s \o b)
  BY <1>1, <1>2, <1>3, BatchFacts
<1>. HIDE DEF b
<1>5. /\ Names(mem'.metrics, s \o b) /\ Agrees(mem'.metrics, s \o b)
      /\ Usable(mem'.metrics) => mem'.metrics \in Metrics
  <2>1. CASE archive = NoFile
    BY <1>1, <1>4, <2>1, FreshNames, FreshAgrees DEF Entries
  <2>2. CASE archive # NoFile /\ Usable(summary)
    <3>1. s = archive /\ Names(summary, s) /\ Agrees(summary, s) /\ summary \in Metrics
      BY <2>2 DEF Entries, IndInv, Written, Typed
    <3>2. Names(Merged(Len(archive), summary, b), s \o b)
      BY <1>2, <1>4, <2>2, <3>1, MergedNames
    <3>3. /\ Merged(Len(archive), summary, b) \in Metrics
          /\ Agrees(Merged(Len(archive), summary, b), s \o b)
      BY <1>2, <1>4, <2>2, <3>1, MergedAgrees
    <3>. QED
      BY <1>1, <2>2, <3>2, <3>3
  <2>3. CASE archive # NoFile /\ ~Usable(summary)
    BY <1>1, <2>3 DEF Names, Agrees, Usable
  <2>. QED
    BY <2>1, <2>2, <2>3
<1>6. Entries(archive') = s
  BY <1>1
<1>7. Typed'
  BY <1>1, <1>2, <1>4, <1>5 DEF IndInv, Typed
<1>8. Held'
  BY <1>1, <1>4, <1>5, <1>6 DEF Held
<1>9. Written'
  BY <1>1 DEF IndInv, Written
<1>. QED
  BY <1>7, <1>8, <1>9 DEF IndInv

\* The eval file is replaced by metrics that speak of the eval_all file too.
LEMMA WriteInv ==
  ASSUME IndInv, WriteSummary
  PROVE  IndInv'
<1>1. /\ pc = "write" /\ pc' = "save" /\ summary' = mem.metrics
      /\ archive' = archive /\ mem' = mem /\ runs' = runs
  BY DEF WriteSummary
<1>2. /\ mem.old = Entries(archive) /\ mem.batch # <<>>
      /\ Names(mem.metrics, mem.old \o mem.batch)
      /\ mem.old \in Seq(Entry) /\ mem.batch \in Seq(Entry)
  BY <1>1 DEF IndInv, Held, Typed
<1>3. Names(mem.metrics, mem.old) /\ Agrees(mem.metrics, mem.old)
  BY <1>2, NamesOfMore
<1>4. archive # NoFile => Names(mem.metrics, archive) /\ Agrees(mem.metrics, archive)
  BY <1>2, <1>3 DEF Entries
<1>5. Typed'
  BY <1>1 DEF IndInv, Typed
<1>6. Held'
  BY <1>1 DEF IndInv, Held
<1>7. Written'
  BY <1>1, <1>4 DEF IndInv, Written
<1>. QED
  BY <1>5, <1>6, <1>7 DEF IndInv

\* The old entries and the new ones: the two files speak of the same problems.
LEMMA SaveInv ==
  ASSUME IndInv, SaveArchive
  PROVE  IndInv'
<1>1. /\ pc = "save" /\ pc' = "idle" /\ summary' = summary /\ runs' = runs
      /\ archive' = mem.old \o mem.batch /\ mem' = Nothing
  BY DEF SaveArchive
<1>2. /\ Distinct(mem.old \o mem.batch)
      /\ Names(mem.metrics, mem.old \o mem.batch)
      /\ Agrees(mem.metrics, mem.old \o mem.batch)
      /\ summary = mem.metrics
      /\ mem.old \in Seq(Entry) /\ mem.batch \in Seq(Entry)
  BY <1>1 DEF IndInv, Held, Typed, Written
<1>3. archive' \in Seq(Entry) /\ <<>> \in Seq(Entry)
  BY <1>1, <1>2
<1>4. Typed'
  BY <1>1, <1>3 DEF IndInv, Typed, Nothing, Usable
<1>5. Held'
  BY <1>1 DEF Held
<1>6. Written'
  BY <1>1, <1>2 DEF Written
<1>. QED
  BY <1>4, <1>5, <1>6 DEF IndInv

\* Every step keeps the invariant.
LEMMA NextInv == IndInv /\ [Next]_vars => IndInv'
<1>. SUFFICES ASSUME IndInv, [Next]_vars
              PROVE  IndInv'
  OBVIOUS
<1>1. ASSUME NEW bench \in SUBSET Problems, NEW score \in [Problems -> Scores],
             NEW todo \in InOrder(bench \ Evaluated(Entries(archive))),
             Evaluate(bench, todo, score)
      PROVE  IndInv'
  BY <1>1, EvaluateInv
<1>2. CASE OpenSummary
  <2>1. Names(summary', archive) /\ Agrees(summary', archive)
    BY <1>2 DEF OpenSummary, Names, Agrees, Usable
  <2>2. Typed' /\ Held'
    BY <1>2 DEF OpenSummary, IndInv, Typed, Held, Usable
  <2>. QED
    BY <1>2, <2>1, <2>2 DEF OpenSummary, IndInv, Written
<1>3. CASE WriteSummaryPart
  <2>1. Names(summary', archive) /\ Agrees(summary', archive)
    BY <1>3 DEF WriteSummaryPart, Names, Agrees, Usable
  <2>2. Typed' /\ Held'
    BY <1>3 DEF WriteSummaryPart, IndInv, Typed, Held, Usable
  <2>. QED
    BY <1>3, <2>1, <2>2 DEF WriteSummaryPart, IndInv, Written
<1>4. CASE WriteSummary
  BY <1>4, WriteInv
<1>5. CASE SaveArchive
  BY <1>5, SaveInv
<1>6. CASE Crash
  <2>1. <<>> \in Seq(Entry)
    OBVIOUS
  <2>. QED
    BY <1>6, <2>1 DEF Crash, Nothing, IndInv, Typed, Held, Written, Usable
<1>7. CASE UNCHANGED vars
  BY <1>7 DEF vars, IndInv, Typed, Held, Written
<1>. QED
  BY <1>1, <1>2, <1>3, <1>4, <1>5, <1>6, <1>7 DEF Next

\* The invariant holds in every state of every execution.
LEMMA Invariance == Spec => []IndInv
BY InitInv, NextInv, PTL DEF Spec

-----------------------------------------------------------------------------
(* The files and what a run holds have their types: a mean is a fraction of *)
(* numbers, never by zero (metric_utils.py 149-176).                        *)
THEOREM TypesKept == Spec => []TypeOK
<1>1. IndInv => TypeOK
  BY DEF IndInv, Typed, TypeOK
<1>. QED
  BY <1>1, Invariance, PTL

(* However many merges it went through, and whichever runs died, the mean   *)
(* in an eval file that speaks of no more problems than the eval_all file   *)
(* holds is that of their scores (generate_evaluate.py 262-281).            *)
THEOREM MeansAgree == Spec => []MeanAgrees
<1>1. IndInv => MeanAgrees
  BY DEF IndInv, Written, Agrees, MeanAgrees
<1>. QED
  BY <1>1, Invariance, PTL

(* No problem has two entries in the eval_all file, whatever benchmarks     *)
(* were run and whichever runs died (generate_evaluate.py 241-250).         *)
THEOREM NoneTwice == Spec => []GradedOnce
<1>1. IndInv => GradedOnce
  BY DEF IndInv, Written, Distinct, GradedOnce
<1>. QED
  BY <1>1, Invariance, PTL

(* The eval file names at least the graded problems, and names them in      *)
(* their order where it names no more (generate_evaluate.py 312-326).       *)
THEOREM FilesAgree == Spec => []NamesAgree
<1>1. IndInv => NamesAgree
  BY DEF IndInv, Written, Names, NamesAgree
<1>. QED
  BY <1>1, Invariance, PTL

(* A graded problem keeps its entry and its place for ever                  *)
(* (generate_evaluate.py 321-326).                                          *)
THEOREM NothingForgotten == Spec => ArchiveGrows
<1>. DEFINE Grows == archive # NoFile =>
                       archive' # NoFile /\ IsPrefix(archive, archive')
<1>1. IndInv /\ [Next]_vars => [Grows]_vars
  <2>. SUFFICES ASSUME IndInv, Next, archive # NoFile
                PROVE  archive' # NoFile /\ IsPrefix(archive, archive')
    OBVIOUS
  <2>1. archive \in Seq(Entry) /\ Entries(archive) = archive
    BY DEF IndInv, Typed, Entries
  <2>2. CASE SaveArchive
    <3>1. /\ archive' = archive \o mem.batch /\ mem.batch \in Seq(Entry)
      BY <2>1, <2>2 DEF SaveArchive, IndInv, Held, Typed
    <3>2. archive' \in Seq(Entry)
      BY <2>1, <3>1
    <3>. QED
      BY <2>1, <3>1, <3>2, PrefixOfJoin, FilesAssumption DEF Entry
  <2>3. CASE archive' = archive
    BY <2>1, <2>3, PrefixOfItself
  <2>. QED
    BY <2>2, <2>3 DEF Next, Evaluate, OpenSummary, WriteSummaryPart,
                      WriteSummary, Crash
<1>. QED
  BY <1>1, Invariance, PTL DEF Spec, ArchiveGrows
=============================================================================
