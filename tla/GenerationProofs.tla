-------------------------- MODULE GenerationProofs --------------------------
(***************************************************************************)
(* Proofs about the programs of MCGeneration: the campaign, the evaluation *)
(* of a file, the batch runner with and without a pool, and the two        *)
(* translation pipelines, for any number of problems, prompts, samples,    *)
(* workers, runs and kills.                                                *)
(*                                                                         *)
(* Campaign and CustomEval rest on what it means to leave entries of a     *)
(* list out: the code does it by a recursive function on the length, and   *)
(* the proofs by the place an entry comes from (Sifted).                   *)
(*                                                                         *)
(* BatchRunner: every result that has been yielded is at its place, and    *)
(* every other place is empty (StreamOutputs, LoopOutputs); what is cached *)
(* comes from there, and is what the file held if it held something.       *)
(*                                                                         *)
(* Translate: the answer is followed from the shared variable to the       *)
(* thread, to its Sample and to the records (Translate!IndInv).            *)
(***************************************************************************)
EXTENDS MCGeneration, SequenceTheorems, FiniteSetTheorems, WellFoundedInduction, TLAPS

-----------------------------------------------------------------------------
(* Lists with entries left out. *)

\* A set of numbers has a least one.
LEMMA LeastNumber ==
  ASSUME NEW S \in SUBSET Nat, S # {}
  PROVE  \E m \in S : \A x \in S : m <= x
<1>1. PICK m \in S : \A x \in S : ~(<<x, m>> \in OpToRel(<, Nat))
  BY WFMin, NatLessThanWellFounded
<1>2. \A x \in S : m <= x
  <2> TAKE x \in S
  <2>1. x \in Nat /\ m \in Nat
    OBVIOUS
  <2>2. ~(x < m)
    BY <1>1, <2>1 DEF OpToRel
  <2> QED
    BY <2>1, <2>2
<1> QED
  BY <1>2

\* f lists what is kept of the first elements of s.
Sifts(f, s, T) ==
  f = [n \in 0..Len(s) |->
         IF n = 0 THEN <<>>
         ELSE IF s[n] \in T THEN Append(f[n - 1], s[n]) ELSE f[n - 1]]

\* What Kept means in Campaign and in CustomEval.
Course(s, T) == CHOOSE f : Sifts(f, s, T)
Sifted(s, T) == Course(s, T)[Len(s)]

\* What the code keeps of a list is a sifting of it.
LEMMA KeptIsSifted ==
  \A s, T : Files!Kept(s, T) = Sifted(s, T) /\ Custom!Kept(s, T) = Sifted(s, T)
BY DEF Files!Kept, Custom!Kept, Sifted, Course, Sifts

\* There is such a list: take the least length for which there would be none.
LEMMA SiftsExist ==
  ASSUME NEW S, NEW T, NEW s \in Seq(S)
  PROVE  \E f \in [0..Len(s) -> Seq(S)] : Sifts(f, s, T)
<1> DEFINE Along(f, k) == \A n \in 0..k :
             f[n] = IF n = 0 THEN <<>>
                    ELSE IF s[n] \in T THEN Append(f[n - 1], s[n]) ELSE f[n - 1]
           Missing == {k \in 0..Len(s) : ~\E f \in [0..k -> Seq(S)] : Along(f, k)}
<1>0. Len(s) \in Nat /\ \A n \in 1..Len(s) : s[n] \in S
  OBVIOUS
<1>1. Missing = {}
  <2>1. SUFFICES ASSUME Missing # {} PROVE FALSE
    OBVIOUS
  <2>2. PICK m \in Missing : \A x \in Missing : m <= x
    <3>1. Missing \in SUBSET Nat
      BY <1>0
    <3> HIDE DEF Missing
    <3> QED
      BY <2>1, <3>1, LeastNumber
  <2>3. m \in 0..Len(s) /\ ~\E f \in [0..m -> Seq(S)] : Along(f, m)
    OBVIOUS
  <2>4. m # 0
    <3>1. SUFFICES ASSUME m = 0 PROVE FALSE
      OBVIOUS
    <3> DEFINE f == [n \in 0..m |-> <<>>]
    <3>2. f \in [0..m -> Seq(S)] /\ Along(f, m)
      BY <3>1
    <3> QED
      BY <2>3, <3>2
  <2>5. m \in 1..Len(s) /\ m - 1 \in 0..Len(s) /\ ~(m <= m - 1) /\ m - 1 \in 0..(m - 1)
    BY <1>0, <2>3, <2>4
  <2>6. PICK f \in [0..(m - 1) -> Seq(S)] : Along(f, m - 1)
    <3>1. m - 1 \notin Missing
      BY <2>2, <2>5, Zenon
    <3> QED
      BY <2>5, <3>1
  <2> DEFINE last == IF s[m] \in T THEN Append(f[m - 1], s[m]) ELSE f[m - 1]
             h == [n \in 0..m |-> IF n = m THEN last ELSE f[n]]
  <2>7. last \in Seq(S)
    <3>1. f[m - 1] \in Seq(S) /\ s[m] \in S
      BY <2>5, <1>0
    <3> QED
      BY <3>1, AppendProperties
  <2>8. \A n \in 0..m : n # m => n \in 0..(m - 1) /\ (n # 0 => n - 1 \in 0..m /\ n - 1 # m)
    BY <2>5
  <2>9. h \in [0..m -> Seq(S)]
    BY <2>6, <2>7, <2>8
  <2>10. Along(h, m)
    <3>1. SUFFICES ASSUME NEW n \in 0..m
                   PROVE  h[n] = IF n = 0 THEN <<>>
                                 ELSE IF s[n] \in T THEN Append(h[n - 1], s[n]) ELSE h[n - 1]
      OBVIOUS
    <3>2. CASE n = m
      <4>1. h[m] = last /\ h[m - 1] = f[m - 1]
        BY <2>5
      <4> QED
        BY <3>2, <4>1, <2>4
    <3>3. CASE n # m
      <4>1. h[n] = f[n] /\ (n # 0 => h[n - 1] = f[n - 1])
        BY <3>3, <2>8
      <4>2. n \in 0..(m - 1)
        BY <3>3, <2>8
      <4>3. f[n] = IF n = 0 THEN <<>>
                   ELSE IF s[n] \in T THEN Append(f[n - 1], s[n]) ELSE f[n - 1]
        BY <4>2, <2>6
      <4> HIDE DEF h
      <4> QED
        BY <4>1, <4>3
    <3> QED
      BY <3>2, <3>3
  <2> QED
    BY <2>3, <2>9, <2>10
<1>2. PICK f \in [0..Len(s) -> Seq(S)] : Along(f, Len(s))
  <2>1. Len(s) \in 0..Len(s)
    BY <1>0
  <2>2. Len(s) \notin Missing
    BY <1>1
  <2> QED
    BY <2>1, <2>2
<1>3. Sifts(f, s, T)
  BY <1>2 DEF Sifts
<1> QED
  BY <1>3

\* What is known of the list that Sifted takes its last element from.
LEMMA SiftFacts ==
  ASSUME NEW S, NEW T, NEW s \in Seq(S)
  PROVE  /\ Course(s, T)[0] = <<>>
         /\ \A n \in 1..Len(s) :
              Course(s, T)[n] = IF s[n] \in T THEN Append(Course(s, T)[n - 1], s[n]) ELSE Course(s, T)[n - 1]
<1> DEFINE f == Course(s, T)
<1>1. Sifts(f, s, T)
  BY SiftsExist DEF Course
<1>2. Len(s) \in Nat /\ 0 \in 0..Len(s) /\ \A n \in 1..Len(s) : n \in 0..Len(s) /\ n # 0
  OBVIOUS
<1> HIDE DEF f
<1>3. \A n \in 0..Len(s) : f[n] = IF n = 0 THEN <<>>
         ELSE IF s[n] \in T THEN Append(f[n - 1], s[n]) ELSE f[n - 1]
  BY <1>1 DEF Sifts
<1>4. f[0] = <<>> /\ \A n \in 1..Len(s) :
         f[n] = IF s[n] \in T THEN Append(f[n - 1], s[n]) ELSE f[n - 1]
  BY <1>2, <1>3
<1> QED
  BY <1>4 DEF f

\* The two equations that say it all.
LEMMA SiftedEmpty == \A T : Sifted(<<>>, T) = <<>>
<1> SUFFICES ASSUME NEW T PROVE Sifted(<<>>, T) = <<>>
  OBVIOUS
<1> DEFINE e == <<>>
           S == {}
<1>1. e \in Seq(S) /\ Len(e) = 0
  OBVIOUS
<1>2. Course(e, T)[0] = <<>>
  <2> HIDE DEF e, S
  <2>1. ASSUME NEW u \in Seq(S) PROVE Course(u, T)[0] = <<>>
    <3>1. u \in Seq(S)
      OBVIOUS
    <3> QED
      BY <3>1, SiftFacts
  <2> QED
    BY <1>1, <2>1
<1> QED
  BY <1>1, <1>2 DEF Sifted

\* One more entry is one more test.
LEMMA SiftedAppend ==
  ASSUME NEW S, NEW T, NEW s \in Seq(S), NEW x \in S
  PROVE  Sifted(Append(s, x), T) =
           IF x \in T THEN Append(Sifted(s, T), x) ELSE Sifted(s, T)
<1> DEFINE w == Append(s, x)
           f == Course(s, T)
           g == Course(w, T)
<1>0. /\ w \in Seq(S) /\ Len(w) = Len(s) + 1 /\ Len(s) \in Nat
      /\ (\A n \in 1..Len(s) : w[n] = s[n]) /\ w[Len(s) + 1] = x
  BY AppendProperties
<1>1. f[0] = <<>> /\ \A n \in 1..Len(s) :
        f[n] = IF s[n] \in T THEN Append(f[n - 1], s[n]) ELSE f[n - 1]
  <2> HIDE DEF w, g
  <2>1. s \in Seq(S)
    OBVIOUS
  <2> QED
    BY <2>1, SiftFacts
<1>2. g[0] = <<>> /\ \A n \in 1..Len(w) :
        g[n] = IF w[n] \in T THEN Append(g[n - 1], w[n]) ELSE g[n - 1]
  <2> HIDE DEF w, f
  <2> QED
    BY <1>0, SiftFacts
<1> HIDE DEF f, g, w
<1> DEFINE Differ == {n \in 0..Len(s) : f[n] # g[n]}
<1>3. Differ = {}
  <2>1. SUFFICES ASSUME Differ # {} PROVE FALSE
    OBVIOUS
  <2>2. PICK m \in Differ : \A y \in Differ : m <= y
    <3>1. Differ \in SUBSET Nat
      BY <1>0
    <3> HIDE DEF Differ
    <3> QED
      BY <2>1, <3>1, LeastNumber
  <2>3. m \in 0..Len(s) /\ f[m] # g[m]
    OBVIOUS
  <2>4. m # 0
    BY <2>3, <1>1, <1>2
  <2>5. m \in 1..Len(s) /\ m \in 1..Len(w) /\ m - 1 \in 0..Len(s) /\ ~(m <= m - 1)
    BY <1>0, <2>3, <2>4
  <2>6. f[m - 1] = g[m - 1]
    <3>1. m - 1 \notin Differ
      BY <2>2, <2>5, Zenon
    <3> QED
      BY <2>5, <3>1
  <2>7. w[m] = s[m]
    BY <2>5, <1>0
  <2> QED
    BY <2>3, <2>5, <2>6, <2>7, <1>1, <1>2
<1>4. f[Len(s)] = g[Len(s)]
  <2>1. Len(s) \in 0..Len(s)
    BY <1>0
  <2>2. Len(s) \notin Differ
    BY <1>3
  <2> QED
    BY <2>1, <2>2
<1>5. g[Len(w)] = IF x \in T THEN Append(g[Len(s)], x) ELSE g[Len(s)]
  <2>1. Len(w) \in 1..Len(w) /\ Len(w) - 1 = Len(s)
    BY <1>0
  <2> QED
    BY <2>1, <1>2, <1>0
<1>6. Sifted(s, T) = f[Len(s)] /\ Sifted(w, T) = g[Len(w)]
  BY DEF Sifted, f, g
<1> QED
  BY <1>4, <1>5, <1>6 DEF w

\* What it keeps: elements of T, as many as there are.
Sieve(s, S, T) ==
  /\ Sifted(s, T) \in Seq(S \cap T)
  /\ Len(Sifted(s, T)) <= Len(s)
  /\ Len(Sifted(s, T)) = Len(s) => Sifted(s, T) = s
  /\ (\A i \in 1..Len(s) : s[i] \in T) => Sifted(s, T) = s
  /\ \A i \in 1..Len(s) : s[i] \in T => \E j \in 1..Len(Sifted(s, T)) : Sifted(s, T)[j] = s[i]

\* One element more.
LEMMA SieveStep ==
  ASSUME NEW S, NEW T, NEW s \in Seq(S), NEW x \in S, Sieve(s, S, T)
  PROVE  Sieve(Append(s, x), S, T)
<1> DEFINE w == Append(s, x)
           k == Sifted(s, T)
           l == Sifted(w, T)
<1>0. /\ w \in Seq(S) /\ Len(w) = Len(s) + 1 /\ Len(s) \in Nat
      /\ (\A n \in 1..Len(s) : w[n] = s[n]) /\ w[Len(s) + 1] = x
  BY AppendProperties
<1>1. l = IF x \in T THEN Append(k, x) ELSE k
  BY SiftedAppend
<1>2. /\ k \in Seq(S \cap T) /\ Len(k) <= Len(s) /\ (Len(k) = Len(s) => k = s)
      /\ (\A i \in 1..Len(s) : s[i] \in T) => k = s
      /\ \A i \in 1..Len(s) : s[i] \in T => \E j \in 1..Len(k) : k[j] = s[i]
  BY DEF Sieve
<1>3. Len(k) \in Nat
  BY <1>2
<1>w. w = Append(s, x)
  OBVIOUS
<1>4. SUFFICES /\ l \in Seq(S \cap T) /\ Len(l) <= Len(w) /\ (Len(l) = Len(w) => l = w)
               /\ (\A i \in 1..Len(w) : w[i] \in T) => l = w
               /\ \A i \in 1..Len(w) : w[i] \in T => \E j \in 1..Len(l) : l[j] = w[i]
  BY DEF Sieve
<1> HIDE DEF w, k, l
<1>5. CASE x \in T
  <2>1. /\ l = Append(k, x) /\ l \in Seq(S \cap T) /\ Len(l) = Len(k) + 1
        /\ (\A n \in 1..Len(k) : l[n] = k[n]) /\ l[Len(k) + 1] = x
    <3>1. l = Append(k, x) /\ x \in S \cap T
      BY <1>1, <1>5
    <3> QED
      BY <3>1, <1>2, AppendProperties
  <2>2. Len(l) <= Len(w) /\ (Len(l) = Len(w) => Len(k) = Len(s))
    BY <2>1, <1>0, <1>2, <1>3
  <2>3. k = s => l = w
    BY <2>1, <1>w
  <2>4. (\A i \in 1..Len(w) : w[i] \in T) => \A i \in 1..Len(s) : s[i] \in T
    <3>1. \A i \in 1..Len(s) : i \in 1..Len(w)
      BY <1>0
    <3> QED
      BY <3>1, <1>0
  <2>5. ASSUME NEW i \in 1..Len(w), w[i] \in T PROVE \E j \in 1..Len(l) : l[j] = w[i]
    <3>1. CASE i = Len(s) + 1
      <4>1. Len(k) + 1 \in 1..Len(l)
        BY <2>1, <1>3
      <4> QED
        BY <3>1, <4>1, <2>1, <1>0
    <3>2. CASE i # Len(s) + 1
      <4>1. i \in 1..Len(s) /\ w[i] = s[i]
        BY <3>2, <1>0
      <4>2. PICK j \in 1..Len(k) : k[j] = s[i]
        BY <4>1, <2>5, <1>2
      <4>3. j \in 1..Len(l) /\ l[j] = k[j]
        BY <2>1, <1>3
      <4> QED
        BY <4>1, <4>2, <4>3
    <3> QED
      BY <3>1, <3>2
  <2>6. (Len(l) = Len(w) => l = w) /\ ((\A i \in 1..Len(w) : w[i] \in T) => l = w)
    BY <2>2, <2>3, <2>4, <1>2
  <2> QED
    BY <2>1, <2>2, <2>5, <2>6
<1>6. CASE x \notin T
  <2>1. l = k
    BY <1>1, <1>6
  <2>2. Len(l) <= Len(w) /\ Len(l) # Len(w) /\ Len(s) + 1 \in 1..Len(w)
    BY <2>1, <1>0, <1>2, <1>3
  <2>3. ~(\A i \in 1..Len(w) : w[i] \in T)
    BY <2>2, <1>0, <1>6
  <2>4. \A i \in 1..Len(w) : w[i] \in T => i \in 1..Len(s)
    <3>1. \A i \in 1..Len(w) : i \in 1..Len(s) \/ i = Len(s) + 1
      BY <1>0
    <3> QED
      BY <3>1, <1>0, <1>6
  <2>5. \A i \in 1..Len(w) : w[i] \in T => \E j \in 1..Len(l) : l[j] = w[i]
    BY <2>1, <2>4, <1>2, <1>0
  <2> QED
    BY <2>1, <2>2, <2>3, <2>5, <1>2
<1> QED
  BY <1>5, <1>6

\* Of nothing, nothing.
LEMMA SieveEmpty ==
  ASSUME NEW S, NEW T
  PROVE  Sieve(<<>>, S, T)
<1>1. PICK e \in Seq(S \cap T) : e = <<>>
  BY EmptySeq, Zenon
<1>2. Sifted(e, T) = e
  BY <1>1, SiftedEmpty
<1>3. Len(e) = 0 /\ Len(e) <= Len(e) /\ 1..Len(e) = {}
  BY <1>1
<1>4. Sieve(e, S, T)
  BY <1>2, <1>3 DEF Sieve
<1> QED
  BY <1>1, <1>4

\* So for every list: take a shortest one for which it would not be so.
LEMMA SieveHolds ==
  ASSUME NEW S, NEW T
  PROVE  \A s \in Seq(S) : Sieve(s, S, T)
<1> DEFINE Bad == {n \in Nat : \E s \in Seq(S) : Len(s) = n /\ ~Sieve(s, S, T)}
<1>1. SUFFICES ASSUME NEW s \in Seq(S), ~Sieve(s, S, T) PROVE FALSE
  OBVIOUS
<1>2. Len(s) \in Bad
  BY <1>1
<1>3. PICK m \in Bad : \A x \in Bad : m <= x
  <2> HIDE DEF Bad
  <2>1. Bad \in SUBSET Nat
    BY DEF Bad
  <2> QED
    BY <1>2, <2>1, LeastNumber
<1>4. PICK w \in Seq(S) : Len(w) = m /\ ~Sieve(w, S, T)
  OBVIOUS
<1>5. w # <<>>
  BY <1>4, SieveEmpty
<1>6. PICK v \in Seq(S), x \in S : w = Append(v, x)
  BY <1>5, SequenceEmptyOrAppend
<1>7. Len(v) \in Nat /\ ~(m <= Len(v))
  BY <1>4, <1>6, AppendProperties
<1>8. Sieve(v, S, T)
  BY <1>3, <1>7
<1> QED
  BY <1>4, <1>6, <1>8, SieveStep

\* What is kept is kept again.
LEMMA SiftedTwice ==
  ASSUME NEW S, NEW T, NEW s \in Seq(S)
  PROVE  Sifted(Sifted(s, T), T) = Sifted(s, T)
<1> DEFINE k == Sifted(s, T)
<1>1. k \in Seq(S \cap T)
  BY SieveHolds DEF Sieve
<1> HIDE DEF k
<1>2. \A i \in 1..Len(k) : k[i] \in S \cap T
  BY <1>1
<1>3. Sieve(k, S \cap T, T)
  BY <1>1, SieveHolds
<1>4. Sifted(k, T) = k
  BY <1>2, <1>3 DEF Sieve
<1> QED
  BY <1>4 DEF k

-----------------------------------------------------------------------------
(* Campaign. *)
Filed == {s \in Seq(0..MaxRuns) : Len(s) <= N}

Useful(s) == Sifted(s, 1..MaxRuns)

\* s begins with r.
Begins(r, s) == Len(r) <= Len(s) /\ SubSeq(s, 1, Len(r)) = r

CampTyped ==
  /\ disk \in [Problems -> Filed] \cup {NoFile}
  /\ live \in [Problems -> Filed]
  /\ DOMAIN campGraded = Problems
  /\ run \in 0..MaxRuns /\ campPc \in {"idle", "ask", "evaluate", "done"}

\* What a problem was graded with is the beginning of what the file and a run have.
GradedFirst ==
  \A p \in Problems : campGraded[p] # Ungraded =>
    /\ campGraded[p] \in Filed /\ Len(campGraded[p]) = N
    /\ disk # NoFile => Begins(Useful(campGraded[p]), Useful(disk[p]))
    /\ campPc \in {"ask", "evaluate"} => Begins(Useful(campGraded[p]), Useful(live[p]))

\* A run grades what it has filed.
FiledWhole ==
  campPc = "evaluate" => disk = live /\ \A p \in Problems : Len(live[p]) = N

CampInv == CampTyped /\ GradedFirst /\ FiledWhole

\* A function on an interval from 1 is a list.
LEMMA ListOf ==
  ASSUME NEW S, NEW n \in Nat, NEW s \in [1..n -> S]
  PROVE  s \in Seq(S) /\ Len(s) = n
OBVIOUS

\* A list of some things is a list of more things.
LEMMA MoreLists ==
  ASSUME NEW S, NEW T, T \subseteq S
  PROVE  \A s \in Seq(T) : s \in Seq(S) /\ Len(s) \in Nat
OBVIOUS

\* Facts about Campaign's operators.
LEMMA FiledIs ==
  /\ Files!Records = [Problems -> Filed]
  /\ \A s \in Filed : s \in Seq(0..MaxRuns) /\ Len(s) \in Nat /\ Len(s) <= N
  /\ <<>> \in Filed
<1>1. Files!CampaignAssumption
  BY GenerationAssumption
<1>2. N \in Nat /\ N > 0 /\ MaxRuns \in Nat
  BY <1>1 DEF Files!CampaignAssumption
<1>3. Files!SeqOf(0..MaxRuns, N) = Filed
  <2>1. ASSUME NEW s \in Files!SeqOf(0..MaxRuns, N) PROVE s \in Filed
    <3>1. PICK m \in 0..N : s \in [1..m -> 0..MaxRuns]
      BY <2>1 DEF Files!SeqOf
    <3>2. m \in Nat /\ m <= N
      BY <1>2
    <3>3. s \in Seq(0..MaxRuns) /\ Len(s) = m
      BY <3>1, <3>2, ListOf
    <3> QED
      BY <3>2, <3>3 DEF Filed
  <2>2. ASSUME NEW s \in Filed PROVE s \in Files!SeqOf(0..MaxRuns, N)
    <3>1. s \in Seq(0..MaxRuns) /\ Len(s) <= N
      BY DEF Filed
    <3>2. s \in [1..Len(s) -> 0..MaxRuns] /\ Len(s) \in 0..N
      BY <3>1, <1>2
    <3> QED
      BY <3>2 DEF Files!SeqOf
  <2> QED
    BY <2>1, <2>2
<1>4. Files!Records = [Problems -> Filed]
  BY <1>3 DEF Files!Records
<1>5. \A s \in Filed : s \in Seq(0..MaxRuns) /\ Len(s) \in Nat /\ Len(s) <= N
  BY DEF Filed
<1>6. <<>> \in Filed
  <2>1. <<>> \in Seq(0..MaxRuns) /\ Len(<<>>) = 0
    BY EmptySeq
  <2> QED
    BY <2>1, <1>2 DEF Filed
<1> QED
  BY <1>4, <1>5, <1>6

\* The samples of a record that are not blank, in their order.
LEMMA UsefulIs == \A s : Files!Useful(s) = Useful(s)
BY KeptIsSifted DEF Files!Useful, Useful

\* What is useful of a record is a record, and useful.
LEMMA UsefulFiled ==
  ASSUME NEW s \in Filed
  PROVE  /\ Useful(s) \in Filed /\ Useful(Useful(s)) = Useful(s)
         /\ Useful(s) \in Seq(0..MaxRuns)
<1>1. s \in Seq(0..MaxRuns) /\ Len(s) \in Nat /\ Len(s) <= N
  BY FiledIs
<1>2. /\ Useful(s) \in Seq((0..MaxRuns) \cap (1..MaxRuns)) /\ Len(Useful(s)) <= Len(s)
      /\ Useful(Useful(s)) = Useful(s)
  BY <1>1, SieveHolds, SiftedTwice DEF Useful, Sieve
<1>3. Useful(s) \in Seq(0..MaxRuns) /\ Len(Useful(s)) \in Nat
  <2>1. (0..MaxRuns) \cap (1..MaxRuns) \subseteq 0..MaxRuns
    OBVIOUS
  <2> QED
    BY <2>1, <1>2, MoreLists
<1>4. Len(Useful(s)) <= N
  <2>1. Files!CampaignAssumption
    BY GenerationAssumption
  <2>2. N \in Nat
    BY <2>1 DEF Files!CampaignAssumption
  <2> QED
    BY <1>1, <1>2, <1>3, <2>2
<1> QED
  BY <1>2, <1>3, <1>4 DEF Filed

\* Every list is its own beginning.
LEMMA BeginsItself ==
  ASSUME NEW S, NEW s \in Seq(S)
  PROVE  Begins(s, s)
<1>1. Len(s) \in Nat /\ SubSeq(s, 1, Len(s)) = s
  BY SubSeqFull
<1> QED
  BY <1>1 DEF Begins

\* A beginning stays one when something is appended.
LEMMA BeginsLonger ==
  ASSUME NEW S, NEW r \in Seq(S), NEW s \in Seq(S), NEW x \in S, Begins(r, s)
  PROVE  Begins(r, Append(s, x))
<1> DEFINE w == Append(s, x)
<1>1. /\ w \in Seq(S) /\ Len(w) = Len(s) + 1 /\ Len(s) \in Nat /\ Len(r) \in Nat
      /\ \A n \in 1..Len(s) : w[n] = s[n]
  BY AppendProperties
<1>2. Len(r) <= Len(s) /\ SubSeq(s, 1, Len(r)) = r
  BY DEF Begins
<1> HIDE DEF w
<1>3. Len(r) <= Len(w) /\ \A n \in 1..Len(r) : n \in 1..Len(s)
  BY <1>1, <1>2
<1>4. SubSeq(w, 1, Len(r)) = [n \in 1..Len(r) |-> w[n]] /\ SubSeq(s, 1, Len(r)) = [n \in 1..Len(r) |-> s[n]]
  <2>1. Len(r) = 1 + Len(r) - 1
    BY <1>1
  <2> QED
    BY <1>1
<1>5. [n \in 1..Len(r) |-> w[n]] = [n \in 1..Len(r) |-> s[n]]
  BY <1>1, <1>3
<1>6. Len(r) <= Len(w) /\ SubSeq(w, 1, Len(r)) = r
  BY <1>2, <1>3, <1>4, <1>5
<1> QED
  BY <1>6 DEF w, Begins

\* The library means the same by a beginning.
LEMMA PrefixBegins ==
  ASSUME NEW S, NEW r \in Seq(S), NEW s \in Seq(S), Begins(r, s)
  PROVE  Files!IsPrefix(r, s)
<1>1. SubSeq(r, 1, Len(r)) = r
  BY SubSeqFull
<1> QED
  BY <1>1 DEF Begins, Files!IsPrefix

\* A sample given up leaves the useful ones as they are.
LEMMA UsefulAppend ==
  ASSUME NEW s \in Seq(0..MaxRuns), NEW x \in 0..MaxRuns
  PROVE  Useful(Append(s, x)) = IF x \in 1..MaxRuns THEN Append(Useful(s), x) ELSE Useful(s)
<1> DEFINE S == 0..MaxRuns
           T == 1..MaxRuns
<1>1. s \in Seq(S) /\ x \in S
  OBVIOUS
<1>2. Useful(s) = Sifted(s, T) /\ Useful(Append(s, x)) = Sifted(Append(s, x), T)
  BY DEF Useful
<1> HIDE DEF S, T
<1>3. Sifted(Append(s, x), T) = IF x \in T THEN Append(Sifted(s, T), x) ELSE Sifted(s, T)
  BY <1>1, SiftedAppend
<1>4. Useful(Append(s, x)) = IF x \in T THEN Append(Useful(s), x) ELSE Useful(s)
  BY <1>2, <1>3
<1> QED
  BY <1>4 DEF T

\* Before the first run nothing is filed.
LEMMA CampStarts == Files!Init => CampInv
<1> SUFFICES ASSUME Files!Init PROVE CampInv
  OBVIOUS
<1>1. Files!CampaignAssumption
  BY GenerationAssumption
<1>2. run \in 0..MaxRuns
  BY <1>1 DEF Files!Init, Files!CampaignAssumption
<1>3. CampTyped
  BY <1>2, FiledIs DEF Files!Init, CampTyped
<1>4. GradedFirst
  BY DEF Files!Init, GradedFirst
<1>5. FiledWhole
  BY DEF Files!Init, FiledWhole
<1> QED
  BY <1>3, <1>4, <1>5 DEF CampInv

\* A run goes on from the output file.
LEMMA CampStart == CampInv /\ Files!Start => CampInv'
<1> SUFFICES ASSUME CampInv, Files!Start PROVE CampInv'
  OBVIOUS
<1>1. CampTyped /\ GradedFirst
  BY DEF CampInv
<1>2. /\ live' = [p \in Problems |-> Files!Resumed(p)] /\ campPc' = "ask"
      /\ disk' = disk /\ campGraded' = campGraded
      /\ run' = run + 1 /\ run < MaxRuns
  BY DEF Files!Start
<1>3. ASSUME NEW p \in Problems
      PROVE  /\ Files!Resumed(p) \in Filed
             /\ campGraded[p] # Ungraded =>
                  Begins(Useful(campGraded[p]), Useful(Files!Resumed(p)))
  <2> DEFINE r == Files!Read(p)
  <2>1. r \in Filed
    <3>1. CASE disk # NoFile
      <4>1. disk \in [Problems -> Filed] /\ r = disk[p]
        BY <3>1, <1>1 DEF CampTyped, Files!Read
      <4> QED
        BY <4>1
    <3>2. CASE disk = NoFile
      BY <3>2, <1>1, FiledIs DEF GradedFirst, Files!Read
    <3> QED
      BY <3>1, <3>2
  <2>2. Files!Resumed(p) = Useful(r)
    BY UsefulIs DEF Files!Resumed
  <2>3. ASSUME campGraded[p] # Ungraded
        PROVE  Begins(Useful(campGraded[p]), Useful(r))
    <3>1. campGraded[p] \in Filed
      BY <2>3, <1>1 DEF GradedFirst
    <3>2. CASE disk # NoFile
      <4>1. r = disk[p]
        BY <3>2 DEF Files!Read
      <4> QED
        BY <4>1, <3>2, <2>3, <1>1 DEF GradedFirst
    <3>3. CASE disk = NoFile
      <4>1. r = campGraded[p]
        BY <3>3, <2>3 DEF Files!Read
      <4> HIDE DEF r
      <4> QED
        BY <4>1, <3>1, UsefulFiled, BeginsItself
    <3> QED
      BY <3>2, <3>3
  <2> HIDE DEF r
  <2> QED
    BY <2>1, <2>2, <2>3, UsefulFiled
<1>4. CampTyped'
  <2>1. live' \in [Problems -> Filed]
    BY <1>2, <1>3
  <2>2. run' \in 0..MaxRuns
    <3>1. run \in 0..MaxRuns /\ Files!CampaignAssumption
      BY <1>1, GenerationAssumption DEF CampTyped
    <3> QED
      BY <3>1, <1>2 DEF Files!CampaignAssumption
  <2> QED
    BY <2>1, <2>2, <1>1, <1>2 DEF CampTyped
<1>5. GradedFirst'
  <2>1. \A p \in Problems : live'[p] = Files!Resumed(p)
    BY <1>2
  <2>2. ASSUME NEW p \in Problems, campGraded'[p] # Ungraded
        PROVE  /\ campGraded'[p] \in Filed /\ Len(campGraded'[p]) = N
               /\ disk' # NoFile => Begins(Useful(campGraded'[p]), Useful(disk'[p]))
               /\ Begins(Useful(campGraded'[p]), Useful(live'[p]))
    <3>1. campGraded[p] # Ungraded
      BY <2>2, <1>2
    <3>2. /\ campGraded[p] \in Filed /\ Len(campGraded[p]) = N
          /\ disk # NoFile => Begins(Useful(campGraded[p]), Useful(disk[p]))
      BY <3>1, <1>1 DEF GradedFirst
    <3> QED
      BY <3>1, <3>2, <2>1, <1>2, <1>3
  <2> QED
    BY <2>2 DEF GradedFirst
<1>6. FiledWhole'
  BY <1>2 DEF FiledWhole
<1> QED
  BY <1>4, <1>5, <1>6 DEF CampInv

\* One more sample, and a snapshot of all of them.
LEMMA CampAsk ==
  ASSUME NEW q \in Problems
  PROVE  CampInv /\ Files!Ask(q) => CampInv'
<1> SUFFICES ASSUME CampInv, Files!Ask(q) PROVE CampInv'
  OBVIOUS
<1>1. CampTyped /\ GradedFirst
  BY DEF CampInv
<1>2. PICK s \in {run, Files!GivenUp} : live' = [live EXCEPT ![q] = Append(@, s)]
  BY DEF Files!Ask
<1>3. /\ campPc = "ask" /\ campPc' = "ask" /\ Len(live[q]) < N /\ disk' = live'
      /\ campGraded' = campGraded /\ run' = run
  BY DEF Files!Ask
<1>4. live \in [Problems -> Filed] /\ live[q] \in Filed
  BY <1>1 DEF CampTyped
<1>5. s \in 0..MaxRuns
  <2>1. run \in 0..MaxRuns
    BY <1>1 DEF CampTyped
  <2>2. Files!CampaignAssumption
    BY GenerationAssumption
  <2>3. 0 \in 0..MaxRuns
    BY <2>2 DEF Files!CampaignAssumption
  <2> QED
    BY <2>1, <2>3 DEF Files!GivenUp
<1>6. Append(live[q], s) \in Filed
  <2>1. live[q] \in Seq(0..MaxRuns) /\ Len(live[q]) \in Nat
    BY <1>4, FiledIs
  <2>2. Append(live[q], s) \in Seq(0..MaxRuns) /\ Len(Append(live[q], s)) = Len(live[q]) + 1
    BY <2>1, <1>5, AppendProperties
  <2>3. N \in Nat
    <3>1. Files!CampaignAssumption
      BY GenerationAssumption
    <3> QED
      BY <3>1 DEF Files!CampaignAssumption
  <2>4. Len(Append(live[q], s)) <= N
    BY <2>1, <2>2, <2>3, <1>3
  <2> QED
    BY <2>2, <2>4 DEF Filed
<1>7. ASSUME NEW r, r \in Seq(0..MaxRuns), Begins(r, Useful(live[q]))
      PROVE  Begins(r, Useful(Append(live[q], s)))
  <2>1. live[q] \in Seq(0..MaxRuns) /\ Useful(live[q]) \in Seq(0..MaxRuns)
    BY <1>4, FiledIs, UsefulFiled
  <2>2. Useful(Append(live[q], s)) =
          IF s \in 1..MaxRuns THEN Append(Useful(live[q]), s) ELSE Useful(live[q])
    BY <2>1, <1>5, UsefulAppend
  <2>3. Begins(r, Append(Useful(live[q]), s))
    BY <1>7, <2>1, <1>5, BeginsLonger
  <2> QED
    BY <2>2, <2>3, <1>7
<1>8. live' \in [Problems -> Filed] /\ live'[q] = Append(live[q], s)
      /\ \A p \in Problems \ {q} : live'[p] = live[p]
  BY <1>2, <1>4, <1>6
<1>9. CampTyped'
  BY <1>8, <1>1, <1>3 DEF CampTyped
<1>10. GradedFirst'
  <2>1. ASSUME NEW p \in Problems, campGraded[p] # Ungraded
        PROVE  /\ campGraded[p] \in Filed /\ Len(campGraded[p]) = N
               /\ Begins(Useful(campGraded[p]), Useful(live'[p]))
    <3>1. /\ campGraded[p] \in Filed /\ Len(campGraded[p]) = N
          /\ Begins(Useful(campGraded[p]), Useful(live[p]))
      BY <2>1, <1>1, <1>3 DEF GradedFirst
    <3>2. Useful(campGraded[p]) \in Seq(0..MaxRuns)
      BY <3>1, UsefulFiled
    <3>3. CASE p = q
      BY <3>1, <3>2, <3>3, <1>7, <1>8
    <3>4. CASE p # q
      BY <3>1, <3>4, <1>8
    <3> QED
      BY <3>1, <3>3, <3>4
  <2> QED
    BY <2>1, <1>3 DEF GradedFirst
<1>11. FiledWhole'
  BY <1>3 DEF FiledWhole
<1> QED
  BY <1>9, <1>10, <1>11 DEF CampInv

\* All samples are there.
LEMMA CampAsked == CampInv /\ Files!Asked => CampInv'
<1> SUFFICES ASSUME CampInv, Files!Asked PROVE CampInv'
  OBVIOUS
<1>1. CampTyped /\ GradedFirst
  BY DEF CampInv
<1>2. /\ campPc = "ask" /\ campPc' = "evaluate" /\ disk' = live /\ live' = live
      /\ campGraded' = campGraded /\ run' = run
      /\ \A p \in Problems : Len(live[p]) = N
  BY DEF Files!Asked, Files!Whole
<1>3. CampTyped'
  BY <1>1, <1>2 DEF CampTyped
<1>4. GradedFirst'
  BY <1>1, <1>2 DEF GradedFirst
<1>5. FiledWhole'
  BY <1>2 DEF FiledWhole
<1> QED
  BY <1>3, <1>4, <1>5 DEF CampInv

\* What is graded is whole, and in the file.
LEMMA CampEvaluate ==
  ASSUME NEW S \in SUBSET Problems
  PROVE  CampInv /\ Files!Evaluate(S) => CampInv'
<1> SUFFICES ASSUME CampInv, Files!Evaluate(S) PROVE CampInv'
  OBVIOUS
<1>1. CampTyped /\ GradedFirst /\ FiledWhole
  BY DEF CampInv
<1>2. /\ campPc = "evaluate" /\ campPc' = "done" /\ disk' = disk /\ live' = live /\ run' = run
      /\ campGraded' = [p \in Problems |->
           IF p \in S /\ campGraded[p] = Ungraded THEN live[p] ELSE campGraded[p]]
  BY DEF Files!Evaluate
<1>3. disk = live /\ live \in [Problems -> Filed] /\ \A p \in Problems : Len(live[p]) = N
  BY <1>1, <1>2 DEF FiledWhole, CampTyped
<1>4. CampTyped'
  BY <1>1, <1>2 DEF CampTyped
<1>5. GradedFirst'
  <2>1. ASSUME NEW p \in Problems, campGraded'[p] # Ungraded
        PROVE  /\ campGraded'[p] \in Filed /\ Len(campGraded'[p]) = N
               /\ disk # NoFile => Begins(Useful(campGraded'[p]), Useful(disk[p]))
    <3>1. CASE p \in S /\ campGraded[p] = Ungraded
      <4>1. campGraded'[p] = live[p] /\ live[p] \in Filed
        BY <3>1, <1>2, <1>3
      <4> QED
        BY <4>1, <1>3, UsefulFiled, BeginsItself
    <3>2. CASE ~(p \in S /\ campGraded[p] = Ungraded)
      <4>1. campGraded'[p] = campGraded[p]
        BY <3>2, <1>2
      <4> QED
        BY <4>1, <2>1, <1>1 DEF GradedFirst
    <3> QED
      BY <3>1, <3>2
  <2> QED
    BY <2>1, <1>2 DEF GradedFirst
<1>6. FiledWhole'
  BY <1>2 DEF FiledWhole
<1> QED
  BY <1>4, <1>5, <1>6 DEF CampInv

\* A kill, and the operator who deletes the output file.
LEMMA CampRest == CampInv /\ (Files!Crash \/ Files!RemoveOutput \/ UNCHANGED campVars) => CampInv'
<1> SUFFICES ASSUME CampInv, Files!Crash \/ Files!RemoveOutput \/ UNCHANGED campVars PROVE CampInv'
  OBVIOUS
<1>1. CampTyped /\ GradedFirst /\ FiledWhole
  BY DEF CampInv
<1>2. CASE UNCHANGED campVars
  BY <1>1, <1>2 DEF campVars, CampInv, CampTyped, GradedFirst, FiledWhole
<1>3. CASE Files!Crash
  <2>1. campPc' = "idle" /\ disk' = disk /\ live' = live /\ campGraded' = campGraded /\ run' = run
    BY <1>3 DEF Files!Crash
  <2> QED
    BY <2>1, <1>1 DEF CampInv, CampTyped, GradedFirst, FiledWhole
<1>4. CASE Files!RemoveOutput
  <2>1. campPc' = "idle" /\ disk' = NoFile /\ live' = live /\ campGraded' = campGraded /\ run' = run
    BY <1>4 DEF Files!RemoveOutput
  <2> QED
    BY <2>1, <1>1 DEF CampInv, CampTyped, GradedFirst, FiledWhole
<1> QED
  BY <1>2, <1>3, <1>4

\* Every step of the campaign keeps the invariant.
LEMMA CampNext == CampInv /\ (Files!Next \/ UNCHANGED campVars) => CampInv'
BY CampStart, CampAsk, CampAsked, CampEvaluate, CampRest DEF Files!Next

\* The two files agree.
LEMMA CampAgrees == CampInv => Files!TypeOK /\ Files!ArchiveBehind
<1> SUFFICES ASSUME CampInv PROVE Files!TypeOK /\ Files!ArchiveBehind
  OBVIOUS
<1>1. CampTyped /\ GradedFirst
  BY DEF CampInv
<1>2. Files!TypeOK
  BY <1>1, FiledIs DEF CampTyped, Files!TypeOK
<1>3. ASSUME NEW p \in Problems, campGraded[p] # Ungraded
      PROVE  /\ Len(campGraded[p]) = N
             /\ disk # NoFile => Files!IsPrefix(Files!Useful(campGraded[p]), Files!Useful(disk[p]))
  <2>1. /\ campGraded[p] \in Filed /\ Len(campGraded[p]) = N
        /\ disk # NoFile => Begins(Useful(campGraded[p]), Useful(disk[p]))
    BY <1>1, <1>3 DEF GradedFirst
  <2>2. ASSUME disk # NoFile PROVE Files!IsPrefix(Useful(campGraded[p]), Useful(disk[p]))
    <3>1. disk \in [Problems -> Filed]
      BY <2>2, <1>1 DEF CampTyped
    <3>2. Useful(campGraded[p]) \in Seq(0..MaxRuns) /\ Useful(disk[p]) \in Seq(0..MaxRuns)
      BY <3>1, <2>1, UsefulFiled
    <3> QED
      BY <3>2, <2>1, <2>2, PrefixBegins
  <2> QED
    BY <2>1, <2>2, UsefulIs
<1> QED
  BY <1>2, <1>3 DEF Files!ArchiveBehind

-----------------------------------------------------------------------------
(* CustomEval. *)
Line == [id : Ids, codes : 0..MaxCodes]
Usable == [id : bench, codes : 0..MaxCodes]

\* The input of the command.
Given == lines \in Seq(Line) /\ bench \subseteq Ids

\* The ids that are known, and how many are not after one of them.
UpTo(id) == {k \in Custom!Known : k <= id}

\* The places of the known ids.
LEMMA CustomCounts == \A S : Custom!Cardinality(S) = Cardinality(S)
BY DEF Custom!Cardinality, Cardinality

\* The problems of the file that the benchmark has are finitely many.
LEMMA KnownIs ==
  ASSUME Given
  PROVE  /\ IsFiniteSet(Custom!Known) /\ Cardinality(Custom!Known) \in Nat
         /\ Custom!Known \subseteq Nat
<1>1. Len(lines) \in Nat /\ DOMAIN lines = 1..Len(lines) /\ \A i \in 1..Len(lines) : lines[i] \in Line
  BY DEF Given
<1>2. Ids \subseteq Nat
  <2>1. Custom!CustomEvalAssumption
    BY GenerationAssumption
  <2> QED
    BY <2>1 DEF Custom!CustomEvalAssumption
<1> DEFINE T == {lines[i].id : i \in DOMAIN lines}
           f == [i \in 1..Len(lines) |-> lines[i].id]
<1>3. f \in Surjection(1..Len(lines), T)
  BY <1>1 DEF Surjection
<1>4. IsFiniteSet(1..Len(lines))
  BY <1>1, FS_Interval
<1>5. IsFiniteSet(T)
  <2> HIDE DEF f, T
  <2> QED
    BY <1>3, <1>4, FS_Surjection
<1>6. Custom!Known \subseteq T
  BY DEF Custom!Known
<1>7. IsFiniteSet(Custom!Known)
  <2> HIDE DEF f, T
  <2> QED
    BY <1>5, <1>6, FS_Subset
<1>8. Custom!Known \subseteq Nat
  BY <1>2 DEF Given, Custom!Known
<1> QED
  BY <1>7, <1>8, FS_CardinalityType

\* Every known id has a place in the benchmark: ids are counted without gaps.
LEMMA EveryIdPlaced ==
  ASSUME Given, NEW id \in Custom!Known
  PROVE  \E i \in DOMAIN Custom!Benchmark : Custom!Benchmark[i] = id
<1> DEFINE K == Custom!Known
           n == Cardinality(K)
           f == [k \in K |-> Cardinality(UpTo(k))]
<1>1. IsFiniteSet(K) /\ n \in Nat /\ K \subseteq Nat
  BY KnownIs
<1>2. ASSUME NEW k \in K
      PROVE  /\ IsFiniteSet(UpTo(k)) /\ Cardinality(UpTo(k)) \in 1..n
  <2>1. UpTo(k) \subseteq K /\ k \in UpTo(k)
    BY <1>1 DEF UpTo
  <2>2. IsFiniteSet(UpTo(k)) /\ Cardinality(UpTo(k)) <= n
    BY <1>1, <2>1, FS_Subset
  <2>3. Cardinality(UpTo(k)) # 0
    BY <2>1, <2>2, FS_EmptySet
  <2>4. Cardinality(UpTo(k)) \in Nat
    BY <2>2, FS_CardinalityType
  <2> HIDE DEF K, n
  <2> QED
    BY <1>1, <2>2, <2>3, <2>4
<1>3. ASSUME NEW k \in K, NEW l \in K, k < l
      PROVE  Cardinality(UpTo(k)) # Cardinality(UpTo(l))
  <2>1. k \in Nat /\ l \in Nat
    BY <1>1
  <2>2. UpTo(k) \subseteq UpTo(l) /\ l \in UpTo(l) /\ l \notin UpTo(k)
    <3>1. \A j \in Custom!Known : j \in Nat /\ (j <= k => j <= l)
      <4>1. \A j \in Nat : j <= k => j <= l
        BY <1>3, <2>1
      <4> QED
        BY <4>1, <1>1
    <3>2. l <= l /\ ~(l <= k)
      BY <1>3, <2>1
    <3> QED
      BY <3>1, <3>2 DEF UpTo
  <2>3. IsFiniteSet(UpTo(l))
    BY <1>2
  <2> QED
    BY <2>2, <2>3, FS_Subset
<1>4. f \in Injection(K, 1..n)
  <2>1. f \in [K -> 1..n]
    BY <1>2
  <2>2. ASSUME NEW k \in K, NEW l \in K, f[k] = f[l] PROVE k = l
    <3>1. k \in Nat /\ l \in Nat
      BY <1>1
    <3>2. Cardinality(UpTo(k)) = Cardinality(UpTo(l))
      BY <2>2
    <3>3. ~(k < l) /\ ~(l < k)
      BY <1>3, <3>2
    <3> QED
      BY <3>1, <3>3
  <2>3. DOMAIN f = K
    OBVIOUS
  <2> HIDE DEF f, K, n
  <2> QED
    BY <2>1, <2>2, <2>3 DEF Injection, IsInjective
<1>5. IsFiniteSet(1..n) /\ Cardinality(1..n) = n
  <2> HIDE DEF n
  <2>1. 0 - 1 + 1 = 0 /\ n - 1 + 1 = n /\ (1 > n => n = 0)
    BY <1>1
  <2> QED
    BY <2>1, <1>1, FS_Interval
<1>6. f \in Surjection(K, 1..n)
  <2> HIDE DEF f, K
  <2> QED
    BY <1>4, <1>5, FS_Injection DEF n
<1>7. f[id] \in 1..n /\ f[id] = Cardinality(UpTo(id))
  BY <1>2
<1> DEFINE place == CHOOSE k \in K : Cardinality({j \in Custom!Known : j <= k}) = f[id]
<1>8. Custom!Benchmark[f[id]] = place /\ f[id] \in DOMAIN Custom!Benchmark
  <2> HIDE DEF f
  <2>1. \A S : Custom!Cardinality(S) = Cardinality(S)
    BY CustomCounts
  <2> QED
    BY <1>7, <2>1 DEF Custom!Benchmark
<1>9. place \in K /\ Cardinality(UpTo(place)) = f[id]
  BY <1>7 DEF UpTo
<1>10. place = id
  <2> HIDE DEF place
  <2>1. place \in Nat /\ id \in Nat /\ Cardinality(UpTo(place)) = Cardinality(UpTo(id))
    BY <1>1, <1>7, <1>9
  <2>2. ~(place < id) /\ ~(id < place)
    BY <2>1, <1>3, <1>9
  <2> QED
    BY <2>1, <2>2
<1> QED
  BY <1>8, <1>10

\* A list is one of its own elements.
LEMMA ListOfOwn ==
  ASSUME NEW S, NEW s \in Seq(S)
  PROVE  s \in Seq({s[i] : i \in DOMAIN s}) /\ {s[i] : i \in DOMAIN s} \subseteq S
<1>1. Len(s) \in Nat /\ DOMAIN s = 1..Len(s) /\ s \in [1..Len(s) -> {s[i] : i \in DOMAIN s}]
  OBVIOUS
<1>2. s \in Seq({s[i] : i \in DOMAIN s})
  BY <1>1, ListOf
<1>3. \A i \in 1..Len(s) : s[i] \in S
  OBVIOUS
<1> QED
  BY <1>1, <1>2, <1>3

\* The lines that are graded.
LEMMA OutputsAre ==
  ASSUME Given
  PROVE  /\ Custom!Outputs \in Seq(Line)
         /\ \A j \in 1..Len(Custom!Outputs) : Custom!Outputs[j].id \in Custom!Known
         /\ \A i \in DOMAIN lines : lines[i].id \in bench =>
              \E j \in 1..Len(Custom!Outputs) : Custom!Outputs[j] = lines[i]
<1> DEFINE Out == Custom!Outputs
           R == {lines[i] : i \in DOMAIN lines}
<1>1. Out = Sifted(lines, Usable)
  BY KeptIsSifted DEF Custom!Outputs, Usable
<1>2. lines \in Seq(R) /\ R \subseteq Line /\ Sieve(lines, R, Usable)
  <2>1. lines \in Seq(R) /\ R \subseteq Line
    BY ListOfOwn DEF Given
  <2> HIDE DEF R
  <2> QED
    BY <2>1, SieveHolds
<1>3. /\ Out \in Seq(R \cap Usable)
      /\ \A i \in 1..Len(lines) : lines[i] \in Usable => \E j \in 1..Len(Out) : Out[j] = lines[i]
  BY <1>1, <1>2 DEF Sieve
<1>4. DOMAIN lines = 1..Len(lines) /\ \A i \in 1..Len(lines) : lines[i] \in Line
  BY DEF Given
<1> HIDE DEF Out
<1>5. Out \in Seq(Line)
  <2>1. R \cap Usable \subseteq Line
    BY <1>2
  <2> HIDE DEF R
  <2> QED
    BY <2>1, <1>3, MoreLists
<1>6. ASSUME NEW i \in DOMAIN lines, lines[i].id \in bench
      PROVE  \E j \in 1..Len(Out) : Out[j] = lines[i]
  <2>1. i \in 1..Len(lines) /\ lines[i] \in Line
    BY <1>4
  <2>2. lines[i] \in Usable
    BY <2>1, <1>6 DEF Line, Usable
  <2> QED
    BY <2>1, <2>2, <1>3
<1>7. SUFFICES ASSUME NEW j \in 1..Len(Out) PROVE Out[j].id \in Custom!Known
  BY <1>5, <1>6 DEF Out
<1>8. Out[j] \in R /\ Out[j] \in Usable
  <2>1. Out[j] \in R \cap Usable
    <3> HIDE DEF R
    <3> QED
      BY <1>3
  <2> QED
    BY <2>1
<1>9. Out[j].id \in bench
  BY <1>8 DEF Usable
<1>10. PICK i \in DOMAIN lines : lines[i] = Out[j]
  BY <1>8
<1> QED
  BY <1>9, <1>10 DEF Custom!Known

\* As many lines as ids: no id has two.
LEMMA OutputsApart ==
  ASSUME Given, Len(Custom!Outputs) = Cardinality(Custom!Known),
         NEW i \in 1..Len(Custom!Outputs), NEW j \in 1..Len(Custom!Outputs),
         Custom!Outputs[i].id = Custom!Outputs[j].id
  PROVE  i = j
<1> DEFINE Out == Custom!Outputs
           n == Len(Out)
           f == [k \in 1..n |-> Out[k].id]
           K == Custom!Known
<1>1. n \in Nat /\ \A k \in 1..n : Out[k].id \in K
  BY OutputsAre
<1>2. f \in [1..n -> K]
  BY <1>1
<1>3. ASSUME NEW id \in K PROVE \E k \in 1..n : f[k] = id
  <2>1. PICK l \in DOMAIN lines : lines[l].id = id
    BY DEF Custom!Known
  <2>2. id \in bench
    BY DEF Custom!Known
  <2>3. PICK k \in 1..n : Out[k] = lines[l]
    BY <2>1, <2>2, OutputsAre
  <2> QED
    BY <2>1, <2>3
<1>4. f \in Surjection(1..n, K)
  <2> HIDE DEF f, n, K
  <2> QED
    BY <1>2, <1>3 DEF Surjection
<1>5. IsFiniteSet(1..n) /\ Cardinality(1..n) = n
  <2> DEFINE c == Cardinality(1..n)
  <2> HIDE DEF n
  <2>1. n \in Int /\ 1 \in Int /\ n \in Nat
    BY <1>1
  <2>2. IsFiniteSet(1..n) /\ c = IF 1 > n THEN 0 ELSE n - 1 + 1
    BY <2>1, FS_Interval
  <2> HIDE DEF c
  <2>3. c = n
    BY <2>1, <2>2
  <2> QED
    BY <2>2, <2>3 DEF c
<1>6. n = Cardinality(K)
  OBVIOUS
<1>7. f \in Injection(1..n, K)
  <2> HIDE DEF f, n, K
  <2> QED
    BY <1>4, <1>5, <1>6, FS_SurjSameCardinalityImpliesInj
<1>8. \A a, b \in 1..n : f[a] = f[b] => a = b
  <2> DOMAIN f = 1..n
    OBVIOUS
  <2> HIDE DEF f, n, K
  <2> QED
    BY <1>7 DEF Injection, IsInjective
<1>9. i \in 1..n /\ j \in 1..n /\ f[i] = f[j]
  OBVIOUS
<1> HIDE DEF f, n
<1> QED
  BY <1>8, <1>9

\* The code of an id is that of its line.
LEMMA CodesAre ==
  ASSUME Given, Len(Custom!Outputs) = Cardinality(Custom!Known),
         NEW i \in DOMAIN lines, lines[i].id \in bench
  PROVE  lines[i].id \in Custom!Known /\ Custom!Codes(lines[i].id) = lines[i].codes
<1> DEFINE Out == Custom!Outputs
           k == CHOOSE k \in DOMAIN Out : Out[k].id = lines[i].id
<1>1. Out \in Seq(Line) /\ DOMAIN Out = 1..Len(Out)
  BY OutputsAre
<1>2. PICK j \in 1..Len(Out) : Out[j] = lines[i]
  BY OutputsAre
<1>3. k \in 1..Len(Out) /\ Out[k].id = lines[i].id
  BY <1>1, <1>2
<1>4. k = j
  BY <1>2, <1>3, OutputsApart
<1>5. Custom!Codes(lines[i].id) = Out[k].codes
  BY DEF Custom!Codes
<1> QED
  BY <1>2, <1>4, <1>5 DEF Custom!Known

\* A verdict for every problem: then none is without a code, and each has its own.
LEMMA VerdictsAre ==
  ASSUME Given
  PROVE  /\ Len(Custom!Verdicts) <= Cardinality(Custom!Known)
         /\ (\A i \in DOMAIN Custom!Benchmark : i \in DOMAIN Custom!Verdicts) =>
              /\ DOMAIN Custom!Verdicts = DOMAIN Custom!Benchmark
              /\ \A i \in DOMAIN Custom!Benchmark :
                   /\ Custom!Codes(Custom!Benchmark[i]) > 0
                   /\ Custom!Verdicts[i] = [j \in 1..Custom!Codes(Custom!Benchmark[i]) |-> Custom!Benchmark[i]]
<1> DEFINE B == Custom!Benchmark
           R == {B[i] : i \in DOMAIN B}
           T == {id \in Custom!Known : Custom!Codes(id) > 0}
           some == Sifted(B, T)
           V == Custom!Verdicts
           n == Cardinality(Custom!Known)
<1>1. V = [i \in DOMAIN some |-> [j \in 1..Custom!Codes(some[i]) |-> some[i]]]
  BY KeptIsSifted DEF Custom!Verdicts
<1>2. n \in Nat
  BY KnownIs
<1>3. DOMAIN B = 1..n
  BY CustomCounts DEF Custom!Benchmark
<1>4. B \in [1..n -> R]
  <2>1. B = [i \in 1..n |-> B[i]]
    BY CustomCounts DEF Custom!Benchmark
  <2> HIDE DEF B, n
  <2> QED
    BY <2>1, <1>3
<1>5. B \in Seq(R) /\ Len(B) = n
  <2> HIDE DEF B, R, n
  <2> QED
    BY <1>2, <1>4, ListOf
<1>6. Sieve(B, R, T)
  <2> HIDE DEF B, R, T
  <2> QED
    BY <1>5, SieveHolds
<1>7. /\ some \in Seq(R \cap T) /\ Len(some) <= n /\ (Len(some) = n => some = B)
  <2> HIDE DEF B, R, T, n
  <2> QED
    BY <1>5, <1>6 DEF Sieve
<1>8. Len(some) \in Nat /\ DOMAIN some = 1..Len(some) /\ \A i \in 1..Len(some) : some[i] \in T
  <2> HIDE DEF B, R, T, some
  <2> QED
    BY <1>7
<1>9. Len(V) = Len(some) /\ DOMAIN V = 1..Len(some)
  <2>1. DOMAIN V = 1..Len(some)
    <3> HIDE DEF some, V
    <3> QED
      BY <1>1, <1>8
  <2>2. V = [i \in 1..Len(some) |-> V[i]]
    <3> HIDE DEF some, V
    <3> QED
      BY <1>1, <1>8
  <2>3. V \in [1..Len(some) -> {V[i] : i \in 1..Len(some)}]
    <3> HIDE DEF some, V
    <3> QED
      BY <2>1, <2>2
  <2> HIDE DEF some, V
  <2> QED
    BY <2>1, <2>3, <1>8, ListOf
<1>10. ASSUME \A i \in DOMAIN B : i \in DOMAIN V
       PROVE  /\ DOMAIN V = DOMAIN B
              /\ \A i \in DOMAIN B : Custom!Codes(B[i]) > 0 /\ V[i] = [j \in 1..Custom!Codes(B[i]) |-> B[i]]
  <2>1. \A i \in 1..n : i \in 1..Len(some)
    BY <1>3, <1>9, <1>10
  <2>2. Len(some) = n
    <3> DEFINE l == Len(some)
    <3> HIDE DEF some, n, B
    <3>1. n # 0 => n \in 1..l
      BY <1>2, <2>1
    <3>2. l \in Nat /\ l <= n
      BY <1>7, <1>8
    <3> HIDE DEF l
    <3>3. l = n
      BY <3>1, <3>2, <1>2
    <3> QED
      BY <3>3 DEF l
  <2>3. some = B
    BY <2>2, <1>7
  <2>4. \A i \in 1..n : B[i] \in T
    BY <2>2, <2>3, <1>8
  <2>5. \A i \in 1..n : Custom!Codes(B[i]) > 0
    BY <2>4
  <2>6. \A i \in 1..n : V[i] = [j \in 1..Custom!Codes(B[i]) |-> B[i]]
    <3> HIDE DEF some, B, V, n
    <3> QED
      BY <1>1, <2>2, <2>3, <1>3
  <2> HIDE DEF some, B, V, n
  <2> QED
    BY <2>2, <2>5, <2>6, <1>3, <1>9
<1>11. Len(V) <= n
  BY <1>7, <1>9
<1> QED
  BY <1>10, <1>11

-----------------------------------------------------------------------------
Past == {"output", "eval", "eval_all", "done"}

Accepted == Len(Custom!Outputs) = Cardinality(Custom!Known)

CustTyped ==
  /\ custPc \in {"read", "attach", "output", "eval", "eval_all", "done", "raised"}
  /\ DOMAIN files = {"output", "eval", "eval_all"}
  /\ custGraded \in {<<>>, Custom!Verdicts}

\* Nothing is written before all of it is known to fit.
Written ==
  /\ custPc \in {"read", "attach", "raised"} =>
       files.output = NoFile /\ files.eval = NoFile /\ files.eval_all = NoFile
  /\ custPc = "attach" => Accepted /\ custGraded = Custom!Verdicts
  /\ custPc \in Past => Accepted /\ custGraded = Custom!Verdicts /\ Custom!Fits
  /\ custPc \in {"eval_all", "done"} => files.eval = custGraded
  /\ IF custPc = "done" THEN files.eval_all = Custom!Entries ELSE files.eval_all = NoFile

CustInv == Given /\ CustTyped /\ Written

\* A file and a benchmark, and nothing evaluated.
LEMMA CustStarts == Custom!Init => CustInv
<1> SUFFICES ASSUME Custom!Init PROVE CustInv
  OBVIOUS
<1>1. Given
  <2>1. lines \in Custom!SeqOf(Line, MaxLines) /\ bench \subseteq Ids
    BY DEF Custom!Init, Line
  <2>2. PICK m \in 0..MaxLines : lines \in [1..m -> Line]
    BY <2>1 DEF Custom!SeqOf
  <2>3. m \in Nat
    BY <2>2
  <2>4. lines \in Seq(Line)
    <3> HIDE DEF Line
    <3> QED
      BY <2>2, <2>3, ListOf
  <2> QED
    BY <2>1, <2>4 DEF Given
<1>2. CustTyped
  BY DEF Custom!Init, CustTyped
<1>3. Written
  BY DEF Custom!Init, Written, Past
<1> QED
  BY <1>1, <1>2, <1>3 DEF CustInv

\* The input stays, and what is computed from it.
LEMMA CustSame ==
  ASSUME lines' = lines, bench' = bench
  PROVE  /\ Given' = Given /\ Custom!Verdicts' = Custom!Verdicts /\ Accepted' = Accepted
         /\ custGraded' = custGraded => Custom!Fits' = Custom!Fits /\ Custom!Entries' = Custom!Entries
<1>1. Custom!Outputs' = Custom!Outputs /\ Custom!Known' = Custom!Known
  BY DEF Custom!Outputs, Custom!Known
<1>2. Custom!Benchmark' = Custom!Benchmark
  BY <1>1 DEF Custom!Benchmark
<1>3. \A id : Custom!Codes(id)' = Custom!Codes(id)
  BY <1>1 DEF Custom!Codes
<1> QED
  BY <1>1, <1>2, <1>3 DEF Given, Custom!Verdicts, Accepted, Custom!Fits, Custom!Entries, Custom!Entry

\* Reading, grading, and what is attached.
LEMMA CustEarly ==
  CustInv /\ (Custom!Rejects \/ Custom!GradingRaises \/ Custom!Grade \/ Custom!Attach) => CustInv'
<1> SUFFICES ASSUME CustInv, Custom!Rejects \/ Custom!GradingRaises \/ Custom!Grade \/ Custom!Attach
             PROVE  CustInv'
  OBVIOUS
<1>1. Given /\ CustTyped /\ Written
  BY DEF CustInv
<1>2. /\ lines' = lines /\ bench' = bench /\ files' = files
      /\ custPc \in {"read", "attach"}
  BY DEF Custom!Rejects, Custom!GradingRaises, Custom!Grade, Custom!Attach, Custom!Goes
<1>3. Given' /\ Custom!Verdicts' = Custom!Verdicts /\ Accepted' = Accepted
  BY <1>1, <1>2, CustSame
<1>4. files.output = NoFile /\ files.eval = NoFile /\ files.eval_all = NoFile
  BY <1>1, <1>2 DEF Written
<1>5. CASE custPc' = "raised" /\ UNCHANGED custGraded
  <2>1. CustTyped'
    BY <1>1, <1>2, <1>3, <1>5 DEF CustTyped
  <2>2. Written'
    BY <1>2, <1>4, <1>5 DEF Written, Past
  <2> QED
    BY <1>3, <2>1, <2>2 DEF CustInv
<1>6. CASE Custom!Grade
  <2>1. custPc' = "attach" /\ custGraded' = Custom!Verdicts /\ Accepted
    BY <1>6, CustomCounts DEF Custom!Grade, Custom!Goes, Custom!Accepts, Accepted
  <2>2. CustTyped'
    BY <1>1, <1>2, <1>3, <2>1 DEF CustTyped
  <2>3. Written'
    BY <1>2, <1>3, <1>4, <2>1 DEF Written, Past
  <2> QED
    BY <1>3, <2>2, <2>3 DEF CustInv
<1>7. CASE Custom!Attach /\ custPc' # "raised"
  <2>1. custPc = "attach" /\ custPc' = "output" /\ custGraded' = custGraded /\ Custom!Fits
    BY <1>7 DEF Custom!Attach, Custom!Goes
  <2>2. Custom!Fits' /\ Accepted' /\ custGraded' = Custom!Verdicts'
    BY <1>1, <1>2, <1>3, <2>1, CustSame DEF Written
  <2>3. CustTyped'
    BY <1>1, <1>2, <1>3, <2>1 DEF CustTyped
  <2>4. Written'
    BY <1>2, <1>4, <2>1, <2>2 DEF Written, Past
  <2> QED
    BY <1>3, <2>3, <2>4 DEF CustInv
<1> QED
  BY <1>5, <1>6, <1>7 DEF Custom!Rejects, Custom!GradingRaises, Custom!Grade, Custom!Attach, Custom!Goes

\* The three files.
LEMMA CustWrites ==
  CustInv /\ (Custom!WriteOutput \/ Custom!WriteEval \/ Custom!WriteEvalAll) => CustInv'
<1> SUFFICES ASSUME CustInv, Custom!WriteOutput \/ Custom!WriteEval \/ Custom!WriteEvalAll
             PROVE  CustInv'
  OBVIOUS
<1>1. Given /\ CustTyped /\ Written
  BY DEF CustInv
<1>2. lines' = lines /\ bench' = bench /\ custGraded' = custGraded /\ custPc \in Past /\ custPc # "done"
  BY DEF Custom!WriteOutput, Custom!WriteEval, Custom!WriteEvalAll, Custom!Goes, Past
<1>3. /\ Given' /\ Custom!Verdicts' = Custom!Verdicts /\ Accepted' = Accepted
      /\ Custom!Fits' = Custom!Fits /\ Custom!Entries' = Custom!Entries
  BY <1>1, <1>2, CustSame
<1>4. /\ Accepted /\ custGraded = Custom!Verdicts /\ Custom!Fits /\ files.eval_all = NoFile
      /\ DOMAIN files = {"output", "eval", "eval_all"}
  BY <1>1, <1>2 DEF Written, CustTyped
<1>5. Accepted' /\ custGraded' = Custom!Verdicts' /\ Custom!Fits'
  BY <1>2, <1>3, <1>4
<1>6. CASE Custom!WriteOutput
  <2>1. custPc' = "eval" /\ files'.eval_all = files.eval_all /\ DOMAIN files' = DOMAIN files
    BY <1>4, <1>6 DEF Custom!WriteOutput, Custom!Goes
  <2>2. CustTyped'
    BY <1>4, <1>5, <2>1 DEF CustTyped
  <2>3. Written'
    BY <1>4, <1>5, <2>1 DEF Written, Past
  <2> QED
    BY <1>3, <2>2, <2>3 DEF CustInv
<1>7. CASE Custom!WriteEval
  <2>1. /\ custPc' = "eval_all" /\ files'.eval_all = files.eval_all /\ DOMAIN files' = DOMAIN files
        /\ files'.eval = custGraded
    BY <1>4, <1>7 DEF Custom!WriteEval, Custom!EvalLine, Custom!Goes
  <2>2. CustTyped'
    BY <1>4, <1>5, <2>1 DEF CustTyped
  <2>3. Written'
    BY <1>2, <1>4, <1>5, <2>1 DEF Written, Past
  <2> QED
    BY <1>3, <2>2, <2>3 DEF CustInv
<1>8. CASE Custom!WriteEvalAll
  <2>1. /\ custPc = "eval_all" /\ custPc' = "done" /\ files'.eval_all = Custom!Entries
        /\ DOMAIN files' = DOMAIN files /\ files'.eval = files.eval
    BY <1>4, <1>8 DEF Custom!WriteEvalAll, Custom!Goes
  <2>2. CustTyped'
    BY <1>4, <1>5, <2>1 DEF CustTyped
  <2>3. files.eval = custGraded
    BY <1>1, <2>1 DEF Written
  <2>4. Written'
    BY <1>2, <1>3, <1>5, <2>1, <2>3 DEF Written, Past
  <2> QED
    BY <1>3, <2>2, <2>4 DEF CustInv
<1> QED
  BY <1>6, <1>7, <1>8

\* Every step of the evaluation keeps the invariant.
LEMMA CustNext == CustInv /\ (Custom!Next \/ UNCHANGED custVars) => CustInv'
<1>1. CustInv /\ UNCHANGED custVars => CustInv'
  <2> SUFFICES ASSUME CustInv, UNCHANGED custVars PROVE CustInv'
    OBVIOUS
  <2>1. /\ lines' = lines /\ bench' = bench /\ custGraded' = custGraded
        /\ custPc' = custPc /\ files' = files
    BY DEF custVars
  <2>2. /\ Given' = Given /\ Custom!Verdicts' = Custom!Verdicts /\ Accepted' = Accepted
        /\ Custom!Fits' = Custom!Fits /\ Custom!Entries' = Custom!Entries
    BY <2>1, CustSame
  <2> QED
    BY <2>1, <2>2 DEF CustInv, CustTyped, Written
<1> QED
  BY <1>1, CustEarly, CustWrites DEF Custom!Next

\* The types.
LEMMA CustTypes == CustInv => Custom!TypeOK
<1> SUFFICES ASSUME CustInv PROVE Custom!TypeOK
  OBVIOUS
<1>1. Given /\ CustTyped
  BY DEF CustInv
<1>2. Cardinality(Custom!Known) \in Nat /\ Len(Custom!Verdicts) <= Cardinality(Custom!Known)
  BY <1>1, KnownIs, VerdictsAre
<1>3. Len(<<>>) = 0
  OBVIOUS
<1>4. Len(custGraded) <= Cardinality(Custom!Known)
  <2>1. CASE custGraded = <<>>
    BY <2>1, <1>2, <1>3
  <2>2. CASE custGraded = Custom!Verdicts
    BY <2>2, <1>2
  <2> QED
    BY <2>1, <2>2, <1>1 DEF CustTyped
<1> QED
  BY <1>1, <1>4, CustomCounts DEF Custom!TypeOK, CustTyped

\* What fits has a verdict for every code.
LEMMA FitsAll ==
  ASSUME CustInv, custPc \in Past
  PROVE  /\ DOMAIN custGraded = DOMAIN Custom!Benchmark
         /\ \A i \in DOMAIN Custom!Benchmark :
              /\ Custom!Codes(Custom!Benchmark[i]) > 0
              /\ custGraded[i] = [j \in 1..Custom!Codes(Custom!Benchmark[i]) |-> Custom!Benchmark[i]]
<1>1. Given /\ custGraded = Custom!Verdicts /\ Custom!Fits
  BY DEF CustInv, Written
<1>2. \A i \in DOMAIN Custom!Benchmark : i \in DOMAIN Custom!Verdicts
  BY <1>1 DEF Custom!Fits
<1> QED
  BY <1>1, <1>2, VerdictsAre

\* What is written for a problem comes from its own line.
LEMMA CustOwn == CustInv => Custom!WrittenIsOwn
<1> SUFFICES ASSUME CustInv, files.eval_all # NoFile PROVE
      /\ \A i \in DOMAIN files.eval_all :
           files.eval_all[i].verdicts = [j \in 1..files.eval_all[i].codes |-> files.eval_all[i].id]
      /\ files.eval = [i \in DOMAIN files.eval_all |-> files.eval_all[i].verdicts]
  BY DEF Custom!WrittenIsOwn
<1> DEFINE B == Custom!Benchmark
<1>1. custPc = "done" /\ files.eval_all = Custom!Entries /\ files.eval = custGraded
  BY DEF CustInv, Written
<1>2. /\ DOMAIN custGraded = DOMAIN B
      /\ \A i \in DOMAIN B : custGraded[i] = [j \in 1..Custom!Codes(B[i]) |-> B[i]]
  BY <1>1, FitsAll DEF Past
<1>3. DOMAIN Custom!Entries = DOMAIN B
  BY DEF Custom!Entries
<1>4. ASSUME NEW i \in DOMAIN B
      PROVE  /\ Custom!Entries[i].id = B[i] /\ Custom!Entries[i].codes = Custom!Codes(B[i])
             /\ Custom!Entries[i].verdicts = custGraded[i]
  <2>1. Custom!Entries[i] = Custom!Entry(i)
    BY DEF Custom!Entries
  <2> QED
    BY <2>1, <1>2 DEF Custom!Entry
<1>5. custGraded = [i \in DOMAIN custGraded |-> custGraded[i]]
  <2>1. custGraded = Custom!Verdicts
    BY <1>1 DEF CustInv, Written, Past
  <2>2. Custom!Verdicts = [i \in DOMAIN Custom!Verdicts |-> Custom!Verdicts[i]]
    BY DEF Custom!Verdicts
  <2> QED
    BY <2>1, <2>2
<1>6. files.eval = [i \in DOMAIN files.eval_all |-> files.eval_all[i].verdicts]
  <2>1. [i \in DOMAIN custGraded |-> custGraded[i]] = [i \in DOMAIN Custom!Entries |-> Custom!Entries[i].verdicts]
    <3> HIDE DEF B
    <3> QED
      BY <1>2, <1>3, <1>4
  <2> QED
    BY <2>1, <1>1, <1>5
<1>7. \A i \in DOMAIN files.eval_all :
        files.eval_all[i].verdicts = [j \in 1..files.eval_all[i].codes |-> files.eval_all[i].id]
  <2>1. SUFFICES ASSUME NEW i \in DOMAIN B
                 PROVE  Custom!Entries[i].verdicts = [j \in 1..Custom!Entries[i].codes |-> Custom!Entries[i].id]
    BY <1>1, <1>3
  <2>2. Custom!Entries[i].verdicts = [j \in 1..Custom!Codes(B[i]) |-> B[i]]
    BY <1>2, <1>4
  <2> HIDE DEF B
  <2> QED
    BY <2>2, <1>4
<1> QED
  BY <1>6, <1>7

\* The files have all problems or are not there.
LEMMA CustAllOrNothing == CustInv => Custom!AllOrNothing
<1> SUFFICES ASSUME CustInv, files.eval # NoFile \/ files.output # NoFile
             PROVE  /\ \A i \in DOMAIN lines : lines[i].id \in bench => lines[i].codes > 0
                    /\ custPc # "raised"
  BY DEF Custom!AllOrNothing
<1>1. custPc \in Past
  BY DEF CustInv, CustTyped, Written, Past
<1>2. Given /\ Len(Custom!Outputs) = Cardinality(Custom!Known)
  BY <1>1 DEF CustInv, Written, Accepted
<1>3. ASSUME NEW i \in DOMAIN lines, lines[i].id \in bench PROVE lines[i].codes > 0
  <2>1. lines[i].id \in Custom!Known /\ Custom!Codes(lines[i].id) = lines[i].codes
    BY <1>2, <1>3, CodesAre
  <2>2. PICK r \in DOMAIN Custom!Benchmark : Custom!Benchmark[r] = lines[i].id
    BY <1>2, <2>1, EveryIdPlaced
  <2> QED
    BY <2>1, <2>2, <1>1, FitsAll
<1> QED
  BY <1>1, <1>3 DEF Past

-----------------------------------------------------------------------------
FilesInv == CampInv /\ CustInv

\* Whatever part is looked at, its files start empty.
LEMMA FilesStart == GenerationInit => FilesInv
<1>1. GenerationInit => Files!Init /\ Custom!Init
  BY DEF GenerationInit, CampRests, CustRests
<1> QED
  BY <1>1, CampStarts, CustStarts DEF FilesInv

\* A step of one part leaves the others where they are.
LEMMA FilesStep == FilesInv /\ [GenerationNext]_generationVars => FilesInv'
<1> SUFFICES ASSUME FilesInv, [GenerationNext]_generationVars PROVE FilesInv'
  OBVIOUS
<1>1. Files!Next \/ UNCHANGED campVars
  BY DEF GenerationNext, generationVars, BatchOnly, TransOnly, CustOnly
<1>2. Custom!Next \/ UNCHANGED custVars
  BY DEF GenerationNext, generationVars, BatchOnly, TransOnly, CampOnly
<1> QED
  BY <1>1, <1>2, CampNext, CustNext DEF FilesInv

(* For any number of problems, samples, runs and lines of a file: the       *)
(* programs a problem was graded with are the first of its record in the    *)
(* output file, however the runs were killed, resumed or had their file     *)
(* deleted (generate_evaluate.py); and the evaluation of a file that is     *)
(* there already writes for a problem what its own line has, in both files  *)
(* or in none (custom_evaluate.py).                                         *)
THEOREM FilesNeverDiffer == GenerationSpec => []FilesAgree
<1>1. FilesInv => FilesAgree
  BY CampAgrees, CustTypes, CustOwn, CustAllOrNothing DEF FilesInv, FilesAgree
<1> QED
  BY <1>1, FilesStart, FilesStep, PTL DEF GenerationSpec

-----------------------------------------------------------------------------
(* BatchRunner, streaming over the pool. *)

\* A file that can be read.
Legible == cacheFile \notin {NoFile, Torn}

\* Only a whole list of answers for prompt i is kept in its place.
Answers(i) == {i, None}

StreamTyped == Stream!TypeOK /\ mode = "stream" /\ first = 1 /\ held = 0

StreamTasks ==
  \A i \in 1..P : task[i].st = "success" => task[i].res \in Answers(i)

\* The list so far.
StreamOutputs ==
  /\ batchPc # "down" =>
       /\ outputs \in [1..P -> Stream!Item]
       /\ \A i \in 1..P :
            outputs[i] = IF i < nextOut /\ task[i].st = "success" THEN task[i].res ELSE NoList
       /\ \A i \in 1..P : i < nextOut => Stream!Done(i)
  /\ batchPc \in {"save", "fill", "returned"} => nextOut > P

StreamDelivered ==
  \A i \in 1..P : \A k \in DOMAIN delivered[i] : delivered[i][k] = i

OwnAnswers ==
  Stream!Own(cache) /\ (Legible => Stream!Own(cacheFile))

\* A prompt that is answered in the file is not asked for, and stays.
StreamKeeps ==
  /\ batchPc = "run" /\ UseCache /\ Legible => cache = cacheFile
  /\ batchPc = "run" /\ UseCache /\ Legible => \A i \in 1..P : cacheFile[i] = i =>
       task[i].st # "exception" /\ (task[i].st = "success" => task[i].res = i)
  /\ batchPc = "save" /\ Legible => \A i \in 1..P : cacheFile[i] = i =>
       cache[i] = i \/ task[i].st = "expired"

StreamInv ==
  /\ StreamTyped /\ StreamTasks /\ StreamOutputs /\ StreamDelivered
  /\ OwnAnswers /\ StreamKeeps

\* The numbers of the two runners, and the names that are no prompts.
LEMMA BatchNumbers ==
  /\ P \in Nat /\ P >= 1 /\ N \in Nat /\ N >= 1 /\ StreamStarts \in Nat /\ LoopStarts \in Nat
  /\ LoopBatch \in Nat /\ LoopBatch >= 1
  /\ \A i \in 1..P : i # Blank /\ i # NoList /\ i # None /\ i # Absent
  /\ Stream!Prompts = 1..P /\ Loop!Prompts = 1..P
<1>1. Stream!BatchRunnerAssumption /\ Loop!BatchRunnerAssumption
  BY GenerationAssumption
<1>2. Stream!Prompts = 1..P /\ Loop!Prompts = 1..P
  BY DEF Stream!Prompts, Loop!Prompts
<1>3. {P, N, LoopBatch} \subseteq Nat \ {0} /\ StreamStarts \in Nat /\ LoopStarts \in Nat
  BY <1>1 DEF Stream!BatchRunnerAssumption, Loop!BatchRunnerAssumption
<1>4. {Blank, NoList, None, Absent} \cap (1..P) = {}
  BY <1>1, <1>2 DEF Stream!BatchRunnerAssumption
<1>5. \A i \in 1..P : i # Blank /\ i # NoList /\ i # None /\ i # Absent
  BY <1>4
<1> QED
  BY <1>2, <1>3, <1>5

\* The command was not yet started.
LEMMA StreamStarts0 == Stream!Init => StreamInv
<1> SUFFICES ASSUME Stream!Init PROVE StreamInv
  OBVIOUS
<1>1. Stream!TypeOK
  <2>1. /\ batchPc = "down" /\ mode = "stream" /\ starts = 0 /\ first = 1 /\ held = 0 /\ nextOut = 1
        /\ task = [i \in 1..P |-> [st |-> "new", res |-> NoList]]
        /\ outputs = <<>> /\ cache = [i \in 1..P |-> Absent] /\ cacheFile = NoFile
        /\ delivered = [i \in 1..P |-> <<>>]
    BY BatchNumbers DEF Stream!Init, Stream!Fresh, Stream!Task, Stream!NoCache
  <2>2. starts \in 0..StreamStarts /\ first \in 1..P /\ held \in 0..(P * N) /\ nextOut \in 1..(P + 1)
    <3>1. P * N \in Nat
      BY BatchNumbers
    <3> QED
      BY <2>1, <3>1, BatchNumbers
  <2>3. outputs \in Seq(Stream!Item) /\ delivered \in [1..P -> Seq(Stream!Item)]
    BY <2>1, EmptySeq
  <2> QED
    BY <2>1, <2>2, <2>3, BatchNumbers DEF Stream!TypeOK, Stream!Item, Stream!CacheOf
<1>2. StreamTyped
  BY <1>1 DEF StreamTyped, Stream!Init
<1>3. StreamTasks /\ StreamOutputs /\ StreamKeeps
  BY BatchNumbers DEF Stream!Init, Stream!Fresh, Stream!Task, StreamTasks, StreamOutputs, StreamKeeps
<1>4. StreamDelivered
  <2>1. \A i \in 1..P : delivered[i] = <<>>
    BY BatchNumbers DEF Stream!Init
  <2>2. DOMAIN <<>> = {}
    OBVIOUS
  <2> QED
    BY <2>1, <2>2 DEF StreamDelivered
<1>5. OwnAnswers
  BY BatchNumbers DEF Stream!Init, Stream!NoCache, OwnAnswers, Stream!Own, Legible
<1> QED
  BY <1>2, <1>3, <1>4, <1>5 DEF StreamInv

\* TypeOK and the rest, with the numbers.
LEMMA StreamIs ==
  ASSUME StreamInv
  PROVE  /\ batchPc \in {"down", "run", "save", "fill", "returned", "raised"}
         /\ mode = "stream" /\ first = 1 /\ held = 0
         /\ starts \in 0..StreamStarts /\ nextOut \in 1..(P + 1)
         /\ task \in [1..P -> [st : {"new", "running", "success", "exception", "expired"}, res : Stream!Item]]
         /\ outputs \in Seq(Stream!Item)
         /\ cache \in [1..P -> Stream!Item \cup {Absent}]
         /\ cacheFile \in [1..P -> Stream!Item \cup {Absent}] \cup {NoFile, Torn}
         /\ delivered \in [1..P -> Seq(Stream!Item)]
         /\ Stream!LastOf(first) = P /\ Stream!Batch = 1..P
<1>1. Stream!TypeOK /\ mode = "stream" /\ first = 1 /\ held = 0
  BY DEF StreamInv, StreamTyped
<1>2. Stream!LastOf(first) = P /\ Stream!Batch = 1..P
  BY <1>1 DEF Stream!LastOf, Stream!Batch
<1>3. Stream!Prompts = 1..P
  BY BatchNumbers
<1> QED
  BY <1>1, <1>2, <1>3 DEF Stream!TypeOK, Stream!CacheOf

\* A new start takes the cache from the file.
LEMMA StreamStart == StreamInv /\ Stream!Start => StreamInv'
<1> SUFFICES ASSUME StreamInv, Stream!Start PROVE StreamInv'
  OBVIOUS
<1>0. OwnAnswers /\ starts \in 0..StreamStarts
      /\ cacheFile \in [1..P -> Stream!Item \cup {Absent}] \cup {NoFile, Torn}
      /\ (\A i \in 1..P : i # Absent) /\ P \in Nat /\ P >= 1 /\ N \in Nat /\ StreamStarts \in Nat
  BY StreamIs, BatchNumbers DEF StreamInv
<1>1. /\ cacheFile # Torn /\ cacheFile' = cacheFile
      /\ starts' = starts + 1 /\ starts < StreamStarts /\ batchPc' = "run" /\ mode' = "stream"
      /\ first' = 1 /\ held' = 0 /\ nextOut' = 1
  BY DEF Stream!Start
<1>2. /\ task' = [i \in 1..P |-> [st |-> "new", res |-> NoList]]
      /\ outputs' = [i \in 1..P |-> NoList]
      /\ delivered' = [i \in 1..P |-> <<>>]
      /\ cache' = IF UseCache /\ cacheFile # NoFile THEN cacheFile ELSE [i \in 1..P |-> Absent]
  BY <1>1, BatchNumbers DEF Stream!Start, Stream!Fresh, Stream!Task, Stream!NoCache
<1>3. /\ outputs' \in [1..P -> Stream!Item] /\ outputs' \in Seq(Stream!Item)
      /\ delivered' \in [1..P -> Seq(Stream!Item)]
  <2>1. outputs' \in [1..P -> Stream!Item]
    BY <1>2 DEF Stream!Item
  <2>2. outputs' \in Seq(Stream!Item)
    BY <2>1, <1>0, ListOf
  <2>3. <<>> \in Seq(Stream!Item)
    BY EmptySeq
  <2> QED
    BY <2>1, <2>2, <2>3, <1>2
<1>4. cache' \in [1..P -> Stream!Item \cup {Absent}]
  BY <1>0, <1>1, <1>2
<1>5. StreamTyped'
  <2>1. starts' \in 0..StreamStarts /\ first' \in 1..P /\ held' \in 0..(P * N) /\ nextOut' \in 1..(P + 1)
    <3>1. P * N \in Nat
      BY <1>0
    <3> QED
      BY <1>0, <1>1, <3>1
  <2>2. task' \in [1..P -> [st : {"new", "running", "success", "exception", "expired"}, res : Stream!Item]]
    BY <1>2 DEF Stream!Item
  <2> QED
    BY <2>1, <2>2, <1>0, <1>1, <1>3, <1>4, BatchNumbers DEF StreamTyped, Stream!TypeOK, Stream!CacheOf
<1>6. StreamTasks' /\ StreamKeeps'
  <2>1. \A i \in 1..P : task'[i].st = "new"
    BY <1>2
  <2> QED
    BY <2>1, <1>1, <1>2 DEF StreamTasks, StreamKeeps, Legible
<1>7. StreamOutputs'
  <2>1. \A i \in 1..P : outputs'[i] = NoList /\ ~(i < nextOut')
    BY <1>1, <1>2
  <2> QED
    BY <2>1, <1>1, <1>3 DEF StreamOutputs
<1>8. StreamDelivered'
  <2>1. DOMAIN <<>> = {}
    OBVIOUS
  <2> QED
    BY <2>1, <1>2 DEF StreamDelivered
<1>9. OwnAnswers'
  BY <1>0, <1>1, <1>2, BatchNumbers DEF OwnAnswers, Stream!Own, Legible
<1> QED
  BY <1>5, <1>6, <1>7, <1>8, <1>9 DEF StreamInv

\* The pool: only the task of one prompt changes, and it was not yet done.
LEMMA StreamTaskStep ==
  ASSUME StreamInv, NEW i \in 1..P,
         NEW t \in [st : {"new", "running", "success", "exception", "expired"}, res : Stream!Item],
         task' = [task EXCEPT ![i] = t], ~Stream!Done(i), batchPc = "run",
         t.st = "success" => t.res \in Answers(i),
         UseCache /\ Legible /\ cacheFile[i] = i =>
           t.st # "exception" /\ (t.st = "success" => t.res = i),
         UNCHANGED <<batchPc, mode, starts, first, held, nextOut, outputs, cache, cacheFile, delivered>>
  PROVE  StreamInv'
<1>1. /\ StreamTyped /\ StreamTasks /\ StreamOutputs /\ StreamDelivered /\ OwnAnswers /\ StreamKeeps
  BY DEF StreamInv
<1>2. task \in [1..P -> [st : {"new", "running", "success", "exception", "expired"}, res : Stream!Item]]
  BY StreamIs
<1>3. /\ task' \in [1..P -> [st : {"new", "running", "success", "exception", "expired"}, res : Stream!Item]]
      /\ task'[i] = t /\ \A j \in 1..P : j # i => task'[j] = task[j]
  BY <1>2
<1>4. StreamTyped'
  BY <1>1, <1>3, BatchNumbers DEF StreamTyped, Stream!TypeOK, Stream!CacheOf
<1>5. StreamTasks'
  BY <1>1, <1>3 DEF StreamTasks
<1>6. StreamOutputs'
  <2>1. ~(i < nextOut)
    BY <1>1 DEF StreamOutputs
  <2>2. \A j \in 1..P : j < nextOut => task'[j] = task[j]
    BY <2>1, <1>3
  <2>3. \A j \in 1..P : j < nextOut => Stream!Done(j)'
    BY <2>2, <1>1 DEF StreamOutputs, Stream!Done
  <2>4. \A j \in 1..P : outputs[j] = IF j < nextOut /\ task'[j].st = "success" THEN task'[j].res ELSE NoList
    BY <2>2, <1>1 DEF StreamOutputs
  <2> QED
    BY <2>3, <2>4, <1>1 DEF StreamOutputs
<1>7. StreamDelivered' /\ OwnAnswers'
  BY <1>1 DEF StreamDelivered, OwnAnswers, Stream!Own, Legible
<1>8. StreamKeeps'
  BY <1>1, <1>3 DEF StreamKeeps, Legible
<1> QED
  BY <1>4, <1>5, <1>6, <1>7, <1>8 DEF StreamInv

\* A worker takes a task.
LEMMA StreamTake ==
  ASSUME NEW i \in 1..P
  PROVE  StreamInv /\ Stream!Take(i) => StreamInv'
<1> SUFFICES ASSUME StreamInv, Stream!Take(i) PROVE StreamInv'
  OBVIOUS
<1>1. task \in [1..P -> [st : {"new", "running", "success", "exception", "expired"}, res : Stream!Item]]
  BY StreamIs
<1> DEFINE t == [task[i] EXCEPT !.st = "running"]
<1>2. task' = [task EXCEPT ![i] = t] /\ task[i].st = "new" /\ batchPc = "run"
  BY <1>1 DEF Stream!Take
<1>3. t \in [st : {"new", "running", "success", "exception", "expired"}, res : Stream!Item] /\ t.st = "running"
  BY <1>1
<1>4. ~Stream!Done(i)
  BY <1>2 DEF Stream!Done
<1>5. UNCHANGED <<batchPc, mode, starts, first, held, nextOut, outputs, cache, cacheFile, delivered>>
  BY DEF Stream!Take
<1> HIDE DEF t
<1> QED
  BY <1>2, <1>3, <1>4, <1>5, StreamTaskStep

\* A whole list in the cache is taken over; what the model answers is for the prompt.
LEMMA StreamOutcome ==
  ASSUME StreamInv, batchPc = "run", NEW i \in 1..P, NEW t \in Stream!Outcome(i)
  PROVE  /\ t \in [st : {"new", "running", "success", "exception", "expired"}, res : Stream!Item]
         /\ t.st = "success" => t.res \in Answers(i)
         /\ UseCache /\ Legible /\ cacheFile[i] = i =>
              t.st # "exception" /\ (t.st = "success" => t.res = i)
<1>1. OwnAnswers /\ StreamKeeps
  BY DEF StreamInv
<1>2. Stream!Prompts = 1..P
  BY BatchNumbers
<1>3. CASE Stream!Hit(i)
  <2>1. t = [st |-> "expired", res |-> NoList] \/ t = [st |-> "success", res |-> cache[i]]
    <3>1. ~Stream!BadHit(i)
      BY <1>2, <1>3, BatchNumbers DEF Stream!Hit, Stream!BadHit
    <3> QED
      BY <1>3, <3>1 DEF Stream!Outcome, Stream!Task
  <2>2. cache[i] = i
    BY <1>1, <1>2, <1>3 DEF Stream!Hit, OwnAnswers, Stream!Own
  <2> QED
    BY <2>1, <2>2, <1>2 DEF Stream!Item, Answers
<1>4. CASE ~Stream!Hit(i)
  <2>1. \/ t = [st |-> "expired", res |-> NoList] \/ t = [st |-> "success", res |-> i]
        \/ t = [st |-> "success", res |-> None] \/ t = [st |-> "exception", res |-> NoList]
    BY <1>4 DEF Stream!Outcome, Stream!Task
  <2>2. ~(UseCache /\ Legible /\ cacheFile[i] = i)
    BY <1>1, <1>2, <1>4 DEF Stream!Hit, StreamKeeps
  <2> QED
    BY <2>1, <2>2, <1>2 DEF Stream!Item, Answers
<1> QED
  BY <1>3, <1>4

\* A task ends.
LEMMA StreamFinish ==
  ASSUME NEW i \in 1..P
  PROVE  StreamInv /\ Stream!Finish(i) => StreamInv'
<1> SUFFICES ASSUME StreamInv, Stream!Finish(i) PROVE StreamInv'
  OBVIOUS
<1>1. PICK t \in Stream!Outcome(i) : task' = [task EXCEPT ![i] = t]
  BY DEF Stream!Finish
<1>2. batchPc = "run" /\ task[i].st = "running"
  BY DEF Stream!Finish
<1>3. ~Stream!Done(i)
  BY <1>2 DEF Stream!Done
<1>4. UNCHANGED <<batchPc, mode, starts, first, held, nextOut, outputs, cache, cacheFile, delivered>>
  BY DEF Stream!Finish
<1> QED
  BY <1>1, <1>2, <1>3, <1>4, StreamOutcome, StreamTaskStep

\* A step that touches neither tasks nor results.
LEMMA StreamElse ==
  ASSUME StreamInv, batchPc' \in {"down", "run", "save", "fill", "returned", "raised"},
         UNCHANGED <<mode, starts, first, held, task, nextOut, outputs, delivered>>,
         batchPc # "down", batchPc' # "down", batchPc' # "run" \/ UNCHANGED <<cache, cacheFile, batchPc>>,
         batchPc' \in {"save", "fill", "returned"} => nextOut > P,
         cache' \in [1..P -> Stream!Item \cup {Absent}],
         cacheFile' \in [1..P -> Stream!Item \cup {Absent}] \cup {NoFile, Torn},
         OwnAnswers',
         batchPc' = "save" /\ Legible' => \A i \in 1..P : cacheFile'[i] = i =>
           cache'[i] = i \/ task[i].st = "expired"
  PROVE  StreamInv'
<1>1. /\ StreamTyped /\ StreamTasks /\ StreamOutputs /\ StreamDelivered /\ OwnAnswers /\ StreamKeeps
  BY DEF StreamInv
<1>2. StreamTyped'
  BY <1>1, BatchNumbers DEF StreamTyped, Stream!TypeOK, Stream!CacheOf
<1>3. StreamTasks' /\ StreamDelivered'
  BY <1>1 DEF StreamTasks, StreamDelivered
<1>4. StreamOutputs'
  BY <1>1 DEF StreamOutputs, Stream!Done
<1>5. StreamKeeps'
  BY <1>1 DEF StreamKeeps, Legible
<1> QED
  BY <1>2, <1>3, <1>4, <1>5 DEF StreamInv

\* The next result is put in its place, and handed on.
LEMMA StreamYield == StreamInv /\ Stream!Yield => StreamInv'
<1> SUFFICES ASSUME StreamInv, Stream!Yield PROVE StreamInv'
  OBVIOUS
<1>1. /\ StreamTyped /\ StreamTasks /\ StreamOutputs /\ StreamDelivered /\ OwnAnswers /\ StreamKeeps
  BY DEF StreamInv
<1>2. /\ batchPc = "run" /\ nextOut \in 1..P /\ Stream!Done(nextOut)
      /\ UNCHANGED <<mode, starts, first, held, task, cache, cacheFile>>
  BY StreamIs DEF Stream!Yield
<1>3. CASE batchPc' = "raised" /\ UNCHANGED <<nextOut, outputs, delivered>>
  BY <1>1, <1>2, <1>3, StreamElse, StreamIs DEF OwnAnswers, Stream!Own, Legible
<1>4. CASE /\ batchPc' = batchPc /\ nextOut' = nextOut + 1 /\ outputs' = Stream!After(nextOut)
           /\ Stream!Callback(nextOut)
  <2> DEFINE n == nextOut
             r == task[nextOut].res
  <2>1. n \in 1..P /\ n \in Nat /\ r \in Stream!Item /\ mode = "stream"
    BY <1>2, StreamIs
  <2>2. /\ outputs \in [1..P -> Stream!Item]
        /\ \A i \in 1..P :
             outputs[i] = IF i < n /\ task[i].st = "success" THEN task[i].res ELSE NoList
        /\ \A i \in 1..P : i < n => Stream!Done(i)
    BY <1>1, <1>2 DEF StreamOutputs
  <2>3. outputs' = IF task[n].st = "success" THEN [outputs EXCEPT ![n] = r] ELSE outputs
    BY <1>4, <2>1 DEF Stream!After
  <2>4. outputs' \in [1..P -> Stream!Item] /\ outputs' \in Seq(Stream!Item)
    <3>1. outputs' \in [1..P -> Stream!Item]
      BY <2>1, <2>2, <2>3
    <3> QED
      BY <3>1, BatchNumbers, ListOf
  <2>5. \A i \in 1..P : (i < n + 1) = (i < n \/ i = n)
    BY <2>1
  <2>6. \A i \in 1..P : outputs'[i] = IF i < n + 1 /\ task[i].st = "success" THEN task[i].res ELSE NoList
    <3>1. ASSUME NEW i \in 1..P
          PROVE  outputs'[i] = IF i < n + 1 /\ task[i].st = "success" THEN task[i].res ELSE NoList
      <4>1. CASE i = n
        <5>1. ~(n < n) /\ n < n + 1
          BY <2>1
        <5>2. outputs'[n] = IF task[n].st = "success" THEN r ELSE NoList
          BY <2>1, <2>2, <2>3, <5>1
        <5> QED
          BY <4>1, <5>1, <5>2
      <4>2. CASE i # n
        <5>1. outputs'[i] = outputs[i]
          BY <2>2, <2>3, <4>2
        <5> QED
          BY <5>1, <2>2, <2>5, <4>2
      <4> QED
        BY <4>1, <4>2
    <3> QED
      BY <3>1
  <2>7. \A i \in 1..P : i < n + 1 => Stream!Done(i)
    BY <2>2, <2>5, <1>2
  <2>8. StreamOutputs'
    <3> HIDE DEF n
    <3>1. nextOut' = n + 1 /\ task' = task /\ batchPc' = "run"
      BY <1>2, <1>4 DEF n
    <3> QED
      BY <3>1, <2>4, <2>6, <2>7 DEF StreamOutputs, Stream!Done
  <2>9. delivered' \in [1..P -> Seq(Stream!Item)] /\ StreamDelivered'
    <3>1. delivered \in [1..P -> Seq(Stream!Item)]
      BY StreamIs
    <3>2. CASE task[n].st = "success" /\ r # None
      <4>1. PICK k \in 0..N : delivered' = [delivered EXCEPT ![n] = [j \in 1..k |-> r]]
        BY <3>2, <1>4, <2>1 DEF Stream!Callback
      <4>2. r = n
        BY <3>2, <1>1, <2>1 DEF StreamTasks, Answers
      <4>3. k \in Nat
        BY BatchNumbers
      <4> DEFINE l == [j \in 1..k |-> r]
      <4>4. l \in [1..k -> Stream!Item]
        BY <2>1
      <4>5. l \in Seq(Stream!Item) /\ DOMAIN l = 1..k /\ \A j \in 1..k : l[j] = n
        <5>1. l \in Seq(Stream!Item)
          <6> HIDE DEF l
          <6> QED
            BY <4>3, <4>4, ListOf
        <5> QED
          BY <5>1, <4>2
      <4> HIDE DEF l, n, r
      <4> QED
        BY <4>1, <4>5, <3>1, <2>1, <1>1 DEF StreamDelivered, l
    <3>3. CASE ~(task[n].st = "success" /\ r # None)
      <4>1. delivered' = delivered
        BY <3>3, <1>4, <2>1 DEF Stream!Callback
      <4> QED
        BY <4>1, <3>1, <1>1 DEF StreamDelivered
    <3> QED
      BY <3>2, <3>3
  <2>10. StreamTyped'
    <3>1. nextOut' \in 1..(P + 1)
      BY <1>4, <2>1, BatchNumbers
    <3> QED
      BY <3>1, <2>4, <2>9, <1>1, <1>2, <1>4, BatchNumbers DEF StreamTyped, Stream!TypeOK, Stream!CacheOf
  <2>11. StreamTasks' /\ OwnAnswers' /\ StreamKeeps'
    BY <1>1, <1>2, <1>4 DEF StreamTasks, OwnAnswers, Stream!Own, Legible, StreamKeeps
  <2> QED
    BY <2>8, <2>9, <2>10, <2>11 DEF StreamInv
<1> QED
  BY <1>3, <1>4 DEF Stream!Yield

\* The answers go into the cache, each in its place.
LEMMA StreamEnd == StreamInv /\ Stream!EndBatch => StreamInv'
<1> SUFFICES ASSUME StreamInv, Stream!EndBatch PROVE StreamInv'
  OBVIOUS
<1>1. /\ StreamTyped /\ StreamTasks /\ StreamOutputs /\ StreamDelivered /\ OwnAnswers /\ StreamKeeps
  BY DEF StreamInv
<1>2. /\ batchPc = "run" /\ nextOut > P /\ UNCHANGED <<mode, starts, task, nextOut, outputs, cacheFile, delivered>>
  BY StreamIs DEF Stream!EndBatch
<1>3. P \in Nat /\ nextOut \in Nat /\ first = 1 /\ held = 0 /\ Stream!LastOf(first) = P /\ Stream!Batch = 1..P
  BY StreamIs, BatchNumbers
<1>4. CASE ~UseCache
  <2>1. batchPc' = "returned" /\ UNCHANGED <<first, held, cache>>
    BY <1>3, <1>4 DEF Stream!EndBatch, Stream!GoOn
  <2> QED
    BY <2>1, <1>1, <1>2, StreamElse, StreamIs DEF OwnAnswers, Stream!Own, Legible
<1>5. CASE UseCache
  <2>1. batchPc' = "save" /\ cache' = Stream!Zipped /\ UNCHANGED <<first, held>>
    BY <1>5 DEF Stream!EndBatch
  <2>2. outputs \in [1..P -> Stream!Item] /\ outputs \in Seq(Stream!Item) /\ Len(outputs) = P
    <3>1. outputs \in [1..P -> Stream!Item]
      BY <1>1, <1>2 DEF StreamOutputs
    <3> QED
      BY <3>1, <1>3, ListOf
  <2>3. Stream!Added = outputs
    <3>1. SubSeq(outputs, 1, Len(outputs)) = outputs
      BY <2>2, SubSeqFull
    <3> QED
      BY <3>1, <1>3 DEF Stream!Added
  <2>4. cache' = [i \in 1..P |-> outputs[i]]
    <3>1. \A i \in 1..P : i - first + 1 = i /\ i <= P
      BY <1>3
    <3>2. Stream!Zipped = [i \in 1..P |-> IF i - first + 1 <= P THEN outputs[i - first + 1] ELSE cache[i]]
      BY <2>2, <2>3, <1>3, BatchNumbers DEF Stream!Zipped
    <3>3. [i \in 1..P |-> IF i - first + 1 <= P THEN outputs[i - first + 1] ELSE cache[i]] = [i \in 1..P |-> outputs[i]]
      BY <3>1
    <3> QED
      BY <2>1, <3>2, <3>3
  <2>5. ASSUME NEW i \in 1..P
        PROVE  /\ cache'[i] = IF task[i].st = "success" THEN task[i].res ELSE NoList
               /\ Stream!Done(i)
    <3>1. i < nextOut
      BY <1>2, <1>3
    <3> QED
      BY <3>1, <2>4, <1>1, <1>2 DEF StreamOutputs
  <2>6. \A i \in 1..P : cache'[i] \in {i, None, NoList}
    BY <2>5, <1>1 DEF StreamTasks, Answers
  <2>7. cache' \in [1..P -> Stream!Item \cup {Absent}]
    BY <2>2, <2>4
  <2>8. OwnAnswers'
    BY <2>6, <1>1, <1>2, BatchNumbers DEF OwnAnswers, Stream!Own, Legible
  <2>9. ASSUME Legible, NEW i \in 1..P, cacheFile[i] = i
        PROVE  cache'[i] = i \/ task[i].st = "expired"
    <3>1. task[i].st # "exception" /\ (task[i].st = "success" => task[i].res = i)
      BY <2>9, <1>1, <1>2, <1>5 DEF StreamKeeps
    <3> QED
      BY <3>1, <2>5 DEF Stream!Done
  <2>10. Legible' = Legible
    BY <1>2 DEF Legible
  <2> QED
    BY <2>1, <2>7, <2>8, <2>9, <2>10, <1>1, <1>2, StreamElse, StreamIs
<1> QED
  BY <1>4, <1>5

\* The cache file is opened, then written.
LEMMA StreamSave == StreamInv /\ (Stream!OpenCache \/ Stream!FillCache) => StreamInv'
<1> SUFFICES ASSUME StreamInv, Stream!OpenCache \/ Stream!FillCache PROVE StreamInv'
  OBVIOUS
<1>1. StreamOutputs /\ OwnAnswers /\ StreamKeeps
  BY DEF StreamInv
<1>2. CASE Stream!OpenCache
  <2>1. /\ batchPc = "save" /\ batchPc' = "fill" /\ cacheFile' = Torn
        /\ UNCHANGED <<mode, starts, first, held, task, nextOut, outputs, cache, delivered>>
    BY <1>2 DEF Stream!OpenCache
  <2>2. OwnAnswers' /\ nextOut > P
    BY <2>1, <1>1 DEF OwnAnswers, Stream!Own, Legible, StreamOutputs
  <2> QED
    BY <2>1, <2>2, StreamElse, StreamIs
<1>3. CASE Stream!FillCache
  <2>1. /\ batchPc = "fill" /\ batchPc' = "returned" /\ cacheFile' = cache
        /\ UNCHANGED <<mode, starts, first, held, task, nextOut, outputs, cache, delivered>>
    BY <1>3, StreamIs, BatchNumbers DEF Stream!FillCache, Stream!GoOn
  <2>2. OwnAnswers' /\ nextOut > P
    BY <2>1, <1>1 DEF OwnAnswers, Stream!Own, Legible, StreamOutputs
  <2> QED
    BY <2>1, <2>2, StreamElse, StreamIs
<1> QED
  BY <1>2, <1>3

\* A kill leaves the cache file.
LEMMA StreamCrash == StreamInv /\ Stream!Crash => StreamInv'
<1> SUFFICES ASSUME StreamInv, Stream!Crash PROVE StreamInv'
  OBVIOUS
<1>1. /\ StreamTyped /\ StreamTasks /\ StreamOutputs /\ StreamDelivered /\ OwnAnswers /\ StreamKeeps
  BY DEF StreamInv
<1>2. /\ batchPc' = "down" /\ outputs' = <<>> /\ UNCHANGED <<mode, starts, first, held, nextOut, cacheFile, delivered>>
      /\ cache' = [i \in 1..P |-> Absent] /\ task' = [i \in 1..P |-> [st |-> "new", res |-> NoList]]
  BY BatchNumbers DEF Stream!Crash, Stream!NoCache, Stream!Fresh, Stream!Task
<1>3. StreamTyped'
  <2>1. outputs' \in Seq(Stream!Item)
    BY <1>2, EmptySeq
  <2> QED
    BY <2>1, <1>1, <1>2, BatchNumbers DEF StreamTyped, Stream!TypeOK, Stream!CacheOf, Stream!Item
<1>4. StreamTasks' /\ StreamOutputs' /\ StreamKeeps' /\ StreamDelivered'
  BY <1>1, <1>2 DEF StreamTasks, StreamOutputs, StreamKeeps, StreamDelivered
<1>5. OwnAnswers'
  BY <1>1, <1>2, BatchNumbers DEF OwnAnswers, Stream!Own, Legible
<1> QED
  BY <1>3, <1>4, <1>5 DEF StreamInv

\* Every step of a streaming run keeps the invariant.
LEMMA StreamNext == StreamInv /\ (Stream!Next \/ UNCHANGED batchVars) => StreamInv'
<1>1. StreamInv /\ UNCHANGED batchVars => StreamInv'
  BY DEF StreamInv, StreamTyped, Stream!TypeOK, StreamTasks, StreamOutputs, Stream!Done, StreamDelivered,
         OwnAnswers, Stream!Own, Legible, StreamKeeps, batchVars
<1>2. Stream!Prompts = 1..P
  BY BatchNumbers
<1> QED
  BY <1>1, <1>2, StreamStart, StreamTake, StreamFinish, StreamYield, StreamEnd, StreamSave, StreamCrash
  DEF Stream!Next, Stream!Pool, Stream!Main

\* What the run promises.
LEMMA StreamPromise == StreamInv => Stream!TypeOK /\ Stream!StreamAligned /\ Stream!CacheStep
<1> SUFFICES ASSUME StreamInv PROVE Stream!TypeOK /\ Stream!StreamAligned /\ Stream!CacheStep
  OBVIOUS
<1>1. /\ StreamTyped /\ StreamTasks /\ StreamOutputs /\ StreamDelivered /\ StreamKeeps
  BY DEF StreamInv
<1>2. Stream!Prompts = 1..P /\ P \in Nat /\ nextOut \in Nat
  BY StreamIs, BatchNumbers
<1>3. ASSUME batchPc = "returned"
      PROVE  /\ Len(outputs) = P
             /\ \A i \in 1..P :
                  outputs[i] = IF task[i].st = "success" THEN task[i].res ELSE NoList
             /\ \A i \in 1..P : outputs[i] \in {i, NoList, None}
  <2>1. outputs \in [1..P -> Stream!Item] /\ nextOut > P
    BY <1>1, <1>3 DEF StreamOutputs
  <2>2. Len(outputs) = P
    BY <2>1, <1>2, ListOf
  <2>3. \A i \in 1..P : i < nextOut
    BY <2>1, <1>2
  <2>4. \A i \in 1..P : outputs[i] = IF task[i].st = "success" THEN task[i].res ELSE NoList
    BY <2>3, <1>1, <1>3 DEF StreamOutputs
  <2> QED
    BY <2>2, <2>4, <1>1 DEF StreamTasks, Answers
<1>4. Stream!StreamAligned
  BY <1>1, <1>2, <1>3 DEF Stream!StreamAligned, StreamDelivered
<1>5. Stream!CacheStep
  BY <1>1, <1>2 DEF Stream!CacheStep, StreamKeeps, Legible
<1> QED
  BY <1>1, <1>4, <1>5 DEF StreamTyped

-----------------------------------------------------------------------------
(* BatchRunner without a pool: a task that fails is the end of the command.*)

LoopTyped == Loop!TypeOK /\ held = first - 1

\* The list so far has the answers of the prompts in their order.
LoopOutputs ==
  batchPc # "down" =>
    /\ \A i \in 1..Len(outputs) : outputs[i] \in {i, None, NoList}
    /\ mode = "batch" => Len(outputs) = nextOut - 1
    /\ mode = "stream" => Len(outputs) = P
    /\ nextOut <= Loop!LastOf(first) + 1
    /\ batchPc \in {"save", "fill"} => nextOut = Loop!LastOf(first) + 1

LoopInv == LoopTyped /\ StreamTasks /\ LoopOutputs /\ OwnAnswers

\* Both instances mean the same by it.
LEMMA LoopOwn == \A c : Loop!Own(c) = Stream!Own(c)
BY BatchNumbers DEF Loop!Own, Stream!Own

\* TypeOK and the rest, with the numbers.
LEMMA LoopIs ==
  ASSUME LoopInv
  PROVE  /\ batchPc \in {"down", "run", "save", "fill", "returned", "raised"}
         /\ mode \in {"stream", "batch"} /\ first \in 1..P /\ held = first - 1
         /\ starts \in 0..LoopStarts /\ nextOut \in 1..(P + 1)
         /\ task \in [1..P -> [st : {"new", "running", "success", "exception", "expired"}, res : Loop!Item]]
         /\ outputs \in Seq(Loop!Item)
         /\ cache \in [1..P -> Loop!Item \cup {Absent}]
         /\ cacheFile \in [1..P -> Loop!Item \cup {Absent}] \cup {NoFile, Torn}
         /\ delivered \in [1..P -> Seq(Loop!Item)]
BY BatchNumbers DEF LoopInv, LoopTyped, Loop!TypeOK, Loop!CacheOf

\* Where a batch ends.
LEMMA LastIs ==
  ASSUME first \in 1..P
  PROVE  /\ Loop!LastOf(first) \in 1..P /\ first <= Loop!LastOf(first)
         /\ mode # "batch" => Loop!LastOf(first) = P
<1>1. P \in Nat /\ first \in Nat /\ first >= 1 /\ first <= P /\ LoopBatch \in Nat /\ LoopBatch >= 1
  BY BatchNumbers
<1>2. CASE mode = "batch" /\ UseCache /\ first + LoopBatch - 1 < P
  <2>1. Loop!LastOf(first) = first + LoopBatch - 1
    BY <1>2 DEF Loop!LastOf
  <2> QED
    BY <2>1, <1>1, <1>2
<1>3. CASE ~(mode = "batch" /\ UseCache /\ first + LoopBatch - 1 < P)
  <2>1. Loop!LastOf(first) = P
    BY <1>3 DEF Loop!LastOf
  <2> QED
    BY <2>1, <1>1
<1> QED
  BY <1>2, <1>3

\* As many outputs as prompts at most.
LEMMA Product == P * N \in Nat /\ P <= P * N
<1>1. P \in Nat /\ N \in Nat /\ N >= 1
  BY BatchNumbers
<1> DEFINE k == N - 1
<1>2. k \in Nat /\ N = k + 1
  BY <1>1
<1> HIDE DEF k
<1>3. P * k \in Nat
  BY <1>1, <1>2
<1>4. P * (k + 1) = P * k + P
  BY <1>1, <1>2
<1> QED
  BY <1>1, <1>2, <1>3, <1>4

\* No batch begins later than at the last prompt.
LEMMA HeldIs ==
  ASSUME first \in 1..P
  PROVE  first - 1 \in 0..(P * N)
<1>1. P * N \in Nat /\ P <= P * N /\ P \in Nat
  BY Product, BatchNumbers
<1> DEFINE q == P * N
<1> HIDE DEF q
<1>2. q \in Nat /\ P <= q
  BY <1>1 DEF q
<1>3. first - 1 \in 0..q
  BY <1>1, <1>2
<1> QED
  BY <1>3 DEF q

\* The command was not yet started.
LEMMA LoopStarts0 == Loop!Init => LoopInv
<1> SUFFICES ASSUME Loop!Init PROVE LoopInv
  OBVIOUS
<1>1. /\ batchPc = "down" /\ mode \in {"stream", "batch"} /\ starts = 0 /\ first = 1 /\ held = 0 /\ nextOut = 1
      /\ task = [i \in 1..P |-> [st |-> "new", res |-> NoList]]
      /\ outputs = <<>> /\ cache = [i \in 1..P |-> Absent] /\ cacheFile = NoFile
      /\ delivered = [i \in 1..P |-> <<>>]
  BY BatchNumbers DEF Loop!Init, Loop!Fresh, Loop!Task, Loop!NoCache
<1>2. starts \in 0..LoopStarts /\ first \in 1..P /\ nextOut \in 1..(P + 1) /\ held = first - 1
  BY <1>1, BatchNumbers
<1>3. held \in 0..(P * N)
  BY <1>2, HeldIs
<1>4. outputs \in Seq(Loop!Item) /\ delivered \in [1..P -> Seq(Loop!Item)]
  BY <1>1, EmptySeq
<1>5. LoopTyped
  BY <1>1, <1>2, <1>3, <1>4, BatchNumbers DEF LoopTyped, Loop!TypeOK, Loop!Item, Loop!CacheOf
<1>6. StreamTasks /\ LoopOutputs
  BY <1>1 DEF StreamTasks, LoopOutputs
<1>7. OwnAnswers
  BY <1>1, BatchNumbers DEF OwnAnswers, Stream!Own, Legible
<1> QED
  BY <1>5, <1>6, <1>7 DEF LoopInv

\* A new start takes the cache from the file.
LEMMA LoopStart == LoopInv /\ Loop!Start => LoopInv'
<1> SUFFICES ASSUME LoopInv, Loop!Start PROVE LoopInv'
  OBVIOUS
<1>0. OwnAnswers /\ starts \in 0..LoopStarts
      /\ cacheFile \in [1..P -> Loop!Item \cup {Absent}] \cup {NoFile, Torn}
      /\ (\A i \in 1..P : i # Absent) /\ P \in Nat /\ P >= 1 /\ N \in Nat /\ LoopStarts \in Nat
  BY LoopIs, BatchNumbers DEF LoopInv
<1>1. /\ cacheFile # Torn /\ cacheFile' = cacheFile
      /\ starts' = starts + 1 /\ starts < LoopStarts /\ batchPc' = "run" /\ mode' \in {"stream", "batch"}
      /\ first' = 1 /\ held' = 0 /\ nextOut' = 1
  BY DEF Loop!Start
<1>2. /\ task' = [i \in 1..P |-> [st |-> "new", res |-> NoList]]
      /\ outputs' = IF mode' = "stream" THEN [i \in 1..P |-> NoList] ELSE <<>>
      /\ delivered' = [i \in 1..P |-> <<>>]
      /\ cache' = IF UseCache /\ cacheFile # NoFile THEN cacheFile ELSE [i \in 1..P |-> Absent]
  BY <1>1, BatchNumbers DEF Loop!Start, Loop!Fresh, Loop!Task, Loop!NoCache
<1>3. /\ outputs' \in Seq(Loop!Item)
      /\ Len(outputs') = IF mode' = "stream" THEN P ELSE 0
      /\ \A i \in 1..Len(outputs') : outputs'[i] = NoList
  <2>1. CASE mode' = "stream"
    <3>1. outputs' \in [1..P -> Loop!Item] /\ \A i \in 1..P : outputs'[i] = NoList
      BY <2>1, <1>2 DEF Loop!Item
    <3>2. outputs' \in Seq(Loop!Item) /\ Len(outputs') = P
      BY <3>1, <1>0, ListOf
    <3> QED
      BY <3>1, <3>2, <2>1
  <2>2. CASE mode' # "stream"
    <3>1. outputs' = <<>> /\ Len(<<>>) = 0 /\ 1..0 = {}
      BY <2>2, <1>2
    <3> QED
      BY <3>1, <2>2, EmptySeq
  <2> QED
    BY <2>1, <2>2
<1>4. cache' \in [1..P -> Loop!Item \cup {Absent}]
  BY <1>0, <1>1, <1>2
<1>5. LoopTyped'
  <2>1. starts' \in 0..LoopStarts /\ first' \in 1..P /\ nextOut' \in 1..(P + 1) /\ held' = first' - 1
    BY <1>0, <1>1
  <2>2. held' \in 0..(P * N)
    <3>1. P * N \in Nat
      BY Product
    <3> QED
      BY <1>1, <3>1
  <2>3. task' \in [1..P -> [st : {"new", "running", "success", "exception", "expired"}, res : Loop!Item]]
    BY <1>2 DEF Loop!Item
  <2>4. delivered' \in [1..P -> Seq(Loop!Item)]
    BY <1>2, EmptySeq
  <2> QED
    BY <2>1, <2>2, <2>3, <2>4, <1>0, <1>1, <1>3, <1>4, BatchNumbers DEF LoopTyped, Loop!TypeOK, Loop!CacheOf
<1>6. StreamTasks'
  BY <1>2 DEF StreamTasks
<1>7. LoopOutputs'
  <2>1. Loop!LastOf(first)' \in 1..P
    <3>1. first' \in 1..P
      BY <1>0, <1>1
    <3>2. (first \in 1..P => Loop!LastOf(first) \in 1..P)'
      BY LastIs, PTL
    <3> QED
      BY <3>1, <3>2
  <2> QED
    BY <2>1, <1>0, <1>1, <1>3 DEF LoopOutputs
<1>8. OwnAnswers'
  BY <1>0, <1>1, <1>2, BatchNumbers DEF OwnAnswers, Stream!Own, Legible
<1> QED
  BY <1>5, <1>6, <1>7, <1>8 DEF LoopInv

\* A step that touches neither tasks nor results nor the place of the batch.
LEMMA LoopElse ==
  ASSUME LoopInv, batchPc' \in {"down", "run", "save", "fill", "returned", "raised"},
         UNCHANGED <<mode, starts, first, held, task, nextOut, outputs, delivered>>,
         batchPc # "down", batchPc' # "down",
         batchPc' \in {"save", "fill"} => nextOut = Loop!LastOf(first) + 1,
         cache' \in [1..P -> Loop!Item \cup {Absent}],
         cacheFile' \in [1..P -> Loop!Item \cup {Absent}] \cup {NoFile, Torn},
         OwnAnswers'
  PROVE  LoopInv'
<1>1. LoopTyped /\ StreamTasks /\ LoopOutputs
  BY DEF LoopInv
<1>2. LoopTyped'
  BY <1>1, BatchNumbers DEF LoopTyped, Loop!TypeOK, Loop!CacheOf
<1>3. StreamTasks'
  BY <1>1 DEF StreamTasks
<1>4. Loop!LastOf(first)' = Loop!LastOf(first)
  BY DEF Loop!LastOf
<1>5. LoopOutputs'
  BY <1>1, <1>4 DEF LoopOutputs
<1> QED
  BY <1>2, <1>3, <1>5 DEF LoopInv

\* Only the task of one prompt changes.
LEMMA LoopTaskStep ==
  ASSUME LoopInv, NEW i \in 1..P,
         NEW t \in [st : {"new", "running", "success", "exception", "expired"}, res : Loop!Item],
         task' = [task EXCEPT ![i] = t], batchPc = "run",
         t.st = "success" => t.res \in Answers(i),
         UNCHANGED <<batchPc, mode, starts, first, held, nextOut, outputs, cache, cacheFile, delivered>>
  PROVE  LoopInv'
<1>1. LoopTyped /\ StreamTasks /\ LoopOutputs /\ OwnAnswers
  BY DEF LoopInv
<1>2. task \in [1..P -> [st : {"new", "running", "success", "exception", "expired"}, res : Loop!Item]]
  BY LoopIs
<1>3. /\ task' \in [1..P -> [st : {"new", "running", "success", "exception", "expired"}, res : Loop!Item]]
      /\ task'[i] = t /\ \A j \in 1..P : j # i => task'[j] = task[j]
  BY <1>2
<1>4. LoopTyped'
  BY <1>1, <1>3, BatchNumbers DEF LoopTyped, Loop!TypeOK, Loop!CacheOf
<1>5. StreamTasks'
  BY <1>1, <1>3 DEF StreamTasks
<1>6. Loop!LastOf(first)' = Loop!LastOf(first)
  BY DEF Loop!LastOf
<1>7. LoopOutputs'
  BY <1>1, <1>6 DEF LoopOutputs
<1>8. OwnAnswers'
  BY <1>1 DEF OwnAnswers, Stream!Own, Legible
<1> QED
  BY <1>4, <1>5, <1>7, <1>8 DEF LoopInv

\* The task whose turn it is begins.
LEMMA LoopTake ==
  ASSUME NEW i \in 1..P
  PROVE  LoopInv /\ Loop!Take(i) => LoopInv'
<1> SUFFICES ASSUME LoopInv, Loop!Take(i) PROVE LoopInv'
  OBVIOUS
<1>1. task \in [1..P -> [st : {"new", "running", "success", "exception", "expired"}, res : Loop!Item]]
  BY LoopIs
<1> DEFINE t == [task[i] EXCEPT !.st = "running"]
<1>2. task' = [task EXCEPT ![i] = t] /\ batchPc = "run"
  BY <1>1 DEF Loop!Take
<1>3. t \in [st : {"new", "running", "success", "exception", "expired"}, res : Loop!Item] /\ t.st = "running"
  BY <1>1
<1>4. UNCHANGED <<batchPc, mode, starts, first, held, nextOut, outputs, cache, cacheFile, delivered>>
  BY DEF Loop!Take
<1> HIDE DEF t
<1> QED
  BY <1>2, <1>3, <1>4, LoopTaskStep

\* A cached list is taken over; what the model answers is for the prompt.
LEMMA LoopFinish ==
  ASSUME NEW i \in 1..P
  PROVE  LoopInv /\ Loop!Finish(i) => LoopInv'
<1> SUFFICES ASSUME LoopInv, Loop!Finish(i) PROVE LoopInv'
  OBVIOUS
<1>1. PICK t \in Loop!Outcome(i) : task' = [task EXCEPT ![i] = t]
  BY DEF Loop!Finish
<1>2. batchPc = "run"
  BY DEF Loop!Finish
<1>3. UNCHANGED <<batchPc, mode, starts, first, held, nextOut, outputs, cache, cacheFile, delivered>>
  BY DEF Loop!Finish
<1>4. OwnAnswers /\ Loop!Prompts = 1..P /\ Stream!Prompts = 1..P
  BY BatchNumbers DEF LoopInv
<1>5. /\ t \in [st : {"new", "running", "success", "exception", "expired"}, res : Loop!Item]
      /\ t.st = "success" => t.res \in Answers(i)
  <2>1. CASE Loop!Hit(i)
    <3>1. ~Loop!BadHit(i)
      BY <1>4, <2>1, BatchNumbers DEF Loop!Hit, Loop!BadHit
    <3>2. t = [st |-> "expired", res |-> NoList] \/ t = [st |-> "success", res |-> cache[i]]
      BY <2>1, <3>1 DEF Loop!Outcome, Loop!Task
    <3>3. cache[i] = i
      BY <1>4, <2>1 DEF Loop!Hit, OwnAnswers, Stream!Own
    <3> QED
      BY <3>2, <3>3, <1>4 DEF Loop!Item, Answers
  <2>2. CASE ~Loop!Hit(i)
    <3>1. \/ t = [st |-> "expired", res |-> NoList] \/ t = [st |-> "success", res |-> i]
          \/ t = [st |-> "success", res |-> None] \/ t = [st |-> "exception", res |-> NoList]
      BY <2>2 DEF Loop!Outcome, Loop!Task
    <3> QED
      BY <3>1, <1>4 DEF Loop!Item, Answers
  <2> QED
    BY <2>1, <2>2
<1> QED
  BY <1>1, <1>2, <1>3, <1>5, LoopTaskStep

\* The next result is put in its place; one that failed ends the command.
LEMMA LoopYield == LoopInv /\ Loop!Yield => LoopInv'
<1> SUFFICES ASSUME LoopInv, Loop!Yield PROVE LoopInv'
  OBVIOUS
<1>1. LoopTyped /\ StreamTasks /\ LoopOutputs /\ OwnAnswers
  BY DEF LoopInv
<1>2. /\ batchPc = "run" /\ nextOut \in Loop!Batch
      /\ UNCHANGED <<mode, starts, first, held, task, cache, cacheFile>>
  BY DEF Loop!Yield
<1>3. CASE batchPc' = "raised" /\ UNCHANGED <<nextOut, outputs, delivered>>
  BY <1>1, <1>2, <1>3, LoopElse, LoopIs DEF OwnAnswers, Stream!Own, Legible
<1>4. CASE /\ task[nextOut].st = "success"
           /\ batchPc' = batchPc /\ nextOut' = nextOut + 1 /\ outputs' = Loop!After(nextOut)
           /\ Loop!Callback(nextOut)
  <2> DEFINE n == nextOut
             r == task[nextOut].res
             last == Loop!LastOf(first)
             l == Len(outputs)
  <2>1. n \in Nat /\ last \in Nat /\ n >= 1 /\ n <= last /\ last <= P /\ P \in Nat /\ n \in 1..P /\ n < last + 1
    BY <1>2, LoopIs, LastIs, BatchNumbers DEF Loop!Batch
  <2>2. outputs \in Seq(Loop!Item) /\ l \in Nat
    BY LoopIs
  <2>3. r \in Loop!Item /\ r \in Answers(n)
    BY <2>1, <1>1, <1>4, LoopIs DEF StreamTasks
  <2>4. /\ \A i \in 1..l : outputs[i] \in {i, None, NoList}
        /\ mode = "batch" => l = n - 1
        /\ mode = "stream" => l = P
    BY <1>1, <1>2 DEF LoopOutputs
  <2>5. /\ outputs' \in Seq(Loop!Item)
        /\ \A i \in 1..Len(outputs') : outputs'[i] \in {i, None, NoList}
        /\ mode = "batch" => Len(outputs') = n
        /\ mode = "stream" => Len(outputs') = P
    <3>1. CASE mode = "stream"
      <4>1. outputs' = [outputs EXCEPT ![n] = r]
        BY <1>4, <3>1 DEF Loop!After
      <4>2. outputs \in [1..P -> Loop!Item]
        BY <2>2, <2>4, <3>1
      <4>3. outputs' \in [1..P -> Loop!Item]
        BY <4>1, <4>2, <2>3
      <4>4. outputs' \in Seq(Loop!Item) /\ Len(outputs') = P
        BY <4>3, <2>1, ListOf
      <4>5. \A i \in 1..P : outputs'[i] \in {i, None, NoList}
        BY <4>1, <4>2, <2>3, <2>4, <3>1 DEF Answers
      <4> QED
        BY <3>1, <4>4, <4>5
    <3>2. CASE mode = "batch"
      <4>1. outputs' = Append(outputs, r)
        BY <1>4, <3>2 DEF Loop!After
      <4> HIDE DEF r, n
      <4>2. /\ outputs' \in Seq(Loop!Item) /\ Len(outputs') = l + 1
            /\ \A i \in 1..l : outputs'[i] = outputs[i]
            /\ outputs'[l + 1] = r
        BY <4>1, <2>2, <2>3, AppendProperties
      <4> HIDE DEF l
      <4>3. l + 1 = n
        BY <2>4, <2>1, <3>2
      <4>4. \A i \in 1..n : i = n \/ i \in 1..l
        BY <4>3, <2>1, <2>2
      <4>5. \A i \in 1..n : outputs'[i] \in {i, None, NoList}
        BY <4>2, <4>3, <4>4, <2>3, <2>4 DEF Answers
      <4> QED
        BY <3>2, <4>2, <4>3, <4>5
    <3> QED
      BY <3>1, <3>2, LoopIs
  <2>6. nextOut' = n + 1 /\ (n + 1) - 1 = n /\ n + 1 <= last + 1 /\ n + 1 \in 1..(P + 1)
    BY <1>4, <2>1
  <2>7. Loop!LastOf(first)' = last
    BY <1>2 DEF Loop!LastOf
  <2>8. LoopOutputs'
    <3> HIDE DEF n, last
    <3> QED
      BY <2>5, <2>6, <2>7, <1>2, <1>4 DEF LoopOutputs
  <2>9. delivered' \in [1..P -> Seq(Loop!Item)]
    <3>1. delivered \in [1..P -> Seq(Loop!Item)]
      BY LoopIs
    <3>2. CASE delivered' = delivered
      BY <3>1, <3>2
    <3>3. CASE \E k \in 0..N : delivered' = [delivered EXCEPT ![n] = [j \in 1..k |-> r]]
      <4>1. PICK k \in 0..N : delivered' = [delivered EXCEPT ![n] = [j \in 1..k |-> r]]
        BY <3>3
      <4>2. k \in Nat
        BY BatchNumbers
      <4> DEFINE s == [j \in 1..k |-> r]
      <4>3. s \in [1..k -> Loop!Item]
        BY <2>3
      <4>4. delivered' = [delivered EXCEPT ![n] = s]
        BY <4>1
      <4> HIDE DEF s, r, n
      <4>5. s \in Seq(Loop!Item)
        BY <4>2, <4>3, ListOf
      <4> QED
        BY <4>4, <4>5, <3>1
    <3> QED
      BY <1>4, <3>2, <3>3 DEF Loop!Callback
  <2>10. LoopTyped'
    BY <2>5, <2>6, <2>9, <1>1, <1>2, <1>4, BatchNumbers DEF LoopTyped, Loop!TypeOK, Loop!CacheOf
  <2>11. StreamTasks' /\ OwnAnswers'
    BY <1>1, <1>2 DEF StreamTasks, OwnAnswers, Stream!Own, Legible
  <2> QED
    BY <2>8, <2>10, <2>11 DEF LoopInv
<1>5. Loop!Sequential
  BY DEF Loop!Sequential
<1> QED
  BY <1>3, <1>4, <1>5 DEF Loop!Yield

\* The next batch, or the end.
LEMMA LoopGoesOn ==
  ASSUME LoopInv, batchPc \in {"run", "fill"}, nextOut = Loop!LastOf(first) + 1, Loop!GoOn,
         UNCHANGED <<mode, starts, task, nextOut, outputs, cache, delivered>>,
         cacheFile' \in [1..P -> Loop!Item \cup {Absent}] \cup {NoFile, Torn},
         OwnAnswers'
  PROVE  LoopInv'
<1>1. LoopTyped /\ StreamTasks /\ LoopOutputs
  BY DEF LoopInv
<1> DEFINE last == Loop!LastOf(first)
           l == Len(outputs)
<1>2. first \in 1..P /\ last \in 1..P /\ P \in Nat /\ (mode # "batch" => last = P) /\ l \in Nat
  BY LoopIs, LastIs, BatchNumbers
<1>3. CASE last < P
  <2>1. batchPc' = "run" /\ first' = last + 1 /\ held' = l /\ mode = "batch"
    BY <1>2, <1>3 DEF Loop!GoOn
  <2>2. l = nextOut - 1
    BY <1>1, <2>1 DEF LoopOutputs
  <2>3. l = last /\ last + 1 \in 1..P
    <3> HIDE DEF last, l
    <3>1. nextOut = last + 1
      BY DEF last
    <3> QED
      BY <3>1, <2>2, <1>2, <1>3
  <2>4. held' = first' - 1 /\ first' \in 1..P /\ nextOut' = first'
    <3> HIDE DEF last, l
    <3>1. nextOut = last + 1 /\ nextOut' = nextOut
      BY DEF last
    <3> QED
      BY <3>1, <2>1, <2>3, <1>2
  <2>5. Loop!LastOf(first)' \in 1..P /\ first' <= Loop!LastOf(first)'
    <3>1. (first \in 1..P => Loop!LastOf(first) \in 1..P /\ first <= Loop!LastOf(first))'
      BY LastIs, PTL
    <3> QED
      BY <3>1, <2>4
  <2>6. held' \in 0..(P * N)
    <3>1. (first \in 1..P => first - 1 \in 0..(P * N))'
      BY HeldIs, PTL
    <3> QED
      BY <3>1, <2>4
  <2>7. LoopTyped'
    BY <2>1, <2>4, <2>6, <1>1, BatchNumbers DEF LoopTyped, Loop!TypeOK, Loop!CacheOf
  <2>8. nextOut' <= Loop!LastOf(first)' + 1
    <3> DEFINE m == Loop!LastOf(first)'
    <3>1. nextOut' \in 1..P /\ m \in 1..P /\ nextOut' <= m
      BY <2>4, <2>5
    <3> HIDE DEF m
    <3>2. nextOut' <= m + 1
      BY <3>1
    <3> QED
      BY <3>2 DEF m
  <2>9. LoopOutputs'
    BY <2>1, <2>8, <1>1 DEF LoopOutputs
  <2>10. StreamTasks'
    BY <1>1 DEF StreamTasks
  <2> QED
    BY <2>7, <2>9, <2>10 DEF LoopInv
<1>4. CASE ~(last < P)
  <2>1. batchPc' = "returned" /\ UNCHANGED <<first, held>>
    BY <1>4 DEF Loop!GoOn
  <2> QED
    BY <2>1, LoopElse, LoopIs
<1> QED
  BY <1>3, <1>4

\* The answers of a batch go into the cache, each in its place.
LEMMA LoopEnd == LoopInv /\ Loop!EndBatch => LoopInv'
<1> SUFFICES ASSUME LoopInv, Loop!EndBatch PROVE LoopInv'
  OBVIOUS
<1>1. LoopTyped /\ StreamTasks /\ LoopOutputs /\ OwnAnswers
  BY DEF LoopInv
<1>2. /\ batchPc = "run" /\ nextOut > Loop!LastOf(first)
      /\ UNCHANGED <<mode, starts, task, nextOut, outputs, cacheFile, delivered>>
  BY DEF Loop!EndBatch
<1>3. nextOut = Loop!LastOf(first) + 1
  <2> DEFINE last == Loop!LastOf(first)
  <2>1. last \in 1..P /\ nextOut \in 1..(P + 1) /\ nextOut > last /\ nextOut <= last + 1 /\ P \in Nat
    BY <1>1, <1>2, LoopIs, LastIs, BatchNumbers DEF LoopOutputs
  <2> HIDE DEF last
  <2>2. nextOut = last + 1
    BY <2>1
  <2> QED
    BY <2>2 DEF last
<1>4. CASE ~UseCache
  <2>1. Loop!GoOn /\ UNCHANGED cache
    BY <1>4 DEF Loop!EndBatch
  <2>2. OwnAnswers'
    BY <2>1, <1>1, <1>2 DEF OwnAnswers, Stream!Own, Legible
  <2>3. cacheFile' \in [1..P -> Loop!Item \cup {Absent}] \cup {NoFile, Torn}
    BY <1>2, LoopIs
  <2> QED
    BY <2>1, <2>2, <2>3, <1>2, <1>3, LoopGoesOn
<1>5. CASE UseCache
  <2>1. batchPc' = "save" /\ cache' = Loop!Zipped /\ UNCHANGED <<first, held>>
    BY <1>5 DEF Loop!EndBatch
  <2> DEFINE l == Len(outputs)
             added == SubSeq(outputs, held + 1, Len(outputs))
             len == Len(added)
  <2>2. outputs \in Seq(Loop!Item) /\ l \in Nat /\ held = first - 1 /\ first \in 1..P /\ P \in Nat
    BY LoopIs, BatchNumbers
  <2>3. held + 1 = first /\ first \in Nat /\ first >= 1
    BY <2>2
  <2>4. /\ len = IF first <= l THEN l - first + 1 ELSE 0
        /\ \A i \in 1..(l - first + 1) : added[i] = outputs[first + i - 1]
    <3>1. \A i \in first..l : i \in 1..l
      BY <2>2, <2>3
    <3>2. \A i \in 1..l : outputs[i] \in Loop!Item
      BY <2>2
    <3>3. \A i \in first..l : outputs[i] \in Loop!Item
      BY <3>1, <3>2
    <3>4. first \in Int /\ l \in Int
      BY <2>2, <2>3
    <3>5. added = SubSeq(outputs, first, l)
      BY <2>3
    <3> HIDE DEF added, l
    <3> QED
      BY <3>3, <3>4, <3>5, SubSeqProperties
  <2>5. ASSUME NEW i \in 1..P, i \in Loop!Batch, i - first + 1 <= len
        PROVE  added[i - first + 1] = outputs[i] /\ i \in 1..l
    <3>1. i >= first
      BY <2>5, <2>2 DEF Loop!Batch
    <3> HIDE DEF len, added, l
    <3>2. i \in 1..l /\ (i - first + 1) \in 1..(l - first + 1) /\ first + (i - first + 1) - 1 = i
      <4>1. first <= l
        BY <2>2, <2>3, <2>4, <2>5, <3>1
      <4> QED
        BY <4>1, <2>2, <2>3, <2>4, <2>5, <3>1
    <3> QED
      BY <3>2, <2>4
  <2>6. cache' = [i \in 1..P |-> IF i \in Loop!Batch /\ i - first + 1 <= len THEN added[i - first + 1] ELSE cache[i]]
    BY <2>1, BatchNumbers DEF Loop!Zipped, Loop!Added
  <2> HIDE DEF added, len
  <2>7. cache \in [1..P -> Loop!Item \cup {Absent}]
    BY LoopIs
  <2>8. ASSUME NEW i \in 1..P
        PROVE  cache'[i] = cache[i] \/ (cache'[i] \in {i, None, NoList} /\ cache'[i] \in Loop!Item)
    <3>1. CASE i \in Loop!Batch /\ i - first + 1 <= len
      <4>1. cache'[i] = outputs[i] /\ i \in 1..l
        BY <3>1, <2>5, <2>6
      <4>2. \A k \in 1..l : outputs[k] \in {k, None, NoList}
        BY <1>1, <1>2 DEF LoopOutputs
      <4>3. \A k \in 1..l : outputs[k] \in Loop!Item
        BY <2>2
      <4> QED
        BY <4>1, <4>2, <4>3
    <3>2. CASE ~(i \in Loop!Batch /\ i - first + 1 <= len)
      BY <3>2, <2>6
    <3> QED
      BY <3>1, <3>2
  <2>9. cache' \in [1..P -> Loop!Item \cup {Absent}]
    <3>1. \A i \in 1..P : cache'[i] \in Loop!Item \cup {Absent}
      BY <2>7, <2>8
    <3>2. cache' = [i \in 1..P |-> cache'[i]]
      BY <2>6
    <3> HIDE <2>6
    <3> QED
      BY <3>1, <3>2
  <2>10. OwnAnswers'
    <3>1. \A i \in 1..P : cache'[i] \in 1..P => cache'[i] = i
      BY <2>8, <1>1, BatchNumbers DEF OwnAnswers, Stream!Own
    <3> QED
      BY <3>1, <1>1, <1>2, BatchNumbers DEF OwnAnswers, Stream!Own, Legible
  <2>11. cacheFile' \in [1..P -> Loop!Item \cup {Absent}] \cup {NoFile, Torn}
    BY <1>2, LoopIs
  <2> QED
    BY <2>1, <2>9, <2>10, <2>11, <1>2, <1>3, LoopElse
<1> QED
  BY <1>4, <1>5

\* The cache file is opened, then written.
LEMMA LoopSave == LoopInv /\ (Loop!OpenCache \/ Loop!FillCache) => LoopInv'
<1> SUFFICES ASSUME LoopInv, Loop!OpenCache \/ Loop!FillCache PROVE LoopInv'
  OBVIOUS
<1>1. LoopOutputs /\ OwnAnswers
  BY DEF LoopInv
<1>2. CASE Loop!OpenCache
  <2>1. /\ batchPc = "save" /\ batchPc' = "fill" /\ cacheFile' = Torn
        /\ UNCHANGED <<mode, starts, first, held, task, nextOut, outputs, cache, delivered>>
    BY <1>2 DEF Loop!OpenCache
  <2>2. OwnAnswers' /\ nextOut = Loop!LastOf(first) + 1
    BY <2>1, <1>1 DEF OwnAnswers, Stream!Own, Legible, LoopOutputs
  <2> QED
    BY <2>1, <2>2, LoopElse, LoopIs
<1>3. CASE Loop!FillCache
  <2>1. /\ batchPc = "fill" /\ cacheFile' = cache /\ Loop!GoOn
        /\ UNCHANGED <<mode, starts, task, nextOut, outputs, cache, delivered>>
    BY <1>3 DEF Loop!FillCache
  <2>2. OwnAnswers' /\ nextOut = Loop!LastOf(first) + 1
    BY <2>1, <1>1 DEF OwnAnswers, Stream!Own, Legible, LoopOutputs
  <2>3. cacheFile' \in [1..P -> Loop!Item \cup {Absent}] \cup {NoFile, Torn}
    BY <2>1, LoopIs
  <2> QED
    BY <2>1, <2>2, <2>3, LoopGoesOn
<1> QED
  BY <1>2, <1>3

\* A kill leaves the cache file.
LEMMA LoopCrash == LoopInv /\ Loop!Crash => LoopInv'
<1> SUFFICES ASSUME LoopInv, Loop!Crash PROVE LoopInv'
  OBVIOUS
<1>1. LoopTyped /\ OwnAnswers
  BY DEF LoopInv
<1>2. /\ batchPc' = "down" /\ outputs' = <<>> /\ UNCHANGED <<mode, starts, first, held, nextOut, cacheFile, delivered>>
      /\ cache' = [i \in 1..P |-> Absent] /\ task' = [i \in 1..P |-> [st |-> "new", res |-> NoList]]
  BY BatchNumbers DEF Loop!Crash, Loop!NoCache, Loop!Fresh, Loop!Task
<1>3. LoopTyped'
  <2>1. outputs' \in Seq(Loop!Item)
    BY <1>2, EmptySeq
  <2> QED
    BY <2>1, <1>1, <1>2, BatchNumbers DEF LoopTyped, Loop!TypeOK, Loop!CacheOf, Loop!Item
<1>4. StreamTasks' /\ LoopOutputs'
  BY <1>2 DEF StreamTasks, LoopOutputs
<1>5. OwnAnswers'
  BY <1>1, <1>2, BatchNumbers DEF OwnAnswers, Stream!Own, Legible
<1> QED
  BY <1>3, <1>4, <1>5 DEF LoopInv

\* Every step of a run without a pool keeps the invariant.
LEMMA LoopNext == LoopInv /\ (Loop!Next \/ UNCHANGED batchVars) => LoopInv'
<1>1. LoopInv /\ UNCHANGED batchVars => LoopInv'
  BY DEF LoopInv, LoopTyped, Loop!TypeOK, StreamTasks, LoopOutputs, Loop!LastOf,
         OwnAnswers, Stream!Own, Legible, batchVars
<1>2. Loop!Prompts = 1..P
  BY BatchNumbers
<1> QED
  BY <1>1, <1>2, LoopStart, LoopTake, LoopFinish, LoopYield, LoopEnd, LoopSave, LoopCrash
  DEF Loop!Next, Loop!Pool, Loop!Main

\* What the run promises.
LEMMA LoopPromise == LoopInv => Loop!TypeOK /\ Loop!CacheOwn
BY LoopOwn DEF LoopInv, LoopTyped, Loop!CacheOwn, OwnAnswers, Legible

-----------------------------------------------------------------------------
(* Translate: pipeline_lcb.py, and pipeline.py with its one thread. *)

\* Full marks are the right answer, in "lcb" one of the very task.
LEMMA PassedFacts ==
  ASSUME NEW t \in Tasks, NEW a \in Answer
  PROVE  /\ Passed(t, a) \in 0..Tests
         /\ Passed(t, a) = Tests => a.quality = "right" /\ (Pipeline = "lcb" => a.task = t)
<1>1. Tests \in Nat /\ Tests > 0 /\ Tests - 1 \in 0..Tests /\ Tests - 1 # Tests
  BY TranslateAssumption
<1>2. SnipPasses(a) \in 0..Tests /\ (SnipPasses(a) = Tests => a.quality = "right")
  BY <1>1 DEF SnipPasses
<1>3. InputsPassed(t, a) \in 0..Tests /\ (InputsPassed(t, a) = Tests => a.quality = "right" /\ a.task = t)
  <2>1. CASE a.quality = "right" /\ a.task = t
    BY <2>1, <1>1 DEF InputsPassed
  <2>2. CASE a.quality = "partly"
    BY <2>2, <1>1 DEF InputsPassed
  <2>3. CASE ~(a.quality = "right" /\ a.task = t) /\ a.quality # "partly"
    <3>1. InputsPassed(t, a) = 0
      BY <2>3 DEF InputsPassed
    <3> QED
      BY <3>1, <1>1
  <2> QED
    BY <2>1, <2>2, <2>3
<1> QED
  BY <1>2, <1>3 DEF Passed

\* The initial state has it.
LEMMA Starts == Init => IndInv
<1> SUFFICES ASSUME Init PROVE IndInv
  OBVIOUS
<1> USE TranslateAssumption DEF Init
<1>1. TypeOK
  BY DEF TypeOK, Sample, NewSample
<1>2. Alone
  BY DEF Alone, Busy
<1>3. Samples
  BY DEF Samples, Harmless, NewSample, Early
<1>4. Once /\ RecordIsOfItsCode /\ VerifiedOwn
  BY DEF Once, Of, RecordIsOfItsCode, VerifiedOwn, Records
<1> QED
  BY <1>1, <1>2, <1>3, <1>4 DEF IndInv, Asked

\* A thread begins only when the only one there is idles.
LEMMA AloneStep == TypeOK /\ Alone /\ Next => Alone'
<1> SUFFICES ASSUME TypeOK, Alone, Next, Workers = 1 PROVE \A t, u \in Busy' : t = u
  BY DEF Alone
<1>1. PICK t \in Tasks : Step(t)
  BY DEF Next
<1>2. CASE Begin(t)
  <2>1. IsFiniteSet(Busy)
    BY TranslateAssumption, FS_Subset DEF Busy
  <2>2. Cardinality(Busy) = 0
    BY <2>1, <1>2, FS_CardinalityType DEF Begin
  <2>3. Busy = {}
    BY <2>1, <2>2, FS_EmptySet
  <2> QED
    BY <2>3, <1>2 DEF Begin, Busy, TypeOK
<1>3. CASE ~Begin(t)
  <2>1. Busy' \subseteq Busy
    BY <1>1, <1>3 DEF Step, Respond, CallRaises, Return, Verify, VerifyRaises, Write, WriteError, Busy, TypeOK
  <2> QED
    BY <2>1 DEF Alone
<1> QED
  BY <1>2, <1>3

\* Types.
LEMMA TypeStep == IndInv /\ Next => TypeOK'
<1> SUFFICES ASSUME IndInv, NEW t \in Tasks, Step(t) PROVE TypeOK'
  BY DEF Next
<1>0. TypeOK /\ Asked
  BY DEF IndInv
<1>1. CASE Begin(t) \/ Respond(t) \/ CallRaises(t) \/ Return(t)
  BY <1>1, <1>0 DEF Begin, Respond, CallRaises, Return, TypeOK, Answer
<1>2. CASE Verify(t)
  <2>1. answer[t] \in Answer /\ Passed(t, answer[t]) \in 0..Tests
    BY <1>0, <1>2, PassedFacts DEF Asked, Verify, Own
  <2>2. attempt[t] \in 0..Retries /\ Retries \in Nat /\ 0 \in 0..Tests
    BY <1>0, TranslateAssumption DEF TypeOK
  <2>3. RetryCnt(t) \in 0..Retries \cup {Nothing}
    BY <2>2 DEF RetryCnt
  <2>4. StoredApps(t) \in Sample /\ StoredLcb(t) \in Sample
    BY <2>1, <2>2, <2>3 DEF StoredApps, StoredLcb, Sample, NewSample
  <2>5. sample' \in [Tasks -> Sample]
    BY <2>4, <1>0, <1>2 DEF Verify, TypeOK, Stored
  <2>6. attempt' \in [Tasks -> 0..Retries]
    BY <2>2, <1>0, <1>2 DEF Verify, TypeOK
  <2> QED
    BY <2>5, <2>6, <1>0, <1>2 DEF Verify, TypeOK
<1>3. CASE VerifyRaises(t)
  <2>1. sample' \in [Tasks -> Sample]
    BY <1>0, <1>3 DEF Asked, Own, VerifyRaises, TypeOK, Sample
  <2> QED
    BY <2>1, <1>0, <1>3 DEF VerifyRaises, TypeOK
<1>4. CASE Write(t)
  <2>1. Record(t, sample[t]) \in RecordType
    BY <1>0 DEF TypeOK, Record, RecordType, Sample
  <2> QED
    BY <2>1, <1>0, <1>4 DEF Write, TypeOK
<1>5. CASE WriteError(t)
  <2>1. /\ NewSample \in Sample
        /\ \A s \in Sample : [Record(t, s) EXCEPT !.result = "error"] \in RecordType
    BY TranslateAssumption DEF NewSample, Sample, Record, RecordType
  <2>2. sample[t] \in Sample
    BY <1>0 DEF TypeOK
  <2> QED
    BY <2>1, <2>2, <1>0, <1>5 DEF WriteError, TypeOK
<1> QED
  BY <1>1, <1>2, <1>3, <1>4, <1>5 DEF Step

\* Only an answer that came between could be another's.
LEMMA AskedStep == IndInv /\ Next => Asked'
<1> SUFFICES ASSUME IndInv, NEW t \in Tasks, Step(t) PROVE Asked'
  BY DEF Next
<1> USE DEF Own
<1>0. TypeOK /\ Asked /\ Alone
  BY DEF IndInv
<1>1. CASE Begin(t) \/ CallRaises(t) \/ Verify(t) \/ VerifyRaises(t) \/ Write(t) \/ WriteError(t)
  BY <1>1, <1>0 DEF Begin, CallRaises, Verify, VerifyRaises, Write, WriteError, TypeOK, Asked
<1>2. CASE Respond(t)
  <2>1. compl_resp' \in Answer /\ compl_resp'.task = t
    BY <1>2 DEF Respond, Answer
  <2>2. \A u \in Tasks \ {t} : pc[u] = "received" => Workers # 1
    BY <1>2, <1>0 DEF Alone, Busy, Respond
  <2> QED
    BY <2>1, <2>2, <1>2, <1>0 DEF Respond, TypeOK, Asked
<1>3. CASE Return(t)
  BY <1>3, <1>0 DEF Return, TypeOK, Asked
<1> QED
  BY <1>1, <1>2, <1>3 DEF Step

\* A Sample carries the verdict of the code that is in it.
LEMMA SamplesStep == IndInv /\ Next => Samples'
<1> SUFFICES ASSUME IndInv, NEW t \in Tasks, Step(t) PROVE Samples'
  BY DEF Next
<1>0. TypeOK /\ Asked /\ Samples
  BY DEF IndInv
<1>1. CASE Begin(t) \/ Respond(t) \/ CallRaises(t) \/ Return(t) \/ Write(t) \/ WriteError(t)
  BY <1>1, <1>0 DEF Begin, Respond, CallRaises, Return, Write, WriteError, TypeOK, Samples, Early
<1>2. CASE Verify(t)
  <2>1. Own(t, answer[t]) /\ answer[t] \in Answer /\ Passed(t, answer[t]) \in 0..Tests
    BY <1>0, <1>2, PassedFacts DEF Asked, Verify, Own
  <2>2. attempt[t] \in Nat /\ Retries \in Nat /\ Tests \in Nat /\ 0 < Tests
    BY <1>0, TranslateAssumption DEF TypeOK
  <2>3. sample'[t] = Stored(t) /\ \A u \in Tasks \ {t} : sample'[u] = sample[u] /\ pc'[u] = pc[u] /\ attempt'[u] = attempt[u]
    BY <1>2, <1>0 DEF Verify, TypeOK
  <2>4. pc'[t] = "write" \/ (pc'[t] = "asking" /\ attempt'[t] # 0 /\ ~Success(t))
    BY <1>2, <1>0, <2>2 DEF Verify, TypeOK
  <2>5. Deserved(t, Stored(t)) /\ (~Success(t) => Harmless(t, Stored(t)))
    <3>1. Passed(t, answer[t]) \in Nat /\ Passed(t, answer[t]) <= Tests
      BY <2>1, <2>2
    <3>2. CASE Success(t)
      BY <3>2, <2>1, <2>2 DEF Stored, StoredApps, StoredLcb, Deserved, Success
    <3>3. CASE ~Success(t)
      <4>1. Passed(t, answer[t]) < Tests
        BY <3>1, <3>3, <2>2 DEF Success
      <4> QED
        BY <4>1, <3>3, <2>2 DEF Stored, StoredApps, StoredLcb, Deserved, Harmless, NewSample
    <3> QED
      BY <3>2, <3>3
  <2> QED
    BY <2>3, <2>4, <2>5, <1>0 DEF Samples, Early
<1>3. CASE VerifyRaises(t)
  <2>1. /\ \A u \in Tasks \ {t} : sample'[u] = sample[u] /\ pc'[u] = pc[u] /\ attempt'[u] = attempt[u]
        /\ pc'[t] = "raised"
    BY <1>3, <1>0 DEF VerifyRaises, TypeOK
  <2>2. Harmless(t, sample'[t])
    <3>1. CASE Pipeline = "lcb" /\ attempt[t] = 0
      <4>1. sample[t] = NewSample
        BY <3>1, <1>3, <1>0 DEF Samples, VerifyRaises, Early
      <4>2. sample'[t].result = "failed" /\ sample'[t].passed = 0
        BY <4>1, <3>1, <1>3, <1>0 DEF VerifyRaises, TypeOK, NewSample
      <4> QED
        BY <4>2, TranslateAssumption DEF Harmless
    <3>2. CASE ~(Pipeline = "lcb" /\ attempt[t] = 0)
      BY <3>2, <1>3, <1>0 DEF VerifyRaises, Samples, Early
    <3> QED
      BY <3>1, <3>2
  <2> QED
    BY <2>1, <2>2, <1>0 DEF Samples, Early
<1> QED
  BY <1>1, <1>2, <1>3 DEF Step

\* What is appended is what the Sample carries, or an error.
LEMMA RecordsStep ==
  IndInv /\ Next => RecordIsOfItsCode' /\ (Pipeline = "lcb" \/ Workers = 1 => VerifiedOwn')
<1> SUFFICES ASSUME IndInv, NEW t \in Tasks, Step(t)
             PROVE  RecordIsOfItsCode' /\ (Pipeline = "lcb" \/ Workers = 1 => VerifiedOwn')
  BY DEF Next
<1>0. /\ TypeOK /\ Samples /\ RecordIsOfItsCode
      /\ Pipeline = "lcb" \/ Workers = 1 => VerifiedOwn
  BY DEF IndInv
<1>1. ASSUME NEW r, Records' \subseteq Records \cup {r},
             /\ r.result = "success" => Own(r.task, r.code) /\ Passed(r.task, r.code) = Tests
             /\ r.result = "failure" => Passed(r.task, r.code) = r.passed /\ r.passed < Tests
             /\ r.result = "error" => r.passed < Tests /\ (r.passed = 0 \/ r.passed = Passed(r.task, r.code)),
             r.task \in Tasks
      PROVE  RecordIsOfItsCode' /\ (Pipeline = "lcb" \/ Workers = 1 => VerifiedOwn')
  <2>1. RecordIsOfItsCode'
    BY <1>0, <1>1 DEF RecordIsOfItsCode
  <2>2. ASSUME Pipeline = "lcb" \/ Workers = 1, r.result = "success"
        PROVE  r.code # Nothing /\ r.code.task = r.task /\ r.code.quality = "right"
    BY <2>2, <1>1, PassedFacts, TranslateAssumption DEF Own
  <2> QED
    BY <2>1, <2>2, <1>0, <1>1 DEF VerifiedOwn
<1>2. CASE UNCHANGED <<output, elsewhere>>
  <2>1. Records' = Records
    BY <1>2 DEF Records
  <2> QED
    BY <2>1, <1>0 DEF RecordIsOfItsCode, VerifiedOwn
<1>3. CASE Write(t)
  <2> DEFINE r == Record(t, sample[t])
  <2>1. Records' \subseteq Records \cup {r}
    BY <1>3 DEF Write, Records
  <2>2. Deserved(t, sample[t]) /\ sample[t] \in Sample
    BY <1>3, <1>0 DEF Write, Samples, TypeOK
  <2>3. r.task = t /\ r.code = sample[t].code /\ r.result = sample[t].result /\ r.passed = sample[t].passed
    BY DEF Record
  <2>4. r.result # "error"
    BY <2>2, <2>3 DEF Sample
  <2> HIDE DEF r
  <2> QED
    BY <2>1, <2>2, <2>3, <2>4, <1>1 DEF Deserved
<1>4. CASE WriteError(t)
  <2> DEFINE s == IF Pipeline = "apps" THEN NewSample ELSE sample[t]
             r == [Record(t, s) EXCEPT !.result = "error"]
  <2>1. Records' \subseteq Records \cup {r}
    BY <1>4 DEF WriteError, Records
  <2>2. s.passed < Tests /\ (s.passed = 0 \/ s.passed = Passed(t, s.code))
    BY <1>4, <1>0, TranslateAssumption DEF WriteError, Samples, Harmless, NewSample
  <2>3. r.task = t /\ r.code = s.code /\ r.result = "error" /\ r.passed = s.passed
    BY DEF Record
  <2> HIDE DEF r, s
  <2> QED
    BY <2>1, <2>2, <2>3, <1>1
<1> QED
  BY <1>2, <1>3, <1>4 DEF Step, Begin, Respond, CallRaises, Return, Verify, VerifyRaises

\* A task is recorded when it ends, and ends once.
LEMMA OnceStep == IndInv /\ Next => Once'
<1> SUFFICES ASSUME IndInv, NEW t \in Tasks, Step(t) PROVE Once'
  BY DEF Next
<1>0. TypeOK /\ Once
  BY DEF IndInv
<1>1. CASE UNCHANGED <<output, elsewhere>> /\ \A u \in Tasks : pc'[u] = "done" <=> pc[u] = "done"
  BY <1>1, <1>0 DEF Once, Of
<1>2. ASSUME NEW r, r.task = t, pc[t] # "done", pc' = [pc EXCEPT ![t] = "done"],
             \/ output' = output \cup {r} /\ UNCHANGED elsewhere
             \/ elsewhere' = elsewhere \cup {r} /\ UNCHANGED output
      PROVE  Once'
  <2>1. \A u \in Tasks \ {t} : /\ pc'[u] = pc[u] /\ Of(u, output') = Of(u, output)
                               /\ Of(u, elsewhere') = Of(u, elsewhere)
    BY <1>2, <1>0 DEF TypeOK, Of
  <2>2. \A u \in Tasks \ {t} : (\A q : Of(u, output) = {q} => q \in output') /\ (\A q : Of(u, elsewhere) = {q} => q \in elsewhere')
    BY <1>2 DEF Of
  <2>3. pc'[t] = "done" /\ Of(t, output) = {} /\ Of(t, elsewhere) = {}
    BY <1>2, <1>0 DEF TypeOK, Once
  <2>4. \/ r \in output' /\ Of(t, output') = {r} /\ Of(t, elsewhere') = {}
        \/ r \in elsewhere' /\ Of(t, elsewhere') = {r} /\ Of(t, output') = {}
    BY <2>3, <1>2 DEF Of
  <2>5. ASSUME NEW u \in Tasks \ {t}
        PROVE  IF pc'[u] = "done"
               THEN \/ Of(u, elsewhere') = {} /\ \E q \in output' : Of(u, output') = {q}
                    \/ Of(u, output') = {} /\ \E q \in elsewhere' : Of(u, elsewhere') = {q}
               ELSE Of(u, output') = {} /\ Of(u, elsewhere') = {}
    BY <2>1, <2>2, <1>0 DEF Once
  <2> QED
    BY <2>3, <2>4, <2>5 DEF Once, Of
<1>3. CASE Write(t)
  <2>1. Record(t, sample[t]).task = t
    BY DEF Record
  <2> QED
    BY <2>1, <1>2, <1>3 DEF Write
<1>4. CASE WriteError(t)
  <2>1. \A s : [Record(t, s) EXCEPT !.result = "error"].task = t
    BY DEF Record
  <2> QED
    BY <2>1, <1>2, <1>4 DEF WriteError
<1> QED
  BY <1>0, <1>1, <1>3, <1>4 DEF Step, Begin, Respond, CallRaises, Return, Verify, VerifyRaises, TypeOK

\* So every step of a task keeps it.
LEMMA TaskNext == IndInv /\ (Next \/ UNCHANGED vars) => IndInv'
<1>1. IndInv /\ UNCHANGED vars => IndInv'
  BY DEF vars, IndInv, TypeOK, Alone, Busy, Asked, Samples, Once, Of, RecordIsOfItsCode, VerifiedOwn, Records
<1> QED
  BY <1>1, TypeStep, AloneStep, AskedStep, SamplesStep, RecordsStep, OnceStep DEF IndInv

\* Once is OneRecord without the counting.
LEMMA OnceCounts == Once => OneRecord
<1> SUFFICES ASSUME Once, NEW t \in Tasks
             PROVE  Cardinality(Of(t, output)) + Cardinality(Of(t, elsewhere)) = IF t \in Finished THEN 1 ELSE 0
  BY DEF OneRecord, Of
<1>1. Cardinality({}) = 0 /\ \A q : Cardinality({q}) = 1
  BY FS_EmptySet, FS_Singleton
<1>2. CASE pc[t] = "done"
  <2>1. \/ Cardinality(Of(t, output)) = 1 /\ Cardinality(Of(t, elsewhere)) = 0
        \/ Cardinality(Of(t, output)) = 0 /\ Cardinality(Of(t, elsewhere)) = 1
    BY <1>1, <1>2, Zenon DEF Once
  <2> QED
    BY <2>1, <1>2 DEF Finished
<1>3. CASE pc[t] # "done"
  BY <1>1, <1>3 DEF Once, Finished
<1> QED
  BY <1>2, <1>3

\* The constants of pipeline.py.
LEMMA OneAssumption ==
  /\ "apps" \in {"apps", "lcb"}
  /\ IsFiniteSet(Tasks)
  /\ 1 \in Nat \ {0}
  /\ AppsRetries \in Nat
  /\ Tests \in Nat \ {0}
  /\ Nothing \notin One!Answer
BY TranslateAssumption, GenerationAssumption DEF One!Answer, Answer, One!Quality, Quality

\* The instance counts as everybody does.
LEMMA OneCounts == \A S : One!Cardinality(S) = Cardinality(S)
BY DEF One!Cardinality, Cardinality

\* Full marks are the right answer, in "lcb" one of the very task.
LEMMA OnePassedFacts ==
  ASSUME NEW t \in Tasks, NEW a \in One!Answer
  PROVE  /\ One!Passed(t, a) \in 0..Tests
         /\ One!Passed(t, a) = Tests => a.quality = "right" /\ ("apps" = "lcb" => a.task = t)
<1>1. Tests \in Nat /\ Tests > 0 /\ Tests - 1 \in 0..Tests /\ Tests - 1 # Tests
  BY OneAssumption
<1>2. One!SnipPasses(a) \in 0..Tests /\ (One!SnipPasses(a) = Tests => a.quality = "right")
  BY <1>1 DEF One!SnipPasses
<1>3. One!InputsPassed(t, a) \in 0..Tests /\ (One!InputsPassed(t, a) = Tests => a.quality = "right" /\ a.task = t)
  <2>1. CASE a.quality = "right" /\ a.task = t
    BY <2>1, <1>1 DEF One!InputsPassed
  <2>2. CASE a.quality = "partly"
    BY <2>2, <1>1 DEF One!InputsPassed
  <2>3. CASE ~(a.quality = "right" /\ a.task = t) /\ a.quality # "partly"
    <3>1. One!InputsPassed(t, a) = 0
      BY <2>3 DEF One!InputsPassed
    <3> QED
      BY <3>1, <1>1
  <2> QED
    BY <2>1, <2>2, <2>3
<1> QED
  BY <1>2, <1>3 DEF One!Passed

\* The initial state has it.
LEMMA OneStarts == One!Init => One!IndInv
<1> SUFFICES ASSUME One!Init PROVE One!IndInv
  OBVIOUS
<1> USE OneAssumption DEF One!Init
<1>1. One!TypeOK
  BY DEF One!TypeOK, One!Sample, One!NewSample
<1>2. One!Alone
  BY DEF One!Alone, One!Busy
<1>3. One!Samples
  BY DEF One!Samples, One!Harmless, One!NewSample, One!Early
<1>4. One!Once /\ One!RecordIsOfItsCode /\ One!VerifiedOwn
  BY DEF One!Once, One!Of, One!RecordIsOfItsCode, One!VerifiedOwn, One!Records
<1> QED
  BY <1>1, <1>2, <1>3, <1>4 DEF One!IndInv, One!Asked

\* A thread begins only when the only one there is idles.
LEMMA OneAloneStep == One!TypeOK /\ One!Alone /\ One!Next => One!Alone'
<1> SUFFICES ASSUME One!TypeOK, One!Alone, One!Next, 1 = 1 PROVE \A t, u \in One!Busy' : t = u
  BY DEF One!Alone
<1>1. PICK t \in Tasks : One!Step(t)
  BY DEF One!Next
<1>2. CASE One!Begin(t)
  <2>1. IsFiniteSet(One!Busy)
    BY OneAssumption, FS_Subset DEF One!Busy
  <2>2. Cardinality(One!Busy) = 0
    BY <2>1, <1>2, OneCounts, FS_CardinalityType DEF One!Begin
  <2>3. One!Busy = {}
    BY <2>1, <2>2, FS_EmptySet
  <2> QED
    BY <2>3, <1>2 DEF One!Begin, One!Busy, One!TypeOK
<1>3. CASE ~One!Begin(t)
  <2>1. One!Busy' \subseteq One!Busy
    BY <1>1, <1>3 DEF One!Step, One!Respond, One!CallRaises, One!Return, One!Verify, One!VerifyRaises, One!Write, One!WriteError, One!Busy, One!TypeOK
  <2> QED
    BY <2>1 DEF One!Alone
<1> QED
  BY <1>2, <1>3

\* Types.
LEMMA OneTypeStep == One!IndInv /\ One!Next => One!TypeOK'
<1> SUFFICES ASSUME One!IndInv, NEW t \in Tasks, One!Step(t) PROVE One!TypeOK'
  BY DEF One!Next
<1>0. One!TypeOK /\ One!Asked
  BY DEF One!IndInv
<1>1. CASE One!Begin(t) \/ One!Respond(t) \/ One!CallRaises(t) \/ One!Return(t)
  BY <1>1, <1>0 DEF One!Begin, One!Respond, One!CallRaises, One!Return, One!TypeOK, One!Answer
<1>2. CASE One!Verify(t)
  <2>1. answer[t] \in One!Answer /\ One!Passed(t, answer[t]) \in 0..Tests
    BY <1>0, <1>2, OnePassedFacts DEF One!Asked, One!Verify, One!Own
  <2>2. attempt[t] \in 0..AppsRetries /\ AppsRetries \in Nat /\ 0 \in 0..Tests
    BY <1>0, OneAssumption DEF One!TypeOK
  <2>3. One!RetryCnt(t) \in 0..AppsRetries \cup {Nothing}
    BY <2>2 DEF One!RetryCnt
  <2>4. One!StoredApps(t) \in One!Sample /\ One!StoredLcb(t) \in One!Sample
    BY <2>1, <2>2, <2>3 DEF One!StoredApps, One!StoredLcb, One!Sample, One!NewSample
  <2>5. sample' \in [Tasks -> One!Sample]
    BY <2>4, <1>0, <1>2 DEF One!Verify, One!TypeOK, One!Stored
  <2>6. attempt' \in [Tasks -> 0..AppsRetries]
    BY <2>2, <1>0, <1>2 DEF One!Verify, One!TypeOK
  <2> QED
    BY <2>5, <2>6, <1>0, <1>2 DEF One!Verify, One!TypeOK
<1>3. CASE One!VerifyRaises(t)
  <2>1. sample' \in [Tasks -> One!Sample]
    BY <1>0, <1>3 DEF One!Asked, One!Own, One!VerifyRaises, One!TypeOK, One!Sample
  <2> QED
    BY <2>1, <1>0, <1>3 DEF One!VerifyRaises, One!TypeOK
<1>4. CASE One!Write(t)
  <2>1. One!Record(t, sample[t]) \in One!RecordType
    BY <1>0 DEF One!TypeOK, One!Record, One!RecordType, One!Sample
  <2> QED
    BY <2>1, <1>0, <1>4 DEF One!Write, One!TypeOK
<1>5. CASE One!WriteError(t)
  <2>1. /\ One!NewSample \in One!Sample
        /\ \A s \in One!Sample : [One!Record(t, s) EXCEPT !.result = "error"] \in One!RecordType
    BY OneAssumption DEF One!NewSample, One!Sample, One!Record, One!RecordType
  <2>2. sample[t] \in One!Sample
    BY <1>0 DEF One!TypeOK
  <2> QED
    BY <2>1, <2>2, <1>0, <1>5 DEF One!WriteError, One!TypeOK
<1> QED
  BY <1>1, <1>2, <1>3, <1>4, <1>5 DEF One!Step

\* Only an answer that came between could be another's.
LEMMA OneAskedStep == One!IndInv /\ One!Next => One!Asked'
<1> SUFFICES ASSUME One!IndInv, NEW t \in Tasks, One!Step(t) PROVE One!Asked'
  BY DEF One!Next
<1> USE DEF One!Own
<1>0. One!TypeOK /\ One!Asked /\ One!Alone
  BY DEF One!IndInv
<1>1. CASE One!Begin(t) \/ One!CallRaises(t) \/ One!Verify(t) \/ One!VerifyRaises(t) \/ One!Write(t) \/ One!WriteError(t)
  BY <1>1, <1>0 DEF One!Begin, One!CallRaises, One!Verify, One!VerifyRaises, One!Write, One!WriteError, One!TypeOK, One!Asked
<1>2. CASE One!Respond(t)
  <2>1. compl_resp' \in One!Answer /\ compl_resp'.task = t
    BY <1>2 DEF One!Respond, One!Answer
  <2>2. \A u \in Tasks \ {t} : pc[u] = "received" => 1 # 1
    BY <1>2, <1>0 DEF One!Alone, One!Busy, One!Respond
  <2> QED
    BY <2>1, <2>2, <1>2, <1>0 DEF One!Respond, One!TypeOK, One!Asked
<1>3. CASE One!Return(t)
  BY <1>3, <1>0 DEF One!Return, One!TypeOK, One!Asked
<1> QED
  BY <1>1, <1>2, <1>3 DEF One!Step

\* A Sample carries the verdict of the code that is in it.
LEMMA OneSamplesStep == One!IndInv /\ One!Next => One!Samples'
<1> SUFFICES ASSUME One!IndInv, NEW t \in Tasks, One!Step(t) PROVE One!Samples'
  BY DEF One!Next
<1>0. One!TypeOK /\ One!Asked /\ One!Samples
  BY DEF One!IndInv
<1>1. CASE One!Begin(t) \/ One!Respond(t) \/ One!CallRaises(t) \/ One!Return(t) \/ One!Write(t) \/ One!WriteError(t)
  BY <1>1, <1>0 DEF One!Begin, One!Respond, One!CallRaises, One!Return, One!Write, One!WriteError, One!TypeOK, One!Samples, One!Early
<1>2. CASE One!Verify(t)
  <2>1. One!Own(t, answer[t]) /\ answer[t] \in One!Answer /\ One!Passed(t, answer[t]) \in 0..Tests
    BY <1>0, <1>2, OnePassedFacts DEF One!Asked, One!Verify, One!Own
  <2>2. attempt[t] \in Nat /\ AppsRetries \in Nat /\ Tests \in Nat /\ 0 < Tests
    BY <1>0, OneAssumption DEF One!TypeOK
  <2>3. sample'[t] = One!Stored(t) /\ \A u \in Tasks \ {t} : sample'[u] = sample[u] /\ pc'[u] = pc[u] /\ attempt'[u] = attempt[u]
    BY <1>2, <1>0 DEF One!Verify, One!TypeOK
  <2>4. pc'[t] = "write" \/ (pc'[t] = "asking" /\ attempt'[t] # 0 /\ ~One!Success(t))
    BY <1>2, <1>0, <2>2 DEF One!Verify, One!TypeOK
  <2>5. One!Deserved(t, One!Stored(t)) /\ (~One!Success(t) => One!Harmless(t, One!Stored(t)))
    <3>1. One!Passed(t, answer[t]) \in Nat /\ One!Passed(t, answer[t]) <= Tests
      BY <2>1, <2>2
    <3>2. CASE One!Success(t)
      BY <3>2, <2>1, <2>2 DEF One!Stored, One!StoredApps, One!StoredLcb, One!Deserved, One!Success
    <3>3. CASE ~One!Success(t)
      <4>1. One!Passed(t, answer[t]) < Tests
        BY <3>1, <3>3, <2>2 DEF One!Success
      <4> QED
        BY <4>1, <3>3, <2>2 DEF One!Stored, One!StoredApps, One!StoredLcb, One!Deserved, One!Harmless, One!NewSample
    <3> QED
      BY <3>2, <3>3
  <2> QED
    BY <2>3, <2>4, <2>5, <1>0 DEF One!Samples, One!Early
<1>3. CASE One!VerifyRaises(t)
  <2>1. /\ \A u \in Tasks \ {t} : sample'[u] = sample[u] /\ pc'[u] = pc[u] /\ attempt'[u] = attempt[u]
        /\ pc'[t] = "raised"
    BY <1>3, <1>0 DEF One!VerifyRaises, One!TypeOK
  <2>2. One!Harmless(t, sample'[t])
    <3>1. CASE "apps" = "lcb" /\ attempt[t] = 0
      <4>1. sample[t] = One!NewSample
        BY <3>1, <1>3, <1>0 DEF One!Samples, One!VerifyRaises, One!Early
      <4>2. sample'[t].result = "failed" /\ sample'[t].passed = 0
        BY <4>1, <3>1, <1>3, <1>0 DEF One!VerifyRaises, One!TypeOK, One!NewSample
      <4> QED
        BY <4>2, OneAssumption DEF One!Harmless
    <3>2. CASE ~("apps" = "lcb" /\ attempt[t] = 0)
      BY <3>2, <1>3, <1>0 DEF One!VerifyRaises, One!Samples, One!Early
    <3> QED
      BY <3>1, <3>2
  <2> QED
    BY <2>1, <2>2, <1>0 DEF One!Samples, One!Early
<1> QED
  BY <1>1, <1>2, <1>3 DEF One!Step

\* What is appended is what the Sample carries, or an error.
LEMMA OneRecordsStep ==
  One!IndInv /\ One!Next => One!RecordIsOfItsCode' /\ ("apps" = "lcb" \/ 1 = 1 => One!VerifiedOwn')
<1> SUFFICES ASSUME One!IndInv, NEW t \in Tasks, One!Step(t)
             PROVE  One!RecordIsOfItsCode' /\ ("apps" = "lcb" \/ 1 = 1 => One!VerifiedOwn')
  BY DEF One!Next
<1>0. /\ One!TypeOK /\ One!Samples /\ One!RecordIsOfItsCode
      /\ "apps" = "lcb" \/ 1 = 1 => One!VerifiedOwn
  BY DEF One!IndInv
<1>1. ASSUME NEW r, One!Records' \subseteq One!Records \cup {r},
             /\ r.result = "success" => One!Own(r.task, r.code) /\ One!Passed(r.task, r.code) = Tests
             /\ r.result = "failure" => One!Passed(r.task, r.code) = r.passed /\ r.passed < Tests
             /\ r.result = "error" => r.passed < Tests /\ (r.passed = 0 \/ r.passed = One!Passed(r.task, r.code)),
             r.task \in Tasks
      PROVE  One!RecordIsOfItsCode' /\ ("apps" = "lcb" \/ 1 = 1 => One!VerifiedOwn')
  <2>1. One!RecordIsOfItsCode'
    BY <1>0, <1>1 DEF One!RecordIsOfItsCode
  <2>2. ASSUME "apps" = "lcb" \/ 1 = 1, r.result = "success"
        PROVE  r.code # Nothing /\ r.code.task = r.task /\ r.code.quality = "right"
    BY <2>2, <1>1, OnePassedFacts, OneAssumption DEF One!Own
  <2> QED
    BY <2>1, <2>2, <1>0, <1>1 DEF One!VerifiedOwn
<1>2. CASE UNCHANGED <<output, elsewhere>>
  <2>1. One!Records' = One!Records
    BY <1>2 DEF One!Records
  <2> QED
    BY <2>1, <1>0 DEF One!RecordIsOfItsCode, One!VerifiedOwn
<1>3. CASE One!Write(t)
  <2> DEFINE r == One!Record(t, sample[t])
  <2>1. One!Records' \subseteq One!Records \cup {r}
    BY <1>3 DEF One!Write, One!Records
  <2>2. One!Deserved(t, sample[t]) /\ sample[t] \in One!Sample
    BY <1>3, <1>0 DEF One!Write, One!Samples, One!TypeOK
  <2>3. r.task = t /\ r.code = sample[t].code /\ r.result = sample[t].result /\ r.passed = sample[t].passed
    BY DEF One!Record
  <2>4. r.result # "error"
    BY <2>2, <2>3 DEF One!Sample
  <2> HIDE DEF r
  <2> QED
    BY <2>1, <2>2, <2>3, <2>4, <1>1 DEF One!Deserved
<1>4. CASE One!WriteError(t)
  <2> DEFINE s == IF "apps" = "apps" THEN One!NewSample ELSE sample[t]
             r == [One!Record(t, s) EXCEPT !.result = "error"]
  <2>1. One!Records' \subseteq One!Records \cup {r}
    BY <1>4 DEF One!WriteError, One!Records
  <2>2. s.passed < Tests /\ (s.passed = 0 \/ s.passed = One!Passed(t, s.code))
    BY <1>4, <1>0, OneAssumption DEF One!WriteError, One!Samples, One!Harmless, One!NewSample
  <2>3. r.task = t /\ r.code = s.code /\ r.result = "error" /\ r.passed = s.passed
    BY DEF One!Record
  <2> HIDE DEF r, s
  <2> QED
    BY <2>1, <2>2, <2>3, <1>1
<1> QED
  BY <1>2, <1>3, <1>4 DEF One!Step, One!Begin, One!Respond, One!CallRaises, One!Return, One!Verify, One!VerifyRaises

\* A task is recorded when it ends, and ends once.
LEMMA OneOnceStep == One!IndInv /\ One!Next => One!Once'
<1> SUFFICES ASSUME One!IndInv, NEW t \in Tasks, One!Step(t) PROVE One!Once'
  BY DEF One!Next
<1>0. One!TypeOK /\ One!Once
  BY DEF One!IndInv
<1>1. CASE UNCHANGED <<output, elsewhere>> /\ \A u \in Tasks : pc'[u] = "done" <=> pc[u] = "done"
  BY <1>1, <1>0 DEF One!Once, One!Of
<1>2. ASSUME NEW r, r.task = t, pc[t] # "done", pc' = [pc EXCEPT ![t] = "done"],
             \/ output' = output \cup {r} /\ UNCHANGED elsewhere
             \/ elsewhere' = elsewhere \cup {r} /\ UNCHANGED output
      PROVE  One!Once'
  <2>1. \A u \in Tasks \ {t} : /\ pc'[u] = pc[u] /\ One!Of(u, output') = One!Of(u, output)
                               /\ One!Of(u, elsewhere') = One!Of(u, elsewhere)
    BY <1>2, <1>0 DEF One!TypeOK, One!Of
  <2>2. \A u \in Tasks \ {t} : (\A q : One!Of(u, output) = {q} => q \in output') /\ (\A q : One!Of(u, elsewhere) = {q} => q \in elsewhere')
    BY <1>2 DEF One!Of
  <2>3. pc'[t] = "done" /\ One!Of(t, output) = {} /\ One!Of(t, elsewhere) = {}
    BY <1>2, <1>0 DEF One!TypeOK, One!Once
  <2>4. \/ r \in output' /\ One!Of(t, output') = {r} /\ One!Of(t, elsewhere') = {}
        \/ r \in elsewhere' /\ One!Of(t, elsewhere') = {r} /\ One!Of(t, output') = {}
    BY <2>3, <1>2 DEF One!Of
  <2>5. ASSUME NEW u \in Tasks \ {t}
        PROVE  IF pc'[u] = "done"
               THEN \/ One!Of(u, elsewhere') = {} /\ \E q \in output' : One!Of(u, output') = {q}
                    \/ One!Of(u, output') = {} /\ \E q \in elsewhere' : One!Of(u, elsewhere') = {q}
               ELSE One!Of(u, output') = {} /\ One!Of(u, elsewhere') = {}
    BY <2>1, <2>2, <1>0 DEF One!Once
  <2> QED
    BY <2>3, <2>4, <2>5 DEF One!Once, One!Of
<1>3. CASE One!Write(t)
  <2>1. One!Record(t, sample[t]).task = t
    BY DEF One!Record
  <2> QED
    BY <2>1, <1>2, <1>3 DEF One!Write
<1>4. CASE One!WriteError(t)
  <2>1. \A s : [One!Record(t, s) EXCEPT !.result = "error"].task = t
    BY DEF One!Record
  <2> QED
    BY <2>1, <1>2, <1>4 DEF One!WriteError
<1> QED
  BY <1>0, <1>1, <1>3, <1>4 DEF One!Step, One!Begin, One!Respond, One!CallRaises, One!Return, One!Verify, One!VerifyRaises, One!TypeOK

\* So every step of a task keeps it.
LEMMA OneTaskNext == One!IndInv /\ (One!Next \/ UNCHANGED One!vars) => One!IndInv'
<1>1. One!IndInv /\ UNCHANGED One!vars => One!IndInv'
  BY DEF One!vars, One!IndInv, One!TypeOK, One!Alone, One!Busy, One!Asked, One!Samples, One!Once, One!Of, One!RecordIsOfItsCode, One!VerifiedOwn, One!Records
<1> QED
  BY <1>1, OneTypeStep, OneAloneStep, OneAskedStep, OneSamplesStep, OneRecordsStep, OneOnceStep DEF One!IndInv

\* Once is OneRecord without the counting.
LEMMA OneOnceCounts == One!Once => One!OneRecord
<1> SUFFICES ASSUME One!Once, NEW t \in Tasks
             PROVE  Cardinality(One!Of(t, output)) + Cardinality(One!Of(t, elsewhere)) = IF t \in One!Finished THEN 1 ELSE 0
  BY OneCounts DEF One!OneRecord, One!Of
<1>1. Cardinality({}) = 0 /\ \A q : Cardinality({q}) = 1
  BY FS_EmptySet, FS_Singleton
<1>2. CASE pc[t] = "done"
  <2>1. \/ Cardinality(One!Of(t, output)) = 1 /\ Cardinality(One!Of(t, elsewhere)) = 0
        \/ Cardinality(One!Of(t, output)) = 0 /\ Cardinality(One!Of(t, elsewhere)) = 1
    BY <1>1, <1>2, Zenon DEF One!Once
  <2> QED
    BY <2>1, <1>2 DEF One!Finished
<1>3. CASE pc[t] # "done"
  BY <1>1, <1>3 DEF One!Once, One!Finished
<1> QED
  BY <1>2, <1>3

-----------------------------------------------------------------------------
(* The parts together. *)

\* pipeline.py knows no "failure", and its errors are without a rate.
AppsRecords ==
  /\ \A t \in Tasks : sample[t].result # "failure"
  /\ \A r \in Records : r.result # "failure" /\ (r.result = "error" => r.passed = 0)

\* No task has begun.
LEMMA AppsStart == One!Init => AppsRecords
BY DEF One!Init, One!NewSample, AppsRecords, Records

\* Every step of pipeline.py keeps it.
LEMMA AppsStep ==
  One!IndInv /\ AppsRecords /\ (One!Next \/ UNCHANGED vars) => AppsRecords'
<1> SUFFICES ASSUME One!IndInv, AppsRecords, One!Next \/ UNCHANGED vars PROVE AppsRecords'
  OBVIOUS
<1>0. sample \in [Tasks -> One!Sample]
  BY DEF One!IndInv, One!TypeOK
<1>1. CASE UNCHANGED <<sample, output, elsewhere>>
  BY <1>1 DEF AppsRecords, Records
<1>2. ASSUME NEW t \in Tasks, One!Verify(t) PROVE AppsRecords'
  <2>1. sample' = [sample EXCEPT ![t] = One!StoredApps(t)] /\ UNCHANGED <<output, elsewhere>>
    BY <1>2 DEF One!Verify, One!Stored
  <2>2. One!StoredApps(t).result # "failure"
    BY DEF One!StoredApps, One!NewSample
  <2> QED
    BY <2>1, <2>2, <1>0 DEF AppsRecords, Records
<1>3. ASSUME NEW t \in Tasks, One!VerifyRaises(t) PROVE AppsRecords'
  BY <1>3 DEF One!VerifyRaises, AppsRecords, Records
<1>4. ASSUME NEW t \in Tasks, One!Write(t) PROVE AppsRecords'
  <2> DEFINE r == One!Record(t, sample[t])
  <2>1. UNCHANGED sample /\ Records' \subseteq Records \cup {r}
    BY <1>4 DEF One!Write, Records
  <2>2. r.result = sample[t].result /\ sample[t].result \in {"success", "failed", "failure"}
    BY <1>0 DEF One!Record, One!Sample
  <2>3. r.result # "failure" /\ r.result # "error"
    BY <2>2 DEF AppsRecords
  <2> HIDE DEF r
  <2> QED
    BY <2>1, <2>3 DEF AppsRecords
<1>5. ASSUME NEW t \in Tasks, One!WriteError(t) PROVE AppsRecords'
  <2> DEFINE r == [One!Record(t, One!NewSample) EXCEPT !.result = "error"]
  <2>1. UNCHANGED sample /\ Records' \subseteq Records \cup {r}
    BY <1>5 DEF One!WriteError, Records
  <2>2. r.result = "error" /\ r.passed = 0
    BY DEF One!Record, One!NewSample
  <2> HIDE DEF r
  <2> QED
    BY <2>1, <2>2 DEF AppsRecords
<1>6. ASSUME NEW t \in Tasks, One!Begin(t) \/ One!Respond(t) \/ One!CallRaises(t) \/ One!Return(t)
      PROVE  UNCHANGED <<sample, output, elsewhere>>
  BY <1>6 DEF One!Begin, One!Respond, One!CallRaises, One!Return
<1> QED
  BY <1>1, <1>2, <1>3, <1>4, <1>5, <1>6 DEF One!Next, One!Step, vars

\* Such records satisfy what is asked of those of either pipeline.
LEMMA AppsPromise == One!IndInv /\ AppsRecords => TranslationsRight
<1> SUFFICES ASSUME One!IndInv, AppsRecords PROVE TranslationsRight
  OBVIOUS
<1>1. VerifiedOwn
  BY DEF One!IndInv, One!VerifiedOwn, One!Records, VerifiedOwn, Records
<1>2. OneRecord
  <2>1. One!OneRecord
    BY OneOnceCounts DEF One!IndInv
  <2> QED
    BY <2>1, OneCounts DEF One!OneRecord, OneRecord, One!Finished, Finished
<1>3. RecordIsOfItsCode
  <2>1. Pipeline = "lcb" /\ Tests \in Nat /\ 0 < Tests
    BY GenerationAssumption, TranslateAssumption
  <2>2. ASSUME NEW r \in Records, r.result = "success" PROVE Passed(r.task, r.code) = Tests
    BY <2>1, <2>2, <1>1 DEF VerifiedOwn, Passed, InputsPassed
  <2> QED
    BY <2>1, <2>2 DEF RecordIsOfItsCode, AppsRecords
<1> QED
  BY <1>1, <1>2, <1>3 DEF TranslationsRight

\* The invariant of the part that is looked at; the tasks of Translate rest else.
AnswersInv ==
  /\ part = "stream" => StreamInv
  /\ part = "loop" => LoopInv
  /\ part = "apps" => One!IndInv /\ AppsRecords
  /\ part # "apps" => IndInv

\* Every part starts in its invariant.
LEMMA AnswersStart == GenerationInit => AnswersInv
BY StreamStarts0, LoopStarts0, OneStarts, Starts, AppsStart DEF GenerationInit, AnswersInv

\* A step of one part leaves the others where they are.
LEMMA AnswersStep == AnswersInv /\ [GenerationNext]_generationVars => AnswersInv'
<1> SUFFICES ASSUME AnswersInv, [GenerationNext]_generationVars PROVE AnswersInv'
  OBVIOUS
<1>1. part' = part
  BY DEF GenerationNext, BatchOnly, TransOnly, CampOnly, CustOnly, generationVars
<1>2. CASE part = "stream"
  <2>1. (Stream!Next \/ UNCHANGED batchVars) /\ UNCHANGED vars
    BY <1>2 DEF GenerationNext, BatchOnly, generationVars
  <2>2. StreamInv' /\ IndInv'
    BY <2>1, <1>2, StreamNext, TaskNext DEF AnswersInv
  <2> QED
    BY <2>2, <1>1, <1>2 DEF AnswersInv
<1>3. CASE part = "loop"
  <2>1. (Loop!Next \/ UNCHANGED batchVars) /\ UNCHANGED vars
    BY <1>3 DEF GenerationNext, BatchOnly, generationVars
  <2>2. LoopInv' /\ IndInv'
    BY <2>1, <1>3, LoopNext, TaskNext DEF AnswersInv
  <2> QED
    BY <2>2, <1>1, <1>3 DEF AnswersInv
<1>4. CASE part = "apps"
  <2>1. One!Next \/ UNCHANGED vars
    BY <1>4 DEF GenerationNext, generationVars
  <2>2. UNCHANGED vars => UNCHANGED One!vars
    BY DEF One!vars, vars
  <2>3. One!IndInv' /\ AppsRecords'
    BY <2>1, <2>2, <1>4, OneTaskNext, AppsStep DEF AnswersInv
  <2> QED
    BY <2>3, <1>1, <1>4 DEF AnswersInv
<1>5. CASE part \notin {"stream", "loop", "apps"}
  <2>1. Next \/ UNCHANGED vars
    BY <1>5 DEF GenerationNext, CampOnly, CustOnly, generationVars
  <2>2. IndInv'
    BY <2>1, <1>5, TaskNext DEF AnswersInv
  <2> QED
    BY <2>2, <1>1, <1>5 DEF AnswersInv
<1> QED
  BY <1>2, <1>3, <1>4, <1>5

\* So it holds for ever.
LEMMA AnswersInvariance == GenerationSpec => []AnswersInv
BY AnswersStart, AnswersStep, PTL DEF GenerationSpec

(* For any number of prompts, answers, workers, starts and kills, and any   *)
(* size of a batch: the list a streaming run returns has at the place of a  *)
(* problem what was generated for its prompt, whichever tasks fail, and so  *)
(* has the cache, of which a prompt is never given the answer of another    *)
(* (base_runner.py:60-191); a record of the translation carries the verdict *)
(* of its own code.                                                         *)
THEOREM EveryAnswerPlaced == GenerationSpec => []AnswersPlaced
<1>1. AnswersInv => AnswersPlaced
  BY StreamPromise, LoopPromise DEF AnswersInv, AnswersPlaced, One!IndInv, IndInv
<1> QED
  BY <1>1, AnswersInvariance, PTL

(* What is kept of every example is its own, once, with its own verdict:   *)
(* with pipeline_lcb.py for any number of threads, although they share the *)
(* adapter and may read each other's answers; with pipeline.py, whose tests *)
(* come with the answer, for its one thread (pipeline.py:160-275,          *)
(* pipeline_lcb.py:300-420).                                               *)
THEOREM Translated == GenerationSpec => []TranslationsRight
<1>1. AnswersInv => TranslationsRight
  <2>1. IndInv => TranslationsRight
    BY OnceCounts, GenerationAssumption DEF IndInv, TranslationsRight
  <2> QED
    BY <2>1, AppsPromise DEF AnswersInv
<1> QED
  BY <1>1, AnswersInvariance, PTL

\* Nothing takes a verdict back.
LEMMA GradedStays == Files!Next => Files!GradedStep
BY DEF Files!Next, Files!GradedStep, Files!Start, Files!Ask, Files!Asked, Files!Evaluate, Files!Crash,
       Files!RemoveOutput

(* A saved cache still answers every prompt that the file answered before,  *)
(* unless the worker died on the way to the cached answer; and a verdict    *)
(* that is filed is never replaced.                                         *)
THEOREM NothingIsForgotten == GenerationSpec => NothingForgotten
<1>1. AnswersInv /\ [GenerationNext]_generationVars =>
        [/\ part = "stream" => Stream!CacheStep
         /\ part = "campaign" => Files!GradedStep]_generationVars
  <2> SUFFICES ASSUME AnswersInv, GenerationNext
               PROVE  /\ part = "stream" => Stream!CacheStep
                      /\ part = "campaign" => Files!GradedStep
    OBVIOUS
  <2>1. part = "stream" => Stream!CacheStep
    BY StreamPromise DEF AnswersInv
  <2>2. part = "campaign" => Files!Next
    BY DEF GenerationNext
  <2> QED
    BY <2>1, <2>2, GradedStays
<1> QED
  BY <1>1, AnswersInvariance, PTL DEF GenerationSpec, NothingForgotten
=============================================================================
