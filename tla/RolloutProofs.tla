--------------------------- MODULE RolloutProofs ---------------------------
(***************************************************************************)
(* Proofs about the rollout for every value of its constants: the hybrid   *)
(* worker (FsdpWorker), for any ranks and groups; agent loops over any     *)
(* servers, with any cache; any callers and limits of the code tool; and   *)
(* the activations of models of any size, however slow the streams are.    *)
(*                                                                         *)
(* Every component has an inductive invariant of its own.  Their steps are *)
(* steps of one part (MCRollout), so the conjunction is inductive.         *)
(***************************************************************************)
EXTENDS MCRollout, SequenceTheorems, FiniteSetTheorems, WellFoundedInduction,
        TLAPS

-----------------------------------------------------------------------------
(***************************************************************************)
(* The inductive invariant: what of it is there while an operation runs.   *)
(***************************************************************************)
\* An engine with the base is given adapters, another all parameters.
EngineInv ==
  /\ Lora => engine.base = 0 /\ (pc # "off" => base_sync_done)
  /\ ~Lora => engine.adapter = 0
  /\ pc \in {"wake", "generate", "exit"} => engine = Parameters(model)

\* The GPU belongs to the parameters or to the cache of the engine.
DeviceInv ==
  /\ pc \in {"load", "save", "update", "log_prob", "ref", "sync", "wake"} => modelOn = "gpu"
  /\ pc = "update" => optimOn = "gpu"
  /\ pc \in {"idle", "own ref", "generate", "exit"} /\ OffloadParam => modelOn = "cpu"
  /\ pc \notin {"off", "update"} /\ OffloadOptimizer => optimOn = "cpu"
  /\ pc # "off" /\ ~OffloadParam => modelOn = "gpu"
  /\ pc # "off" /\ ~OffloadOptimizer => optimOn = "gpu"
  /\ pc \notin {"wake", "generate", "exit"} /\ FreeCache => awake = {}
  /\ pc = "wake" /\ FreeCache => awake = {"weights"}
  /\ pc \in {"wake", "generate", "exit"} => "weights" \in awake
  /\ pc \in {"generate", "exit"} => "kv_cache" \in awake
  /\ RefIsBase

\* One of the two random states is in use, and the other is kept.
StreamInv ==
  /\ pc \notin {"generate", "exit"} => rng = Training(model)
  /\ pc \in {"generate", "exit"} => torch_random_states = Training(model)
  /\ pc \in {"generate", "exit"} => rng = Generating(generations)
  /\ pc \notin {"off", "exit"} => gen_random_states = Generating(generations)
  /\ ckpt.rng = Training(ckpt.model)

\* The rows that the ranks of a group share.
Shared(size) ==
  [r \in R |-> [j \in 1..(size * PerRank) |->
    <<(r \div size) * size + ((j - 1) \div PerRank), ((j - 1) % PerRank) + 1>>]]

RowsInv ==
  /\ pc \in {"update", "log_prob", "ref", "own ref"} => rows = Shared(Sp)
  /\ pc \in {"generate", "exit"} => rows = Shared(Tp)
  /\ pc \notin {"update", "log_prob", "ref", "own ref", "generate", "exit"} =>
       rows = OwnOfAll

\* An operation that is running is one of those that are bounded.
BoundInv ==
  /\ pc = "update" => model < MaxUpdates
  /\ pc \in {"sync", "wake", "generate"} => generations < MaxGenerations

IndInv == TypeOK /\ EngineInv /\ DeviceInv /\ StreamInv /\ RowsInv /\ BoundInv

-----------------------------------------------------------------------------
\* A number is the quotient times the divisor, and the rest.
LEMMA Division ==
  ASSUME NEW a \in Nat, NEW n \in Nat \ {0}
  PROVE  /\ a \div n \in Nat /\ a % n \in 0..(n - 1)
         /\ a = n * (a \div n) + (a % n)
BY SMT

\* The quotient and the rest are the only ones.
LEMMA Quotient ==
  ASSUME NEW k \in Nat, NEW n \in Nat \ {0}, NEW i \in 1..n
  PROVE  (k * n + i - 1) \div n = k /\ (k * n + i - 1) % n = i - 1
<1> DEFINE a == k * n + i - 1
           d == a \div n
           m == a % n
<1>1. a \in Nat
  OBVIOUS
<1>2. d \in Nat /\ m \in 0..(n - 1) /\ a = n * d + m
  BY <1>1, Division
<1> HIDE DEF d, m
<1>3. n * (d - k) = i - 1 - m
  BY <1>2
<1>4. ~(d >= k + 1)
  <2> SUFFICES ASSUME d >= k + 1 PROVE FALSE
    OBVIOUS
  <2>1. n * (d - k) >= n
    BY <1>2
  <2> QED
    BY <2>1, <1>3, <1>2
<1>5. ~(k >= d + 1)
  <2> SUFFICES ASSUME k >= d + 1 PROVE FALSE
    OBVIOUS
  <2>1. n * (k - d) >= n
    BY <1>2
  <2>2. n * (k - d) = m - i + 1
    BY <1>2
  <2> QED
    BY <2>1, <2>2, <1>2
<1>6. d = k
  BY <1>4, <1>5, <1>2
<1>7. m = i - 1
  BY <1>6, <1>2
<1> QED
  BY <1>6, <1>7 DEF d, m

\* The members of a group are ranks, if the groups have equal sizes.
LEMMA Member ==
  ASSUME NEW N \in Nat \ {0}, NEW size \in Nat \ {0}, N % size = 0,
         NEW r \in 0..(N - 1), NEW i \in 1..size
  PROVE  (r \div size) * size + i - 1 \in 0..(N - 1)
<1> DEFINE q == r \div size
           Q == N \div size
<1>1. q \in Nat /\ r % size \in 0..(size - 1) /\ r = size * q + (r % size)
  <2> r \in Nat
    OBVIOUS
  <2> QED
    BY Division
<1>2. Q \in Nat /\ N = size * Q
  BY Division
<1> HIDE DEF q, Q
<1>3. q < Q
  <2> SUFFICES ASSUME q >= Q PROVE FALSE
    BY <1>1, <1>2
  <2>1. size * q >= size * Q
    BY <1>1, <1>2
  <2> QED
    BY <2>1, <1>1, <1>2
<1>4. size * (q + 1) <= size * Q
  BY <1>1, <1>2, <1>3
<1>5. q * size + i - 1 \in 0..(N - 1)
  BY <1>1, <1>2, <1>4
<1> QED
  BY <1>5 DEF q

\* The place of a row among n * m rows of which everyone has m.
LEMMA Place ==
  ASSUME NEW n \in Nat \ {0}, NEW m \in Nat \ {0}, NEW j \in 1..(n * m)
  PROVE  (j - 1) \div m \in 0..(n - 1) /\ (j - 1) % m \in 0..(m - 1)
<1> DEFINE q == (j - 1) \div m
           w == (j - 1) % m
<1>1. q \in Nat /\ w \in 0..(m - 1) /\ j - 1 = m * q + w
  <2> j - 1 \in Nat
    BY SMT
  <2> QED
    BY Division
<1> HIDE DEF q, w
<1>2. ~(q >= n)
  <2> SUFFICES ASSUME q >= n PROVE FALSE
    OBVIOUS
  <2>1. m * q >= m * n
    BY <1>1
  <2> QED
    BY <2>1, <1>1
<1>3. q \in 0..(n - 1)
  BY <1>1, <1>2
<1> QED
  BY <1>1, <1>3 DEF q, w

\* What the constants are.
LEMMA Parallel ==
  /\ Ranks \in Nat \ {0} /\ Tp \in Nat \ {0} /\ Sp \in Nat \ {0} /\ PerRank \in Nat \ {0}
  /\ Ranks % Tp = 0 /\ Ranks % Sp = 0
BY FsdpWorkerAssumption

\* Ranks that have their own rows share them with their group,
LEMMA GatheredAreShared ==
  ASSUME NEW size \in Nat \ {0}, Ranks % size = 0, rows = OwnOfAll
  PROVE  Gathered(size) = Shared(size)
<1> SUFFICES ASSUME NEW r \in R, NEW j \in 1..(size * PerRank)
             PROVE  rows[GroupOf(r, size)[((j - 1) \div PerRank) + 1]][((j - 1) % PerRank) + 1]
                    = <<(r \div size) * size + ((j - 1) \div PerRank), ((j - 1) % PerRank) + 1>>
  BY DEF Gathered, Shared
<1> DEFINE q == (j - 1) \div PerRank
           w == (j - 1) % PerRank
           of == (r \div size) * size + (q + 1) - 1
<1>1. q \in 0..(size - 1) /\ w \in 0..(PerRank - 1)
  BY Place, Parallel
<1>2. r \div size \in Nat
  BY Division, r \in Nat DEF R
<1>3. of \in R
  <2> HIDE DEF q
  <2>1. q + 1 \in 1..size
    BY <1>1
  <2>2. r \in 0..(Ranks - 1)
    BY DEF R
  <2> QED
    BY <2>1, <2>2, Parallel, Member DEF R
<1> HIDE DEF q, w
<1>4. of = (r \div size) * size + q
  BY <1>1, <1>2
<1> HIDE DEF of
<1>5. GroupOf(r, size)[q + 1] = of
  BY <1>1 DEF GroupOf, of
<1>6. rows[of][w + 1] = <<of, w + 1>>
  BY <1>3, <1>1, Parallel DEF OwnOfAll, Own
<1> QED
  BY <1>4, <1>5, <1>6 DEF q, w

\* and have them back afterwards.
LEMMA ChunkedAreOwn ==
  ASSUME NEW size \in Nat \ {0}, Ranks % size = 0, rows = Shared(size)
  PROVE  Chunked(size) = OwnOfAll
<1> SUFFICES ASSUME NEW r \in R
             PROVE  LET n == Len(rows[r]) \div size IN
                      SubSeq(rows[r], (r % size) * n + 1, ((r % size) + 1) * n) = Own(r)
  BY DEF Chunked, OwnOfAll
<1> DEFINE s == rows[r]
           k == r % size
           g == r \div size
<1>1. r \in Nat /\ k \in 0..(size - 1) /\ g \in Nat /\ r = size * g + k
  BY Division, r \in Nat DEF R
<1>2. size * PerRank \in Nat /\ DOMAIN s = 1..(size * PerRank) /\ Len(s) = size * PerRank
  BY Parallel DEF Shared
<1>3. Len(s) \div size = PerRank
  <2>1. (PerRank * size + 1 - 1) \div size = PerRank
    BY Quotient, Parallel
  <2>2. PerRank * size + 1 - 1 = size * PerRank
    BY Parallel
  <2> QED
    BY <2>1, <2>2, <1>2
<1> HIDE DEF k, g
<1>4. \A i \in 1..PerRank : i + (k * PerRank + 1) - 1 \in 1..(size * PerRank)
  <2> TAKE i \in 1..PerRank
  <2>1. k + 1 <= size
    BY <1>1
  <2>2. (k + 1) * PerRank <= size * PerRank
    BY <2>1, <1>1, Parallel
  <2>3. k * PerRank \in Nat /\ (k + 1) * PerRank = k * PerRank + PerRank
    BY <1>1, Parallel
  <2> QED
    BY <2>2, <2>3, Parallel
<1>5. \A i \in 1..PerRank : s[i + (k * PerRank + 1) - 1] = <<r, i>>
  <2> TAKE i \in 1..PerRank
  <2> DEFINE j == i + (k * PerRank + 1) - 1
  <2>1. s[j] = <<g * size + ((j - 1) \div PerRank), ((j - 1) % PerRank) + 1>>
    BY <1>4 DEF Shared, g
  <2>2. j - 1 = k * PerRank + i - 1
    BY <1>1, Parallel
  <2>3. (k * PerRank + i - 1) \div PerRank = k /\ (k * PerRank + i - 1) % PerRank = i - 1
    BY <1>1, Parallel, Quotient
  <2>4. g * size + k = r /\ i - 1 + 1 = i
    BY <1>1
  <2> QED
    BY <2>1, <2>2, <2>3, <2>4
<1>6. /\ k * PerRank + 1 \in Int /\ (k + 1) * PerRank \in Int
      /\ (k + 1) * PerRank - (k * PerRank + 1) + 1 = PerRank
      /\ k * PerRank + 1 <= (k + 1) * PerRank
  BY <1>1, Parallel
<1> DEFINE lo == k * PerRank + 1
           hi == (k + 1) * PerRank
<1> HIDE DEF lo, hi, s
<1>7. SubSeq(s, lo, hi) = Own(r)
  <2>1. lo \in Int /\ hi \in Int /\ hi - lo + 1 = PerRank /\ lo <= hi
    BY <1>6 DEF lo, hi
  <2>2. \A i \in 1..PerRank : s[lo + i - 1] = <<r, i>>
    BY <1>5, <2>1 DEF lo
  <2>3. \A i \in lo..hi : s[i] \in R \X (1..PerRank)
    <3> TAKE i \in lo..hi
    <3>1. i - lo + 1 \in 1..PerRank /\ lo + (i - lo + 1) - 1 = i
      BY <2>1
    <3>2. s[lo + (i - lo + 1) - 1] = <<r, i - lo + 1>>
      BY <2>2, <3>1
    <3>3. s[i] = <<r, i - lo + 1>>
      BY <3>1, <3>2
    <3> QED
      BY <3>1, <3>3
  <2>4. /\ SubSeq(s, lo, hi) \in Seq(R \X (1..PerRank))
        /\ Len(SubSeq(s, lo, hi)) = PerRank
        /\ \A i \in 1..PerRank : SubSeq(s, lo, hi)[i] = s[lo + i - 1]
    BY <2>1, <2>3, SubSeqProperties
  <2> DEFINE t == SubSeq(s, lo, hi)
  <2> HIDE DEF t
  <2>5. t = [i \in 1..PerRank |-> t[i]]
    <3>1. t \in Seq(R \X (1..PerRank)) /\ Len(t) = PerRank
      BY <2>4 DEF t
    <3> QED
      BY <3>1
  <2>6. \A i \in 1..PerRank : t[i] = <<r, i>>
    BY <2>2, <2>4 DEF t
  <2>7. t = Own(r)
    BY <2>5, <2>6 DEF Own
  <2> QED
    BY <2>7 DEF t
<1> QED
  BY <1>3, <1>7 DEF k, s, lo, hi

\* Random states that go on are states of the same streams.
LEMMA StatesGoOn ==
  /\ \A n \in Nat : Training(n) \in States /\ Generating(n) \in States
  /\ rng \in States => Advanced \in States
  /\ \A n \in Nat : rng = Training(n) => Advanced = Training(n + 1)
  /\ \A n \in Nat : rng = Generating(n) => Advanced = Generating(n + 1)
<1>1. \A r \in R : r \in Nat /\ r \div Tp \in Nat
  BY Parallel, Division DEF R
<1>2. \A n \in Nat : Training(n) \in States /\ Generating(n) \in States
  BY <1>1 DEF Training, Generating, Stream, States
<1>3. rng \in States => Advanced \in States
  BY DEF Advanced, States
<1>4. \A n \in Nat : rng = Training(n) => Advanced = Training(n + 1)
  BY DEF Advanced, Training, Stream
<1>5. \A n \in Nat : rng = Generating(n) => Advanced = Generating(n + 1)
  BY DEF Advanced, Generating, Stream
<1> QED
  BY <1>2, <1>3, <1>4, <1>5

\* Whatever groups they are shared in, they are rows of ranks.
LEMMA SharedAreRows ==
  /\ OwnOfAll \in [R -> Seq(R \X (1..PerRank))]
  /\ \A size \in {Sp, Tp} : Shared(size) \in [R -> Seq(R \X (1..PerRank))]
<1>1. \A r \in R : Own(r) \in Seq(R \X (1..PerRank))
  BY Parallel DEF Own
<1>2. ASSUME NEW size \in Nat \ {0}, Ranks % size = 0,
             NEW r \in R, NEW j \in 1..(size * PerRank)
      PROVE  <<(r \div size) * size + ((j - 1) \div PerRank), ((j - 1) % PerRank) + 1>>
               \in R \X (1..PerRank)
  <2> DEFINE q == (j - 1) \div PerRank
             w == (j - 1) % PerRank
  <2>1. q \in 0..(size - 1) /\ w \in 0..(PerRank - 1)
    BY Place, Parallel
  <2> HIDE DEF q, w
  <2>2. w + 1 \in 1..PerRank /\ q + 1 \in 1..size
    BY <2>1, Parallel
  <2>3. r \in 0..(Ranks - 1) /\ r \in Nat
    BY DEF R
  <2>4. (r \div size) * size + (q + 1) - 1 \in R
    BY <1>2, <2>2, <2>3, Parallel, Member DEF R
  <2>5. r \div size \in Nat
    BY <2>3, Division
  <2>6. (r \div size) * size + (q + 1) - 1 = (r \div size) * size + q
    BY <2>1, <2>5
  <2> QED
    BY <2>2, <2>4, <2>6 DEF q, w
<1>3. ASSUME NEW size \in {Sp, Tp}, NEW r \in R
      PROVE  [j \in 1..(size * PerRank) |->
               <<(r \div size) * size + ((j - 1) \div PerRank), ((j - 1) % PerRank) + 1>>]
               \in Seq(R \X (1..PerRank))
  <2>1. size \in Nat \ {0} /\ Ranks % size = 0 /\ size * PerRank \in Nat
    BY Parallel
  <2> QED
    BY <1>2, <2>1
<1> QED
  BY <1>1, <1>3 DEF OwnOfAll, Shared

\* The engine gets the parameters that are to generate.
LEMMA EngineStep == TypeOK /\ EngineInv /\ [Next]_vars => EngineInv'
<1> SUFFICES ASSUME TypeOK /\ EngineInv, [Next]_vars PROVE EngineInv'
  OBVIOUS
<1> USE DEF EngineInv, Parameters, TypeOK
<1>1. CASE Start
  BY <1>1, FsdpWorkerAssumption DEF Start, device, copy, states
<1>2. CASE BeginLoad
  BY <1>2, FsdpWorkerAssumption DEF BeginLoad, device, copy, states
<1>3. CASE LoadCheckpoint
  BY <1>3, FsdpWorkerAssumption DEF LoadCheckpoint, device, copy, states
<1>4. CASE BeginSave
  BY <1>4, FsdpWorkerAssumption DEF BeginSave, device, copy, states
<1>5. CASE SaveCheckpoint
  BY <1>5, FsdpWorkerAssumption DEF SaveCheckpoint, device, copy, states
<1>6. CASE BeginUpdate
  BY <1>6, FsdpWorkerAssumption DEF BeginUpdate, device, copy, states
<1>7. CASE Update
  BY <1>7, FsdpWorkerAssumption DEF Update, device, copy, states
<1>8. CASE BeginLogProb("log_prob")
  BY <1>8, FsdpWorkerAssumption DEF BeginLogProb, device, copy, states
<1>9. CASE BeginLogProb("ref")
  BY <1>9, FsdpWorkerAssumption DEF BeginLogProb, device, copy, states
<1>10. CASE LogProb
  BY <1>10, FsdpWorkerAssumption DEF LogProb, device, copy, states
<1>11. CASE RefLogProb
  BY <1>11, FsdpWorkerAssumption DEF RefLogProb, device, copy, states
<1>12. CASE RefLogProbEnds
  BY <1>12, FsdpWorkerAssumption DEF RefLogProbEnds, device, copy, states
<1>13. CASE BeginGenerate
  BY <1>13, FsdpWorkerAssumption DEF BeginGenerate, device, copy, states
<1>14. CASE Sync
  BY <1>14, FsdpWorkerAssumption DEF Sync, UpdatedParams, device, copy, states
<1>15. CASE Wake
  BY <1>15, FsdpWorkerAssumption DEF Wake, device, copy, states
<1>16. CASE Generate
  BY <1>16, FsdpWorkerAssumption DEF Generate, device, copy, states
<1>17. CASE Exit
  BY <1>17, FsdpWorkerAssumption DEF Exit, device, copy, states
<1>18. CASE UNCHANGED vars
  BY <1>18 DEF vars, device, copy, states
<1> QED
  BY <1>1, <1>2, <1>3, <1>4, <1>5, <1>6, <1>7, <1>8, <1>9, <1>10, <1>11, <1>12, <1>13, <1>14, <1>15, <1>16, <1>17, <1>18 DEF Next

\* What is used is brought to the GPU, and taken away again.
LEMMA DeviceStep == TypeOK /\ DeviceInv /\ [Next]_vars => DeviceInv'
<1> SUFFICES ASSUME TypeOK /\ DeviceInv, [Next]_vars PROVE DeviceInv'
  OBVIOUS
<1> USE DEF DeviceInv, RefIsBase, Load, Offload, TypeOK
<1>1. CASE Start
  BY <1>1 DEF Start, device, copy, states
<1>2. CASE BeginLoad
  BY <1>2 DEF BeginLoad, device, copy, states
<1>3. CASE LoadCheckpoint
  BY <1>3 DEF LoadCheckpoint, device, copy, states
<1>4. CASE BeginSave
  BY <1>4 DEF BeginSave, device, copy, states
<1>5. CASE SaveCheckpoint
  BY <1>5 DEF SaveCheckpoint, device, copy, states
<1>6. CASE BeginUpdate
  BY <1>6 DEF BeginUpdate, device, copy, states
<1>7. CASE Update
  BY <1>7 DEF Update, device, copy, states
<1>8. CASE BeginLogProb("log_prob")
  BY <1>8 DEF BeginLogProb, device, copy, states
<1>9. CASE BeginLogProb("ref")
  BY <1>9 DEF BeginLogProb, device, copy, states
<1>10. CASE LogProb
  BY <1>10 DEF LogProb, device, copy, states
<1>11. CASE RefLogProb
  BY <1>11 DEF RefLogProb, device, copy, states
<1>12. CASE RefLogProbEnds
  BY <1>12 DEF RefLogProbEnds, device, copy, states
<1>13. CASE BeginGenerate
  BY <1>13 DEF BeginGenerate, device, copy, states
<1>14. CASE Sync
  BY <1>14 DEF Sync, device, copy, states
<1>15. CASE Wake
  BY <1>15 DEF Wake, device, copy, states
<1>16. CASE Generate
  BY <1>16 DEF Generate, device, copy, states
<1>17. CASE Exit
  BY <1>17 DEF Exit, device, copy, states
<1>18. CASE UNCHANGED vars
  BY <1>18 DEF vars, device, copy, states
<1> QED
  BY <1>1, <1>2, <1>3, <1>4, <1>5, <1>6, <1>7, <1>8, <1>9, <1>10, <1>11, <1>12, <1>13, <1>14, <1>15, <1>16, <1>17, <1>18 DEF Next

\* The random states change places and go on.
LEMMA StreamStep == TypeOK /\ StreamInv /\ [Next]_vars => StreamInv'
<1> SUFFICES ASSUME TypeOK /\ StreamInv, [Next]_vars PROVE StreamInv'
  OBVIOUS
<1> USE DEF StreamInv, TypeOK
<1>1. CASE Start
  BY <1>1 DEF Start, device, copy, states
<1>2. CASE BeginLoad
  BY <1>2 DEF BeginLoad, device, copy, states
<1>3. CASE LoadCheckpoint
  BY <1>3 DEF LoadCheckpoint, device, copy, states
<1>4. CASE BeginSave
  BY <1>4 DEF BeginSave, device, copy, states
<1>5. CASE SaveCheckpoint
  BY <1>5 DEF SaveCheckpoint, device, copy, states
<1>6. CASE BeginUpdate
  BY <1>6 DEF BeginUpdate, device, copy, states
<1>7. CASE Update
  BY <1>7, StatesGoOn DEF Update, device, copy, states
<1>8. CASE BeginLogProb("log_prob")
  BY <1>8 DEF BeginLogProb, device, copy, states
<1>9. CASE BeginLogProb("ref")
  BY <1>9 DEF BeginLogProb, device, copy, states
<1>10. CASE LogProb
  BY <1>10 DEF LogProb, device, copy, states
<1>11. CASE RefLogProb
  BY <1>11 DEF RefLogProb, device, copy, states
<1>12. CASE RefLogProbEnds
  BY <1>12 DEF RefLogProbEnds, device, copy, states
<1>13. CASE BeginGenerate
  BY <1>13 DEF BeginGenerate, device, copy, states
<1>14. CASE Sync
  BY <1>14 DEF Sync, device, copy, states
<1>15. CASE Wake
  BY <1>15 DEF Wake, device, copy, states
<1>16. CASE Generate
  BY <1>16, StatesGoOn DEF Generate, device, copy, states
<1>17. CASE Exit
  BY <1>17 DEF Exit, device, copy, states
<1>18. CASE UNCHANGED vars
  BY <1>18 DEF vars, device, copy, states
<1> QED
  BY <1>1, <1>2, <1>3, <1>4, <1>5, <1>6, <1>7, <1>8, <1>9, <1>10, <1>11, <1>12, <1>13, <1>14, <1>15, <1>16, <1>17, <1>18 DEF Next

\* Rows are gathered and given back.
LEMMA RowsStep == RowsInv /\ [Next]_vars => RowsInv'
<1> SUFFICES ASSUME RowsInv, [Next]_vars PROVE RowsInv'
  OBVIOUS
<1> USE DEF RowsInv
<1>1. CASE Start
  BY <1>1, Parallel, GatheredAreShared, ChunkedAreOwn DEF Start, device, copy, states
<1>2. CASE BeginLoad
  BY <1>2, Parallel, GatheredAreShared, ChunkedAreOwn DEF BeginLoad, device, copy, states
<1>3. CASE LoadCheckpoint
  BY <1>3, Parallel, GatheredAreShared, ChunkedAreOwn DEF LoadCheckpoint, device, copy, states
<1>4. CASE BeginSave
  BY <1>4, Parallel, GatheredAreShared, ChunkedAreOwn DEF BeginSave, device, copy, states
<1>5. CASE SaveCheckpoint
  BY <1>5, Parallel, GatheredAreShared, ChunkedAreOwn DEF SaveCheckpoint, device, copy, states
<1>6. CASE BeginUpdate
  BY <1>6, Parallel, GatheredAreShared, ChunkedAreOwn DEF BeginUpdate, device, copy, states
<1>7. CASE Update
  BY <1>7, Parallel, GatheredAreShared, ChunkedAreOwn DEF Update, device, copy, states
<1>8. CASE BeginLogProb("log_prob")
  BY <1>8, Parallel, GatheredAreShared, ChunkedAreOwn DEF BeginLogProb, device, copy, states
<1>9. CASE BeginLogProb("ref")
  BY <1>9, Parallel, GatheredAreShared, ChunkedAreOwn DEF BeginLogProb, device, copy, states
<1>10. CASE LogProb
  BY <1>10, Parallel, GatheredAreShared, ChunkedAreOwn DEF LogProb, device, copy, states
<1>11. CASE RefLogProb
  BY <1>11, Parallel, GatheredAreShared, ChunkedAreOwn DEF RefLogProb, device, copy, states
<1>12. CASE RefLogProbEnds
  BY <1>12, Parallel, GatheredAreShared, ChunkedAreOwn DEF RefLogProbEnds, device, copy, states
<1>13. CASE BeginGenerate
  BY <1>13, Parallel, GatheredAreShared, ChunkedAreOwn DEF BeginGenerate, device, copy, states
<1>14. CASE Sync
  BY <1>14, Parallel, GatheredAreShared, ChunkedAreOwn DEF Sync, device, copy, states
<1>15. CASE Wake
  BY <1>15, Parallel, GatheredAreShared, ChunkedAreOwn DEF Wake, device, copy, states
<1>16. CASE Generate
  BY <1>16, Parallel, GatheredAreShared, ChunkedAreOwn DEF Generate, device, copy, states
<1>17. CASE Exit
  BY <1>17, Parallel, GatheredAreShared, ChunkedAreOwn DEF Exit, device, copy, states
<1>18. CASE UNCHANGED vars
  BY <1>18 DEF vars, device, copy, states
<1> QED
  BY <1>1, <1>2, <1>3, <1>4, <1>5, <1>6, <1>7, <1>8, <1>9, <1>10, <1>11, <1>12, <1>13, <1>14, <1>15, <1>16, <1>17, <1>18 DEF Next

\* An operation that begins is one of those that are bounded.
LEMMA BoundStep == BoundInv /\ [Next]_vars => BoundInv'
<1> SUFFICES ASSUME BoundInv, [Next]_vars PROVE BoundInv'
  OBVIOUS
<1> USE DEF BoundInv
<1>1. CASE Start
  BY <1>1 DEF Start, device, copy, states
<1>2. CASE BeginLoad
  BY <1>2 DEF BeginLoad, device, copy, states
<1>3. CASE LoadCheckpoint
  BY <1>3 DEF LoadCheckpoint, device, copy, states
<1>4. CASE BeginSave
  BY <1>4 DEF BeginSave, device, copy, states
<1>5. CASE SaveCheckpoint
  BY <1>5 DEF SaveCheckpoint, device, copy, states
<1>6. CASE BeginUpdate
  BY <1>6 DEF BeginUpdate, device, copy, states
<1>7. CASE Update
  BY <1>7 DEF Update, device, copy, states
<1>8. CASE BeginLogProb("log_prob")
  BY <1>8 DEF BeginLogProb, device, copy, states
<1>9. CASE BeginLogProb("ref")
  BY <1>9 DEF BeginLogProb, device, copy, states
<1>10. CASE LogProb
  BY <1>10 DEF LogProb, device, copy, states
<1>11. CASE RefLogProb
  BY <1>11 DEF RefLogProb, device, copy, states
<1>12. CASE RefLogProbEnds
  BY <1>12 DEF RefLogProbEnds, device, copy, states
<1>13. CASE BeginGenerate
  BY <1>13 DEF BeginGenerate, device, copy, states
<1>14. CASE Sync
  BY <1>14 DEF Sync, device, copy, states
<1>15. CASE Wake
  BY <1>15 DEF Wake, device, copy, states
<1>16. CASE Generate
  BY <1>16 DEF Generate, device, copy, states
<1>17. CASE Exit
  BY <1>17 DEF Exit, device, copy, states
<1>18. CASE UNCHANGED vars
  BY <1>18 DEF vars, device, copy, states
<1> QED
  BY <1>1, <1>2, <1>3, <1>4, <1>5, <1>6, <1>7, <1>8, <1>9, <1>10, <1>11, <1>12, <1>13, <1>14, <1>15, <1>16, <1>17, <1>18 DEF Next

\* What the bounds allow.
LEMMA Bounds ==
  /\ MaxStarts \in Nat /\ MaxUpdates \in Nat /\ MaxGenerations \in Nat
  /\ 0 \in 0..MaxUpdates /\ 0 \in 0..MaxGenerations /\ 0 \in Nat
  /\ \A n \in 0..MaxUpdates : Parameters(n) \in [base : 0..Random, adapter : 0..MaxUpdates]
  /\ [base |-> Random, adapter |-> 0] \in [base : 0..Random, adapter : 0..MaxUpdates]
<1>1. MaxStarts \in Nat /\ MaxUpdates \in Nat /\ MaxGenerations \in Nat
  BY FsdpWorkerAssumption
<1>2. 0 \in 0..Random /\ Random \in 0..Random /\ \A n \in 0..MaxUpdates : n \in 0..Random
  BY <1>1 DEF Random
<1>3. 0 \in 0..MaxUpdates /\ 0 \in 0..MaxGenerations
  BY <1>1
<1>4. [base |-> Random, adapter |-> 0] \in [base : 0..Random, adapter : 0..MaxUpdates]
  BY <1>2, <1>3
<1> QED
  BY <1>1, <1>2, <1>3, <1>4 DEF Parameters

\* A step keeps the types.
LEMMA TypedStep == IndInv /\ [Next]_vars => TypeOK'
<1> SUFFICES ASSUME IndInv, [Next]_vars PROVE TypeOK'
  OBVIOUS
<1>1. /\ starts' \in 0..MaxStarts /\ model' \in 0..MaxUpdates
      /\ pc' \in {"off", "idle", "load", "save", "update", "log_prob", "ref", "own ref",
                  "sync", "wake", "generate", "exit"}
      /\ generations' \in 0..MaxGenerations
  <2> USE DEF IndInv, TypeOK, BoundInv
  <2>1. CASE Start
    <3>1. starts \in 0..MaxStarts /\ starts < MaxStarts /\ starts' = starts + 1
      BY <2>1 DEF Start
    <3>2. starts' \in 0..MaxStarts
      BY ONLY <3>1, Bounds
    <3> QED
      BY <2>1, <3>2, Bounds DEF Start
  <2>2. CASE BeginLoad
    BY <2>2, Bounds DEF BeginLoad, device, copy, states
  <2>3. CASE LoadCheckpoint
    BY <2>3, Bounds DEF LoadCheckpoint, device, copy, states
  <2>4. CASE BeginSave
    BY <2>4, Bounds DEF BeginSave, device, copy, states
  <2>5. CASE SaveCheckpoint
    BY <2>5, Bounds DEF SaveCheckpoint, device, copy, states
  <2>6. CASE BeginUpdate
    BY <2>6, Bounds DEF BeginUpdate, device, copy, states
  <2>7. CASE Update
    BY <2>7, Bounds DEF Update, device, copy, states
  <2>8. CASE BeginLogProb("log_prob")
    BY <2>8, Bounds DEF BeginLogProb, device, copy, states
  <2>9. CASE BeginLogProb("ref")
    BY <2>9, Bounds DEF BeginLogProb, device, copy, states
  <2>10. CASE LogProb
    BY <2>10, Bounds DEF LogProb, device, copy, states
  <2>11. CASE RefLogProb
    BY <2>11, Bounds DEF RefLogProb, device, copy, states
  <2>12. CASE RefLogProbEnds
    BY <2>12, Bounds DEF RefLogProbEnds, device, copy, states
  <2>13. CASE BeginGenerate
    BY <2>13, Bounds DEF BeginGenerate, device, copy, states
  <2>14. CASE Sync
    BY <2>14, Bounds DEF Sync, device, copy, states
  <2>15. CASE Wake
    BY <2>15, Bounds DEF Wake, device, copy, states
  <2>16. CASE Generate
    BY <2>16, Bounds DEF Generate, device, copy, states
  <2>17. CASE Exit
    BY <2>17, Bounds DEF Exit, device, copy, states
  <2>18. CASE UNCHANGED vars
    BY <2>18, Bounds DEF vars, device, copy, states
  <2> QED
    BY <2>1, <2>2, <2>3, <2>4, <2>5, <2>6, <2>7, <2>8, <2>9, <2>10, <2>11, <2>12, <2>13, <2>14, <2>15, <2>16, <2>17, <2>18 DEF Next
<1>2. /\ modelOn' \in {"gpu", "cpu"} /\ optimOn' \in {"gpu", "cpu"} /\ adapterOn' \in BOOLEAN
      /\ awake' \subseteq {"weights", "kv_cache"} /\ base_sync_done' \in BOOLEAN
  <2> USE DEF IndInv, TypeOK, Load, Offload
  <2>1. CASE Start
    BY <2>1 DEF Start, device, copy, states
  <2>2. CASE BeginLoad
    BY <2>2 DEF BeginLoad, device, copy, states
  <2>3. CASE LoadCheckpoint
    BY <2>3 DEF LoadCheckpoint, device, copy, states
  <2>4. CASE BeginSave
    BY <2>4 DEF BeginSave, device, copy, states
  <2>5. CASE SaveCheckpoint
    BY <2>5 DEF SaveCheckpoint, device, copy, states
  <2>6. CASE BeginUpdate
    BY <2>6 DEF BeginUpdate, device, copy, states
  <2>7. CASE Update
    BY <2>7 DEF Update, device, copy, states
  <2>8. CASE BeginLogProb("log_prob")
    BY <2>8 DEF BeginLogProb, device, copy, states
  <2>9. CASE BeginLogProb("ref")
    BY <2>9 DEF BeginLogProb, device, copy, states
  <2>10. CASE LogProb
    BY <2>10 DEF LogProb, device, copy, states
  <2>11. CASE RefLogProb
    BY <2>11 DEF RefLogProb, device, copy, states
  <2>12. CASE RefLogProbEnds
    BY <2>12 DEF RefLogProbEnds, device, copy, states
  <2>13. CASE BeginGenerate
    BY <2>13 DEF BeginGenerate, device, copy, states
  <2>14. CASE Sync
    BY <2>14 DEF Sync, device, copy, states
  <2>15. CASE Wake
    BY <2>15 DEF Wake, device, copy, states
  <2>16. CASE Generate
    BY <2>16 DEF Generate, device, copy, states
  <2>17. CASE Exit
    BY <2>17 DEF Exit, device, copy, states
  <2>18. CASE UNCHANGED vars
    BY <2>18 DEF vars, device, copy, states
  <2> QED
    BY <2>1, <2>2, <2>3, <2>4, <2>5, <2>6, <2>7, <2>8, <2>9, <2>10, <2>11, <2>12, <2>13, <2>14, <2>15, <2>16, <2>17, <2>18 DEF Next
<1>3. engine' \in [base : 0..Random, adapter : 0..MaxUpdates]
  <2> USE Bounds DEF IndInv, TypeOK
  <2>1. CASE Start
    BY <2>1 DEF Start, device, copy, states
  <2>2. CASE BeginLoad
    BY <2>2 DEF BeginLoad, device, copy, states
  <2>3. CASE LoadCheckpoint
    BY <2>3 DEF LoadCheckpoint, device, copy, states
  <2>4. CASE BeginSave
    BY <2>4 DEF BeginSave, device, copy, states
  <2>5. CASE SaveCheckpoint
    BY <2>5 DEF SaveCheckpoint, device, copy, states
  <2>6. CASE BeginUpdate
    BY <2>6 DEF BeginUpdate, device, copy, states
  <2>7. CASE Update
    BY <2>7 DEF Update, device, copy, states
  <2>8. CASE BeginLogProb("log_prob")
    BY <2>8 DEF BeginLogProb, device, copy, states
  <2>9. CASE BeginLogProb("ref")
    BY <2>9 DEF BeginLogProb, device, copy, states
  <2>10. CASE LogProb
    BY <2>10 DEF LogProb, device, copy, states
  <2>11. CASE RefLogProb
    BY <2>11 DEF RefLogProb, device, copy, states
  <2>12. CASE RefLogProbEnds
    BY <2>12 DEF RefLogProbEnds, device, copy, states
  <2>13. CASE BeginGenerate
    BY <2>13 DEF BeginGenerate, device, copy, states
  <2>14. CASE Sync
    BY <2>14 DEF Sync, UpdatedParams, device, copy, states
  <2>15. CASE Wake
    BY <2>15 DEF Wake, device, copy, states
  <2>16. CASE Generate
    BY <2>16 DEF Generate, device, copy, states
  <2>17. CASE Exit
    BY <2>17 DEF Exit, device, copy, states
  <2>18. CASE UNCHANGED vars
    BY <2>18 DEF vars, device, copy, states
  <2> QED
    BY <2>1, <2>2, <2>3, <2>4, <2>5, <2>6, <2>7, <2>8, <2>9, <2>10, <2>11, <2>12, <2>13, <2>14, <2>15, <2>16, <2>17, <2>18 DEF Next
<1>4. rows' \in [R -> Seq(R \X (1..PerRank))]
  <2>1. RowsInv'
    BY RowsStep DEF IndInv
  <2> QED
    BY <2>1, SharedAreRows DEF RowsInv, Shared, OwnOfAll, Own, R
<1>5. /\ rng' \in States /\ torch_random_states' \in States /\ gen_random_states' \in States
      /\ ckpt' \in [model : 0..MaxUpdates, rng : States]
  <2> USE Bounds, StatesGoOn DEF IndInv, TypeOK
  <2>1. CASE Start
    BY <2>1 DEF Start, device, copy, states
  <2>2. CASE BeginLoad
    BY <2>2 DEF BeginLoad, device, copy, states
  <2>3. CASE LoadCheckpoint
    BY <2>3 DEF LoadCheckpoint, device, copy, states
  <2>4. CASE BeginSave
    BY <2>4 DEF BeginSave, device, copy, states
  <2>5. CASE SaveCheckpoint
    BY <2>5 DEF SaveCheckpoint, device, copy, states
  <2>6. CASE BeginUpdate
    BY <2>6 DEF BeginUpdate, device, copy, states
  <2>7. CASE Update
    BY <2>7 DEF Update, device, copy, states
  <2>8. CASE BeginLogProb("log_prob")
    BY <2>8 DEF BeginLogProb, device, copy, states
  <2>9. CASE BeginLogProb("ref")
    BY <2>9 DEF BeginLogProb, device, copy, states
  <2>10. CASE LogProb
    BY <2>10 DEF LogProb, device, copy, states
  <2>11. CASE RefLogProb
    BY <2>11 DEF RefLogProb, device, copy, states
  <2>12. CASE RefLogProbEnds
    BY <2>12 DEF RefLogProbEnds, device, copy, states
  <2>13. CASE BeginGenerate
    BY <2>13 DEF BeginGenerate, device, copy, states
  <2>14. CASE Sync
    BY <2>14 DEF Sync, device, copy, states
  <2>15. CASE Wake
    BY <2>15 DEF Wake, device, copy, states
  <2>16. CASE Generate
    BY <2>16 DEF Generate, device, copy, states
  <2>17. CASE Exit
    BY <2>17 DEF Exit, device, copy, states
  <2>18. CASE UNCHANGED vars
    BY <2>18 DEF vars, device, copy, states
  <2> QED
    BY <2>1, <2>2, <2>3, <2>4, <2>5, <2>6, <2>7, <2>8, <2>9, <2>10, <2>11, <2>12, <2>13, <2>14, <2>15, <2>16, <2>17, <2>18 DEF Next
<1> QED
  BY <1>1, <1>2, <1>3, <1>4, <1>5 DEF TypeOK

\* It holds at first.
LEMMA InitInv == Init => IndInv
<1> SUFFICES ASSUME Init PROVE IndInv
  OBVIOUS
<1>1. TypeOK
  <2>1. starts \in 0..MaxStarts
    BY Bounds DEF Init
  <2>2. rng \in States /\ ckpt \in [model : 0..MaxUpdates, rng : States]
    BY Bounds, StatesGoOn DEF Init
  <2>3. engine \in [base : 0..Random, adapter : 0..MaxUpdates]
    BY Bounds DEF Init
  <2> QED
    BY <2>1, <2>2, <2>3, Bounds, SharedAreRows DEF Init, TypeOK
<1>2. EngineInv
  BY DEF Init, EngineInv, Parameters
<1>3. DeviceInv
  BY DEF Init, DeviceInv, RefIsBase
<1>4. StreamInv
  BY DEF Init, StreamInv
<1>5. RowsInv /\ BoundInv
  BY DEF Init, RowsInv, BoundInv
<1> QED
  BY <1>1, <1>2, <1>3, <1>4, <1>5 DEF IndInv

\* Every step keeps it.
LEMMA StepInv == IndInv /\ [Next]_vars => IndInv'
BY TypedStep, EngineStep, DeviceStep, StreamStep, RowsStep, BoundStep DEF IndInv

\* What the invariant says of a worker.
LEMMA InvIsRight == IndInv => WorkerRight
<1> SUFFICES ASSUME IndInv PROVE WorkerRight
  OBVIOUS
<1>1. GeneratesOnPolicy
  BY DEF IndInv, TypeOK, EngineInv, DeviceInv, GeneratesOnPolicy
<1>2. OnDeviceInTurn
  BY DEF IndInv, TypeOK, DeviceInv, OnDeviceInTurn
<1>3. DrawsTogether
  <2> SUFFICES ASSUME pc = "generate", NEW r \in R, NEW q \in R
               PROVE  /\ rng[r].n = generations
                      /\ r \div Tp = q \div Tp => rng[r] = rng[q] /\ rows[r] = rows[q]
    BY DEF DrawsTogether
  <2>1. rng = Generating(generations) /\ rows = Shared(Tp)
    BY DEF IndInv, StreamInv, RowsInv
  <2>2. rng[r].n = generations /\ (r \div Tp = q \div Tp => rng[r] = rng[q])
    BY <2>1 DEF Generating, Stream
  <2>3. r \div Tp = q \div Tp => rows[r] = rows[q]
    BY <2>1, Zenon DEF Shared
  <2> QED
    BY <2>2, <2>3
<1>4. OwnStream
  BY DEF IndInv, StreamInv, OwnStream, Training
<1>5. OwnRows
  BY DEF IndInv, RowsInv, OwnRows, OwnOfAll
<1>6. RefIsBase
  BY DEF IndInv, DeviceInv
<1> QED
  BY <1>1, <1>2, <1>3, <1>4, <1>5, <1>6 DEF WorkerRight

\* In every job, however it is stopped and resumed and in whatever order the
\* driver calls: a generation is made by the parameters as they are, on a GPU
\* that has room for it, with random numbers of its own that a group shares;
\* training goes on in its own; and every rank has its rows back (the sharding
\* managers of vLLM and of Ulysses, ActorRolloutRefWorker).
THEOREM WorkersRight == Spec => []WorkerRight
<1>1. Spec => []IndInv
  BY InitInv, StepInv, PTL DEF Spec
<1> QED
  BY <1>1, InvIsRight, PTL

\* An entry of the cache: a conversation, by its batch and row, and a server.
Entry == (Nat \X LoopRows) \X LoopServers

\* A cache of at most C entries of conversations of the rows P, up to batch b:
\* one entry of each, and those of batch b after all others.
Listed(q, C, P, b) ==
  /\ q \in Seq(Entry) /\ Len(q) <= C
  /\ \A k \in 1..Len(q) : q[k][1][1] <= b /\ q[k][1][2] \in P
  /\ \A k, l \in 1..Len(q) : q[k][1] = q[l][1] => k = l
  /\ \A k, l \in 1..Len(q) : k < l /\ q[k][1][1] = b => q[l][1][1] = b

Has(q, e) == \E k \in 1..Len(q) : q[k] = e

LoopTyped ==
  /\ loopBatch \in Nat /\ loopAsked \in [LoopRows -> Seq(LoopServers)]
  /\ given \in [LoopWorkers -> [LoopServers -> Nat]]
  /\ byHash \in [LoopWorkers -> [LoopServers -> Nat]]
  /\ DOMAIN cache = LoopWorkers /\ DOMAIN loopPc = LoopRows

HashesDiffer ==
  \A w \in LoopWorkers : \A s, t \in LoopServers : byHash[w][s] = byHash[w][t] => s = t

CachesListed ==
  \A w \in LoopWorkers : Listed(cache[w], LoopCache, Servers!Chunk(w), loopBatch)

\* A conversation that has asked has an entry, with the server it always asked.
EntryKept(i) ==
  LET q == cache[LoopWorkerOf[i]]
  IN  \E k \in 1..Len(q) : q[k][1] = <<loopBatch, i>> /\ \A l \in 1..Len(loopAsked[i]) : loopAsked[i][l] = q[k][2]

EntriesKept ==
  \A i \in LoopRows :
    Cardinality(Servers!Chunk(LoopWorkerOf[i])) <= LoopCache /\ loopAsked[i] # <<>> => EntryKept(i)

AwakeUntilEnd ==
  /\ phase # "asleep" => loopAwake
  /\ phase = "asleep" => \A i \in LoopRows : loopPc[i] # "wait"

LoopInv ==
  /\ LoopTyped /\ HashesDiffer /\ CachesListed /\ EntriesKept /\ AwakeUntilEnd
  /\ Servers!EvenlySpread

-----------------------------------------------------------------------------
(* The cache of a worker.                                                  *)

\* An entry that is moved to the end: the later ones move up.
LEMMA MovedLast ==
  ASSUME NEW S, NEW q \in Seq(S), NEW k \in 1..Len(q)
  PROVE  /\ Servers!UsedLast(q, k) \in Seq(S)
         /\ Len(Servers!UsedLast(q, k)) = Len(q)
         /\ \A l \in 1..Len(q) : Servers!UsedLast(q, k)[l] =
              IF l < k THEN q[l] ELSE IF l < Len(q) THEN q[l + 1] ELSE q[k]
<1> DEFINE a == SubSeq(q, 1, k - 1)
           z == SubSeq(q, k + 1, Len(q))
           r == a \o z
<1>0. Len(q) \in Nat /\ k \in Nat /\ k >= 1 /\ k <= Len(q) /\ q[k] \in S
  OBVIOUS
<1>1. a \in Seq(S) /\ Len(a) = k - 1 /\ \A l \in 1..(k - 1) : a[l] = q[l]
  BY <1>0
<1>2. z \in Seq(S) /\ Len(z) = Len(q) - k /\ \A l \in 1..(Len(q) - k) : z[l] = q[k + l]
  BY <1>0
<1>3. r = a \o z
  OBVIOUS
<1>3a. Servers!UsedLast(q, k) = Append(r, q[k])
  BY DEF Servers!UsedLast
<1> HIDE DEF a, z, r
<1>4. r \in Seq(S) /\ Len(r) = Len(q) - 1
  <2>1. a \in Seq(S) /\ z \in Seq(S)
    BY <1>1, <1>2
  <2>2. r \in Seq(S) /\ Len(r) = Len(a) + Len(z)
    BY <2>1, <1>3, ConcatProperties
  <2> QED
    BY <2>2, <1>0, <1>1, <1>2
<1>5. ASSUME NEW l \in 1..(Len(q) - 1)
      PROVE  r[l] = IF l < k THEN q[l] ELSE q[l + 1]
  <2>1. r[l] = IF l <= Len(a) THEN a[l] ELSE z[l - Len(a)]
    BY <1>1, <1>2, <1>3, <1>4, <1>0
  <2>2. CASE l < k
    BY <2>1, <2>2, <1>1, <1>0
  <2>3. CASE ~(l < k)
    <3>1. l - Len(a) \in 1..(Len(q) - k) /\ k + (l - Len(a)) = l + 1
      BY <2>3, <1>0, <1>1
    <3> QED
      BY <3>1, <2>1, <2>3, <1>1, <1>2, <1>0
  <2> QED
    BY <2>2, <2>3
<1>6. Append(r, q[k]) \in Seq(S) /\ Len(Append(r, q[k])) = Len(q)
  BY <1>0, <1>4
<1>7. \A l \in 1..Len(q) : Append(r, q[k])[l] = IF l < Len(q) THEN r[l] ELSE q[k]
  BY <1>0, <1>4
<1> DEFINE p == Append(r, q[k])
<1>7a. \A l \in 1..Len(q) : p[l] = IF l < Len(q) THEN r[l] ELSE q[k]
  BY <1>7
<1> HIDE DEF p
<1>8. \A l \in 1..Len(q) : p[l] =
        IF l < k THEN q[l] ELSE IF l < Len(q) THEN q[l + 1] ELSE q[k]
  BY <1>0, <1>5, <1>7a
<1> QED
  BY <1>3a, <1>6, <1>8 DEF p

\* An entry that is used becomes the last one, and all entries stay.
LEMMA UsedStays ==
  ASSUME NEW q, NEW C, NEW P, NEW b, Listed(q, C, P, b),
         NEW k \in 1..Len(q), q[k][1][1] = b
  PROVE  LET r == Servers!UsedLast(q, k)
         IN  /\ Listed(r, C, P, b)
             /\ \A l \in 1..Len(q) : Has(r, q[l])
<1> DEFINE r == Servers!UsedLast(q, k)
           Old(l) == IF l < k THEN l ELSE IF l < Len(q) THEN l + 1 ELSE k
<1>0. q \in Seq(Entry) /\ Len(q) \in Nat /\ k \in Nat /\ k >= 1 /\ k <= Len(q)
  BY DEF Listed
<1>1. /\ r \in Seq(Entry) /\ Len(r) = Len(q)
      /\ \A l \in 1..Len(q) : r[l] =
              IF l < k THEN q[l] ELSE IF l < Len(q) THEN q[l + 1] ELSE q[k]
  BY <1>0, MovedLast
<1> HIDE DEF r
<1>2. \A l \in 1..Len(q) : Old(l) \in 1..Len(q)
  BY <1>0
<1>2a. \A l \in 1..Len(q) : r[l] = q[Old(l)]
  BY <1>1, <1>0
<1>2b. Len(q) \in Nat /\ k \in Nat /\ k <= Len(q)
  BY <1>0
<1>3. \A l, m \in 1..Len(q) : Old(l) = Old(m) => l = m
  BY ONLY <1>2b, SMT
<1>4. \A l, m \in 1..Len(q) : l < m => Old(l) < Old(m) \/ Old(m) = k
  BY ONLY <1>2b, SMT
<1>5. \A l \in 1..Len(q) : \E m \in 1..Len(q) : Old(m) = l
  <2> SUFFICES ASSUME NEW l \in 1..Len(q)
               PROVE  \E m \in 1..Len(q) : Old(m) = l
    OBVIOUS
  <2>1. CASE l < k
    BY <2>1, <1>0
  <2>2. CASE l = k
    <3>1. Old(Len(q)) = l /\ Len(q) \in 1..Len(q)
      BY <2>2, <1>0
    <3> QED
      BY <3>1
  <2>3. CASE l > k
    <3>1. Old(l - 1) = l /\ l - 1 \in 1..Len(q)
      BY <2>3, <1>0
    <3> QED
      BY <3>1
  <2> QED
    BY <2>1, <2>2, <2>3, <1>0
<1> HIDE DEF Old
<1>6. \A l \in 1..Len(q) : r[l][1][1] <= b /\ r[l][1][2] \in P
  BY <1>2, <1>2a DEF Listed
<1>7. ASSUME NEW l \in 1..Len(q), NEW m \in 1..Len(q), r[l][1] = r[m][1]
      PROVE  l = m
  <2>1. Old(l) \in 1..Len(q) /\ Old(m) \in 1..Len(q) /\ q[Old(l)][1] = q[Old(m)][1]
    BY <1>2, <1>2a, <1>7
  <2>2. Old(l) = Old(m)
    BY <2>1 DEF Listed
  <2> QED
    BY <2>2, <1>3
<1>8. ASSUME NEW l \in 1..Len(q), NEW m \in 1..Len(q), l < m, r[l][1][1] = b
      PROVE  r[m][1][1] = b
  <2>1. Old(l) \in 1..Len(q) /\ Old(m) \in 1..Len(q) /\ q[Old(l)][1][1] = b
    BY <1>2, <1>2a, <1>8
  <2>2. Old(l) < Old(m) \/ Old(m) = k
    BY <1>4, <1>8
  <2>3. q[Old(m)][1][1] = b
    BY <2>1, <2>2 DEF Listed
  <2> QED
    BY <2>3, <1>2a
<1>9. Listed(r, C, P, b)
  BY <1>1, <1>6, <1>7, <1>8 DEF Listed
<1>10. \A l \in 1..Len(q) : Has(r, q[l])
  BY <1>1, <1>2a, <1>5 DEF Has
<1> QED
  BY <1>9, <1>10 DEF r

\* A new entry at the end of a cache, where a full one loses its first.
LEMMA AddedLast ==
  ASSUME NEW S, NEW q \in Seq(S), NEW e \in S, NEW d \in {0, 1}, d <= Len(q),
         NEW t, t = IF d = 1 THEN Tail(q) ELSE q
  PROVE  /\ Append(t, e) \in Seq(S) /\ Len(Append(t, e)) = Len(q) - d + 1
         /\ \A l \in 1..(Len(q) - d) : Append(t, e)[l] = q[l + d]
         /\ Append(t, e)[Len(q) - d + 1] = e
<1>1. t \in Seq(S) /\ Len(t) = Len(q) - d /\ \A l \in 1..(Len(q) - d) : t[l] = q[l + d]
  <2>1. CASE d = 1
    <3>1. q # <<>>
      BY <2>1
    <3> QED
      BY <3>1, <2>1
  <2>2. CASE d = 0
    BY <2>2
  <2> QED
    BY <2>1, <2>2
<1>2. Len(q) - d \in Nat
  OBVIOUS
<1> QED
  BY <1>1, <1>2

\* Such an entry drops none of batch b if all rows of the worker have a place.
LEMMA NewStays ==
  ASSUME NEW q, NEW C \in Nat \ {0}, NEW P \in SUBSET LoopRows, IsFiniteSet(P),
         NEW b \in Nat, Listed(q, C, P, b), NEW i \in P, NEW s \in LoopServers,
         \A k \in 1..Len(q) : q[k][1] # <<b, i>>
  PROVE  LET r == Append(IF Len(q) = C THEN Tail(q) ELSE q, <<<<b, i>>, s>>)
         IN  /\ Listed(r, C, P, b)
             /\ Has(r, <<<<b, i>>, s>>)
             /\ Cardinality(P) <= C =>
                  \A l \in 1..Len(q) : q[l][1][1] = b => Has(r, q[l])
<1> DEFINE r == Append(IF Len(q) = C THEN Tail(q) ELSE q, <<<<b, i>>, s>>)
           d == IF Len(q) = C THEN 1 ELSE 0
           t == IF d = 1 THEN Tail(q) ELSE q
           e == <<<<b, i>>, s>>
           n == Len(q) - d + 1
<1>0. q \in Seq(Entry) /\ Len(q) \in Nat /\ Len(q) <= C /\ e \in Entry
  BY DEF Listed, Entry
<1>0a. d \in {0, 1} /\ d <= Len(q) /\ n \in Nat \ {0} /\ n <= C /\ (d = 0 => n = Len(q) + 1)
  BY <1>0
<1>0b. r = Append(t, e)
  BY <1>0
<1> HIDE DEF r
<1>0c. e[1] = <<b, i>> /\ e[1][1] = b /\ e[1][2] = i
  OBVIOUS
<1> HIDE DEF t, e
<1>1. /\ r \in Seq(Entry) /\ Len(r) = n
      /\ \A l \in 1..(n - 1) : r[l] = q[l + d]
      /\ r[n] = e
  <2>1. t = IF d = 1 THEN Tail(q) ELSE q
    BY DEF t
  <2> HIDE DEF d
  <2>2. /\ Append(t, e) \in Seq(Entry) /\ Len(Append(t, e)) = Len(q) - d + 1
         /\ \A l \in 1..(Len(q) - d) : Append(t, e)[l] = q[l + d]
         /\ Append(t, e)[Len(q) - d + 1] = e
    BY ONLY <1>0, <1>0a, <2>1, AddedLast
  <2>3. n = Len(q) - d + 1 /\ n - 1 = Len(q) - d
    BY <1>0, <1>0a
  <2> HIDE DEF n
  <2>4. r \in Seq(Entry) /\ Len(r) = n
    BY <2>2, <2>3, <1>0b
  <2>5. \A l \in 1..(n - 1) : r[l] = q[l + d]
    BY <2>2, <2>3, <1>0b
  <2>6. r[n] = e
    <3>1. Append(t, e)[Len(q) - d + 1] = e
      BY <2>2
    <3> QED
      BY ONLY <3>1, <2>3, <1>0b
  <2> QED
    BY <2>4, <2>5, <2>6
<1> HIDE DEF d
<1>1a. \A l \in 1..n : l = n \/ l \in 1..(n - 1)
  BY <1>0a
<1>1b. \A l \in 1..(n - 1) : l + d \in 1..Len(q)
  BY <1>0, <1>0a
<1> HIDE DEF n
<1>2. ASSUME NEW l \in 1..n PROVE r[l][1][1] <= b /\ r[l][1][2] \in P
  <2>1. CASE l = n
    BY <2>1, <1>1, <1>0c
  <2>2. CASE l \in 1..(n - 1)
    BY <2>2, <1>1, <1>1b DEF Listed
  <2> QED
    BY <2>1, <2>2, <1>1a
<1>3. ASSUME NEW k \in 1..n, NEW l \in 1..n, r[k][1] = r[l][1] PROVE k = l
  <2>1. \A m \in 1..(n - 1) : r[m][1] # <<b, i>>
    BY <1>1, <1>1b
  <2>2. CASE k = n \/ l = n
    BY <2>1, <2>2, <1>3, <1>1, <1>0c, <1>1a
  <2>3. CASE k \in 1..(n - 1) /\ l \in 1..(n - 1)
    <3>1. k + d \in 1..Len(q) /\ l + d \in 1..Len(q) /\ q[k + d][1] = q[l + d][1]
      BY <2>3, <1>1, <1>1b, <1>3
    <3>2. k + d = l + d
      BY <3>1 DEF Listed
    <3> QED
      BY <3>2, <1>0a
  <2> QED
    BY <2>2, <2>3, <1>1a
<1>4. ASSUME NEW k \in 1..n, NEW l \in 1..n, k < l, r[k][1][1] = b PROVE r[l][1][1] = b
  <2>1. CASE l = n
    BY <2>1, <1>1, <1>0c
  <2>2. CASE l \in 1..(n - 1)
    <3>1. k \in 1..(n - 1) /\ k + d < l + d
      BY <2>2, <1>4, <1>0a
    <3>2. k + d \in 1..Len(q) /\ l + d \in 1..Len(q) /\ q[k + d][1][1] = b
      BY <2>2, <3>1, <1>1, <1>1b, <1>4
    <3>3. q[l + d][1][1] = b
      BY <3>1, <3>2 DEF Listed
    <3> QED
      BY <3>3, <1>1, <2>2
  <2> QED
    BY <2>1, <2>2, <1>1a
<1>5. Listed(r, C, P, b)
  BY <1>1, <1>0a, <1>2, <1>3, <1>4 DEF Listed
<1>6. Has(r, e)
  BY <1>1, <1>0a DEF Has
<1>7. ASSUME Cardinality(P) <= C, NEW l \in 1..Len(q), q[l][1][1] = b
      PROVE  Has(r, q[l])
  <2>1. CASE l > d
    <3>1. l - d \in 1..(n - 1) /\ (l - d) + d = l /\ l - d \in 1..n
      BY <2>1, <1>0, <1>0a DEF n
    <3> QED
      BY <3>1, <1>1 DEF Has
  <2>2. CASE ~(l > d)
    <3>1. l = 1 /\ d = 1 /\ Len(q) = C
      BY <2>2, <1>0a, <1>0 DEF d
    <3>2. \A k \in 1..C : q[k][1][1] = b /\ q[k][1][2] \in P
      <4> SUFFICES ASSUME NEW k \in 1..C PROVE q[k][1][1] = b /\ q[k][1][2] \in P
        OBVIOUS
      <4>1. k = 1 \/ 1 < k
        OBVIOUS
      <4> QED
        BY <4>1, <3>1, <1>7 DEF Listed
    <3>3. \A k \in 1..C : q[k] \in Entry
      BY <3>1, <1>0
    <3>4. \A k \in 1..C : q[k][1] = <<b, q[k][1][2]>>
      BY <3>2, <3>3 DEF Entry
    <3> DEFINE f == [k \in 1..C |-> q[k][1][2]]
    <3>5. f \in [1..C -> P \ {i}]
      <4>1. \A k \in 1..C : q[k][1][2] # i
        BY <3>1, <3>4
      <4> QED
        BY <4>1, <3>2
    <3>6. IsFiniteSet(1..C) /\ Cardinality(1..C) = C
      BY FS_Interval
    <3>7. IsFiniteSet(P \ {i}) /\ Cardinality(P \ {i}) = Cardinality(P) - 1
      BY FS_RemoveElement
    <3>8. Cardinality(P \ {i}) < Cardinality(1..C)
      BY <3>6, <3>7, <1>7, FS_CardinalityType
    <3>9. PICK k \in 1..C, m \in 1..C : k # m /\ f[k] = f[m]
      <4> HIDE DEF f
      <4> QED
        BY <3>5, <3>6, <3>7, <3>8, FS_PigeonHole
    <3>10. q[k][1] = q[m][1]
      BY <3>4, <3>9
    <3>11. k = m
      BY <3>10, <3>1 DEF Listed
    <3> QED
      BY <3>9, <3>11
  <2> QED
    BY <2>1, <2>2
<1> QED
  BY <1>5, <1>6, <1>7 DEF e, r

\* A new batch has no entries yet.
LEMMA AgedStays ==
  ASSUME NEW q, NEW C, NEW P, NEW b \in Nat, Listed(q, C, P, b)
  PROVE  Listed(q, C, P, b + 1)
<1>1. ASSUME NEW k \in 1..Len(q) PROVE q[k][1][1] \in Nat /\ q[k][1][1] <= b
  BY <1>1 DEF Listed, Entry
<1>2. \A k \in 1..Len(q) : q[k][1][1] <= b + 1 /\ q[k][1][1] # b + 1
  BY <1>1
<1> QED
  BY <1>2 DEF Listed

-----------------------------------------------------------------------------
(* The choice of a server.                                                 *)

\* A set of numbers has a least one.
LEMMA Least ==
  ASSUME NEW S \in SUBSET Nat, S # {}
  PROVE  \E m \in S : \A x \in S : m <= x
<1>1. PICK m \in S : \A x \in S : ~(<<x, m>> \in OpToRel(<, Nat))
  BY WFMin, NatLessThanWellFounded
<1>2. \A x \in S : m <= x
  <2>. TAKE x \in S
  <2>1. x \in Nat /\ m \in Nat
    OBVIOUS
  <2>2. ~(x < m)
    BY <1>1, <2>1 DEF OpToRel
  <2> QED
    BY <2>1, <2>2
<1> QED
  BY <1>2

\* The lightest server is the lightest.
LEMMA LightestIsLeast ==
  ASSUME LoopTyped, HashesDiffer, NEW w \in LoopWorkers,
         LoopServers # {}
  PROVE  /\ Servers!Lightest(w) \in LoopServers
         /\ \A t \in LoopServers : given[w][Servers!Lightest(w)] <= given[w][t]
<1> DEFINE g == given[w]
           h == byHash[w]
           Below(s) == \A t \in LoopServers \ {s} :
                         g[s] < g[t] \/ (g[s] = g[t] /\ h[s] < h[t])
<1>0. g \in [LoopServers -> Nat] /\ h \in [LoopServers -> Nat]
  BY DEF LoopTyped
<1>0a. \A s, t \in LoopServers : h[s] = h[t] => s = t
  BY DEF HashesDiffer
<1>0b. Servers!Lightest(w) = CHOOSE s \in LoopServers : Below(s)
  BY DEF Servers!Lightest
<1> HIDE DEF g, h
<1>1. PICK a \in LoopServers : \A t \in LoopServers : g[a] <= g[t]
  <2> DEFINE S == {g[s] : s \in LoopServers}
  <2>1. S \in SUBSET Nat /\ S # {}
    BY <1>0
  <2>2. PICK m \in S : \A x \in S : m <= x
    <3> HIDE DEF S
    <3> QED
      BY <2>1, Least
  <2> QED
    BY <2>2
<1>2. PICK c \in LoopServers : g[c] = g[a] /\ \A t \in LoopServers : g[t] = g[a] => h[c] <= h[t]
  <2> DEFINE S == {h[s] : s \in {u \in LoopServers : g[u] = g[a]}}
  <2>1. S \in SUBSET Nat /\ S # {}
    BY <1>0
  <2>2. PICK m \in S : \A x \in S : m <= x
    <3> HIDE DEF S
    <3> QED
      BY <2>1, Least
  <2> QED
    BY <2>2
<1>3. Below(c)
  <2> SUFFICES ASSUME NEW t \in LoopServers, t # c
               PROVE  g[c] < g[t] \/ (g[c] = g[t] /\ h[c] < h[t])
    OBVIOUS
  <2>1. g[a] \in Nat /\ g[c] \in Nat /\ g[t] \in Nat /\ h[c] \in Nat /\ h[t] \in Nat /\ g[a] <= g[t] /\ g[c] = g[a]
    BY <1>0, <1>1, <1>2
  <2>2. g[t] = g[a] => h[c] <= h[t]
    BY <1>2
  <2>3. h[c] # h[t]
    BY <1>0a
  <2> QED
    BY <2>1, <2>2, <2>3
<1> DEFINE s == Servers!Lightest(w)
<1>4. s \in LoopServers /\ Below(s)
  BY <1>0b, <1>3
<1> HIDE DEF s
<1>5. \A t \in LoopServers : g[s] <= g[t]
  <2> TAKE t \in LoopServers
  <2>1. g[s] \in Nat /\ g[t] \in Nat
    BY <1>0, <1>4
  <2>2. CASE t = s
    BY <2>1, <2>2
  <2>3. CASE t # s
    <3>1. g[s] < g[t] \/ g[s] = g[t]
      BY <1>4, <2>3
    <3> QED
      BY <3>1, <2>1
  <2> QED
    BY <2>2, <2>3
<1> QED
  BY <1>4, <1>5 DEF s, g

\* Giving a request to it keeps the load even.
LEMMA StaysEven ==
  ASSUME NEW S, NEW g \in [S -> Nat], \A s, t \in S : g[s] <= g[t] + 1,
         NEW a \in S, \A t \in S : g[a] <= g[t]
  PROVE  /\ [g EXCEPT ![a] = @ + 1] \in [S -> Nat]
         /\ \A s, t \in S : [g EXCEPT ![a] = @ + 1][s] <= [g EXCEPT ![a] = @ + 1][t] + 1
<1> DEFINE f == [g EXCEPT ![a] = @ + 1]
<1>1. f \in [S -> Nat]
  OBVIOUS
<1>2. ASSUME NEW s \in S, NEW t \in S PROVE f[s] <= f[t] + 1
  <2>1. g[s] \in Nat /\ g[t] \in Nat /\ g[a] \in Nat /\ g[s] <= g[t] + 1 /\ g[a] <= g[t]
    OBVIOUS
  <2>2. f[s] = (IF s = a THEN g[a] + 1 ELSE g[s]) /\ f[t] = (IF t = a THEN g[a] + 1 ELSE g[t])
    OBVIOUS
  <2> HIDE DEF f
  <2> QED
    BY <2>1, <2>2
<1> QED
  BY <1>1, <1>2

-----------------------------------------------------------------------------
(* The loops over the servers.                                             *)

\* The instance counts as this module does.
LEMMA LoopCounts == \A S : Servers!Cardinality(S) = Cardinality(S)
BY DEF Servers!Cardinality, Cardinality

\* The sets of the instance are finite when they are.
LEMMA LoopFinite == \A S : Servers!IsFiniteSet(S) <=> IsFiniteSet(S)
BY DEF Servers!IsFiniteSet, IsFiniteSet

\* What the constants are.
LEMMA LoopSizes ==
  /\ IsFiniteSet(LoopRows) /\ IsFiniteSet(LoopServers)
  /\ LoopServers # {} /\ LoopCache \in Nat \ {0}
  /\ LoopWorkerOf \in [LoopRows -> LoopWorkers]
<1>1. Servers!AgentLoopAssumption
  BY RolloutAssumption
<1> QED
  BY <1>1, LoopFinite DEF Servers!AgentLoopAssumption

\* The rows of a worker are finite.
LEMMA ChunkIsFinite ==
  ASSUME NEW w
  PROVE  Servers!Chunk(w) \in SUBSET LoopRows /\ IsFiniteSet(Servers!Chunk(w))
<1>1. Servers!Chunk(w) \in SUBSET LoopRows
  BY DEF Servers!Chunk
<1> QED
  BY <1>1, LoopSizes, FS_Subset

\* The servers start alike, and nobody has asked.
LEMMA LoopInit == Servers!Init => LoopInv
<1> SUFFICES ASSUME Servers!Init PROVE LoopInv
  OBVIOUS
<1> USE DEF Servers!Init
<1>1. LoopTyped
  <2>1. byHash \in [LoopWorkers -> [LoopServers -> Nat]]
    <3>1. byHash \in [LoopWorkers -> [LoopServers -> 1..Cardinality(LoopServers)]]
      BY LoopCounts
    <3>2. Cardinality(LoopServers) \in Nat
      BY LoopSizes, FS_CardinalityType
    <3>3. 1..Cardinality(LoopServers) \subseteq Nat
      BY <3>2
    <3> QED
      BY <3>1, <3>3
  <2> QED
    BY <2>1 DEF LoopTyped
<1>2. HashesDiffer
  BY DEF HashesDiffer
<1>3. CachesListed
  <2> SUFFICES ASSUME NEW w \in LoopWorkers
               PROVE  Listed(cache[w], LoopCache, Servers!Chunk(w), loopBatch)
    BY DEF CachesListed
  <2>1. cache[w] = <<>>
    OBVIOUS
  <2> QED
    BY <2>1, LoopSizes DEF Listed
<1>4. EntriesKept
  BY DEF EntriesKept
<1>5. AwakeUntilEnd
  BY DEF AwakeUntilEnd
<1>6. Servers!EvenlySpread
  BY DEF Servers!EvenlySpread
<1> QED
  BY <1>1, <1>2, <1>3, <1>4, <1>5, <1>6 DEF LoopInv

\* A request that goes to the server of before.
LEMMA RememberedStays ==
  ASSUME LoopInv, NEW i \in LoopRows, loopPc[i] = "ask", phase = "running",
         NEW k \in Servers!Entries(i), Servers!Remembered(i, k),
         loopPc' = [loopPc EXCEPT ![i] = "wait"],
         UNCHANGED <<loopBatch, phase, loopAwake, byHash>>
  PROVE  LoopInv'
<1> DEFINE w == LoopWorkerOf[i]
           q == cache[w]
           r == Servers!UsedLast(q, k)
<1>0. w \in LoopWorkers
  BY LoopSizes
<1>1. /\ cache' = [cache EXCEPT ![w] = r]
      /\ loopAsked' = [loopAsked EXCEPT ![i] = Append(@, q[k][2])]
      /\ given' = given
  BY Zenon DEF Servers!Remembered
<1>2. k \in DOMAIN q /\ q[k][1] = <<loopBatch, i>>
  BY DEF Servers!Entries, Servers!Request
<1>3. Listed(q, LoopCache, Servers!Chunk(w), loopBatch)
  BY <1>0 DEF LoopInv, CachesListed
<1>4. k \in 1..Len(q) /\ q[k][1][1] = loopBatch /\ q[k] \in Entry
  BY <1>2, <1>3 DEF Listed
<1>4a. q[k][2] \in LoopServers
  BY <1>4 DEF Entry
<1>5. /\ Listed(r, LoopCache, Servers!Chunk(w), loopBatch)
      /\ \A l \in 1..Len(q) : Has(r, q[l])
  BY <1>3, <1>4, UsedStays
<1> HIDE DEF r
<1>6. \A v \in LoopWorkers : cache'[v] = IF v = w THEN r ELSE cache[v]
  BY <1>1, <1>0 DEF LoopInv, LoopTyped
<1>6a. \A j \in LoopRows : loopAsked'[j] = IF j = i THEN Append(loopAsked[i], q[k][2]) ELSE loopAsked[j]
  BY <1>1 DEF LoopInv, LoopTyped
<1>7. LoopTyped'
  <2>1. loopAsked' \in [LoopRows -> Seq(LoopServers)]
    BY <1>1, <1>4a DEF LoopInv, LoopTyped
  <2> QED
    BY <2>1, <1>1 DEF LoopInv, LoopTyped
<1>8. HashesDiffer'
  BY DEF LoopInv, HashesDiffer
<1>9. CachesListed'
  <2> SUFFICES ASSUME NEW v \in LoopWorkers
               PROVE  Listed(cache'[v], LoopCache, Servers!Chunk(v), loopBatch)
    BY DEF CachesListed, Servers!Chunk
  <2>1. CASE v = w
    BY <2>1, <1>5, <1>6
  <2>2. CASE v # w
    BY <2>2, <1>6 DEF LoopInv, CachesListed
  <2> QED
    BY <2>1, <2>2
<1>10. EntriesKept'
  <2> SUFFICES ASSUME NEW j \in LoopRows,
                      Cardinality(Servers!Chunk(LoopWorkerOf[j])) <= LoopCache,
                      loopAsked'[j] # <<>>
               PROVE  EntryKept(j)'
    BY DEF EntriesKept, Servers!Chunk
  <2> DEFINE u == LoopWorkerOf[j]
             a == loopAsked[j]
  <2>0. u \in LoopWorkers /\ a \in Seq(LoopServers) /\ loopAsked[i] \in Seq(LoopServers)
    BY LoopSizes DEF LoopInv, LoopTyped
  <2>1. CASE j = i
    <3>1. \A l \in 1..Len(a) : a[l] = q[k][2]
      <4> SUFFICES ASSUME NEW l \in 1..Len(a) PROVE a[l] = q[k][2]
        OBVIOUS
      <4>1. a # <<>>
        BY <2>0
      <4>2. EntryKept(i)
        BY <2>1, <4>1 DEF LoopInv, EntriesKept
      <4>3. PICK m \in 1..Len(q) : q[m][1] = <<loopBatch, i>> /\ \A o \in 1..Len(a) : a[o] = q[m][2]
        BY <4>2, <2>1 DEF EntryKept
      <4>4. m = k
        BY <4>3, <1>2, <1>3, <1>4 DEF Listed
      <4> QED
        BY <4>3, <4>4
    <3>2. PICK m \in 1..Len(r) : r[m] = q[k]
      BY <1>4, <1>5 DEF Has
    <3>3. \A l \in 1..Len(Append(a, q[k][2])) : Append(a, q[k][2])[l] = q[k][2]
      BY <3>1, <2>0
    <3>4. loopAsked'[j] = Append(a, q[k][2]) /\ cache'[u] = r
      BY <2>1, <1>6, <1>6a, <1>0
    <3> QED
      BY <3>2, <3>3, <3>4, <1>2, <2>1 DEF EntryKept
  <2>2. CASE j # i
    <3>1. loopAsked'[j] = a
      BY <2>2, <1>6a
    <3>2. EntryKept(j)
      BY <3>1 DEF LoopInv, EntriesKept
    <3>3. PICK m \in 1..Len(cache[u]) : cache[u][m][1] = <<loopBatch, j>> /\ \A o \in 1..Len(a) : a[o] = cache[u][m][2]
      BY <3>2 DEF EntryKept
    <3>4. PICK n \in 1..Len(cache'[u]) : cache'[u][n] = cache[u][m]
      BY <1>5, <1>6, <2>0 DEF Has
    <3> QED
      BY <3>1, <3>3, <3>4 DEF EntryKept
  <2> QED
    BY <2>1, <2>2
<1>11. AwakeUntilEnd'
  BY DEF LoopInv, AwakeUntilEnd
<1>12. Servers!EvenlySpread'
  BY <1>1 DEF LoopInv, Servers!EvenlySpread
<1> QED
  BY <1>7, <1>8, <1>9, <1>10, <1>11, <1>12 DEF LoopInv

\* A request that goes to the lightest server.
LEMMA ChosenStays ==
  ASSUME LoopInv, NEW i \in LoopRows, loopPc[i] = "ask", phase = "running",
         Servers!Entries(i) = {}, Servers!Chosen(i),
         loopPc' = [loopPc EXCEPT ![i] = "wait"],
         UNCHANGED <<loopBatch, phase, loopAwake, byHash>>
  PROVE  LoopInv'
<1> DEFINE w == LoopWorkerOf[i]
           q == cache[w]
           s == Servers!Lightest(w)
           e == <<<<loopBatch, i>>, s>>
           r == Append(IF Len(q) = LoopCache THEN Tail(q) ELSE q, e)
           P == Servers!Chunk(w)
<1>0. w \in LoopWorkers /\ i \in P
  BY LoopSizes DEF Servers!Chunk
<1>0a. s \in LoopServers /\ \A t \in LoopServers : given[w][s] <= given[w][t]
  BY <1>0, LightestIsLeast, LoopSizes DEF LoopInv
<1>1. /\ cache' = [cache EXCEPT ![w] = r]
      /\ loopAsked' = [loopAsked EXCEPT ![i] = Append(@, s)]
      /\ given' = [given EXCEPT ![w] = [given[w] EXCEPT ![s] = @ + 1]]
  BY Zenon DEF Servers!Chosen, Servers!MadeRoom, Servers!Raised, Servers!Request
<1>3. Listed(q, LoopCache, P, loopBatch)
  BY <1>0 DEF LoopInv, CachesListed
<1>4. \A k \in 1..Len(q) : q[k][1] # <<loopBatch, i>>
  <2>1. DOMAIN q = 1..Len(q)
    BY <1>3 DEF Listed
  <2> QED
    BY <2>1 DEF Servers!Entries, Servers!Request
<1>4a. loopBatch \in Nat /\ IsFiniteSet(P) /\ P \in SUBSET LoopRows
  BY ChunkIsFinite DEF LoopInv, LoopTyped
<1>4b. LoopCache \in Nat \ {0}
  BY LoopSizes
<1> HIDE DEF s, P, q, r
<1> HIDE DEF w
<1>5. /\ Listed(r, LoopCache, P, loopBatch)
      /\ Has(r, <<<<loopBatch, i>>, s>>)
      /\ Cardinality(P) <= LoopCache =>
           \A l \in 1..Len(q) : q[l][1][1] = loopBatch => Has(r, q[l])
  BY ONLY <1>0, <1>0a, <1>3, <1>4, <1>4a, <1>4b, NewStays DEF r, e
<1> USE DEF w
<1>6. \A v \in LoopWorkers : cache'[v] = IF v = w THEN r ELSE cache[v]
  BY <1>1, <1>0 DEF LoopInv, LoopTyped
<1>6a. \A j \in LoopRows : loopAsked'[j] = IF j = i THEN Append(loopAsked[i], s) ELSE loopAsked[j]
  BY <1>1 DEF LoopInv, LoopTyped
<1>6b. \A v \in LoopWorkers : given'[v] = IF v = w THEN [given[w] EXCEPT ![s] = @ + 1] ELSE given[v]
  BY <1>1, <1>0 DEF LoopInv, LoopTyped
<1>6c. /\ given[w] \in [LoopServers -> Nat]
       /\ \A t, u \in LoopServers : given[w][t] <= given[w][u] + 1
  BY <1>0 DEF LoopInv, LoopTyped, Servers!EvenlySpread
<1>6d. /\ [given[w] EXCEPT ![s] = @ + 1] \in [LoopServers -> Nat]
       /\ \A t, u \in LoopServers :
            [given[w] EXCEPT ![s] = @ + 1][t] <= [given[w] EXCEPT ![s] = @ + 1][u] + 1
  BY <1>6c, <1>0a, StaysEven
<1>7. LoopTyped'
  <2>1. loopAsked' \in [LoopRows -> Seq(LoopServers)]
    BY <1>1, <1>0a DEF LoopInv, LoopTyped
  <2>2. given' \in [LoopWorkers -> [LoopServers -> Nat]]
    BY <1>1, <1>0, <1>6d DEF LoopInv, LoopTyped
  <2> QED
    BY <2>1, <2>2, <1>1 DEF LoopInv, LoopTyped
<1>8. HashesDiffer'
  BY DEF LoopInv, HashesDiffer
<1>9. CachesListed'
  <2> SUFFICES ASSUME NEW v \in LoopWorkers
               PROVE  Listed(cache'[v], LoopCache, Servers!Chunk(v), loopBatch)
    BY DEF CachesListed, Servers!Chunk
  <2>1. CASE v = w
    BY <2>1, <1>5, <1>6 DEF P
  <2>2. CASE v # w
    BY <2>2, <1>6 DEF LoopInv, CachesListed
  <2> QED
    BY <2>1, <2>2
<1>10. EntriesKept'
  <2> SUFFICES ASSUME NEW j \in LoopRows,
                      Cardinality(Servers!Chunk(LoopWorkerOf[j])) <= LoopCache,
                      loopAsked'[j] # <<>>
               PROVE  EntryKept(j)'
    BY DEF EntriesKept, Servers!Chunk
  <2> DEFINE u == LoopWorkerOf[j]
             a == loopAsked[j]
  <2>0. u \in LoopWorkers /\ a \in Seq(LoopServers)
    BY LoopSizes DEF LoopInv, LoopTyped
  <2>0a. a # <<>> => \E m \in 1..Len(cache[u]) :
           cache[u][m][1] = <<loopBatch, j>> /\ \A o \in 1..Len(a) : a[o] = cache[u][m][2]
    BY DEF LoopInv, EntriesKept, EntryKept
  <2>1. CASE j = i
    <3>1. a = <<>>
      <4> SUFFICES ASSUME a # <<>> PROVE FALSE
        OBVIOUS
      <4> QED
        BY <2>0a, <2>1, <1>4 DEF q
    <3>2. PICK m \in 1..Len(r) : r[m] = e
      BY <1>5 DEF Has
    <3>3. \A l \in 1..Len(Append(a, s)) : Append(a, s)[l] = s
      BY <3>1
    <3>4. loopAsked'[j] = Append(a, s) /\ cache'[u] = r
      BY <2>1, <1>6, <1>6a, <1>0
    <3> QED
      BY <3>2, <3>3, <3>4, <2>1 DEF EntryKept
  <2>2. CASE j # i
    <3>1. loopAsked'[j] = a
      BY <2>2, <1>6a
    <3>3. PICK m \in 1..Len(cache[u]) : cache[u][m][1] = <<loopBatch, j>> /\ \A o \in 1..Len(a) : a[o] = cache[u][m][2]
      BY <2>0a, <3>1
    <3>4. PICK n \in 1..Len(cache'[u]) : cache'[u][n] = cache[u][m]
      <4>1. CASE u = w
        <5>1. cache[u] = q /\ cache'[u] = r /\ Cardinality(P) <= LoopCache /\ q[m][1][1] = loopBatch
          BY <4>1, <1>6, <2>0, <3>3 DEF q, P
        <5> QED
          BY <5>1, <1>5 DEF Has
      <4>2. CASE u # w
        BY <4>2, <1>6, <2>0
      <4> QED
        BY <4>1, <4>2
    <3> QED
      BY <3>1, <3>3, <3>4 DEF EntryKept
  <2> QED
    BY <2>1, <2>2
<1>11. AwakeUntilEnd'
  BY DEF LoopInv, AwakeUntilEnd
<1>12. Servers!EvenlySpread'
  <2> SUFFICES ASSUME NEW v \in LoopWorkers, NEW t \in LoopServers, NEW u \in LoopServers
               PROVE  given'[v][t] <= given'[v][u] + 1
    BY DEF Servers!EvenlySpread
  <2>1. CASE v = w
    BY <2>1, <1>6b, <1>6d
  <2>2. CASE v # w
    BY <2>2, <1>6b DEF LoopInv, Servers!EvenlySpread
  <2> QED
    BY <2>1, <2>2
<1> QED
  BY <1>7, <1>8, <1>9, <1>10, <1>11, <1>12 DEF LoopInv

\* A conversation that asks keeps the invariant (_choose_server).
LEMMA LoopAsks ==
  ASSUME LoopInv, NEW i \in LoopRows, Servers!Ask(i)
  PROVE  LoopInv'
<1>1. /\ loopPc[i] = "ask" /\ phase = "running"
      /\ loopPc' = [loopPc EXCEPT ![i] = "wait"]
      /\ UNCHANGED <<loopBatch, phase, loopAwake, byHash>>
  BY DEF Servers!Ask
<1>2. CASE Servers!Entries(i) = {}
  <2>1. Servers!Chosen(i)
    BY <1>2 DEF Servers!Ask
  <2> QED
    BY <1>1, <1>2, <2>1, ChosenStays
<1>3. CASE Servers!Entries(i) # {}
  <2>1. PICK k \in Servers!Entries(i) : Servers!Remembered(i, k)
    BY <1>3 DEF Servers!Ask
  <2> QED
    BY <1>1, <2>1, RememberedStays
<1> QED
  BY <1>2, <1>3

\* Nothing that the invariant is about changes, but where loops are.
LEMMA LoopGoesOn ==
  ASSUME LoopInv, UNCHANGED <<loopBatch, loopAwake, byHash, given, cache, loopAsked>>,
         DOMAIN loopPc' = LoopRows, AwakeUntilEnd'
  PROVE  LoopInv'
<1>1. LoopTyped' /\ HashesDiffer'
  BY DEF LoopInv, LoopTyped, HashesDiffer
<1>2. CachesListed' /\ EntriesKept'
  BY DEF LoopInv, CachesListed, EntriesKept, EntryKept, Servers!Chunk
<1>3. Servers!EvenlySpread'
  BY DEF LoopInv, Servers!EvenlySpread
<1> QED
  BY <1>1, <1>2, <1>3 DEF LoopInv

\* Every step of the loops keeps the invariant.
LEMMA LoopStep ==
  ASSUME LoopInv, Servers!Next
  PROVE  LoopInv'
<1> USE DEF Servers!loops, Servers!choice
<1>0. DOMAIN loopPc = LoopRows /\ AwakeUntilEnd
  BY DEF LoopInv, LoopTyped
<1>1. CASE Servers!Begin
  <2> USE <1>1 DEF Servers!Begin
  <2>1. loopBatch \in Nat /\ loopBatch' = loopBatch + 1
    BY DEF LoopInv, LoopTyped
  <2>2. LoopTyped'
    <3>1. loopAsked' \in [LoopRows -> Seq(LoopServers)]
      OBVIOUS
    <3> QED
      BY <2>1, <3>1 DEF LoopInv, LoopTyped
  <2>3. HashesDiffer' /\ Servers!EvenlySpread'
    BY DEF LoopInv, HashesDiffer, Servers!EvenlySpread
  <2>4. CachesListed'
    BY <2>1, AgedStays DEF LoopInv, CachesListed, Servers!Chunk
  <2>5. EntriesKept'
    BY DEF EntriesKept
  <2>6. AwakeUntilEnd'
    BY DEF AwakeUntilEnd
  <2> QED
    BY <2>2, <2>3, <2>4, <2>5, <2>6 DEF LoopInv
<1>2. CASE Servers!End
  <2>1. AwakeUntilEnd'
    BY <1>2 DEF Servers!End, Servers!AllReturned, AwakeUntilEnd
  <2>2. UNCHANGED <<loopBatch, byHash, given, cache, loopAsked, loopPc>>
    BY <1>2 DEF Servers!End
  <2>3. LoopTyped' /\ HashesDiffer'
    BY <2>2 DEF LoopInv, LoopTyped, HashesDiffer
  <2>4. CachesListed' /\ EntriesKept'
    BY <2>2 DEF LoopInv, CachesListed, EntriesKept, EntryKept, Servers!Chunk
  <2>5. Servers!EvenlySpread'
    BY <2>2 DEF LoopInv, Servers!EvenlySpread
  <2> QED
    BY <2>1, <2>3, <2>4, <2>5 DEF LoopInv
<1>3. ASSUME NEW i \in LoopRows, Servers!Step(i) \/ Servers!ServerFails(i)
      PROVE  LoopInv'
  <2>1. CASE Servers!Ask(i)
    BY <2>1, LoopAsks
  <2>2. CASE Servers!Answer(i)
    <3>1. /\ UNCHANGED <<loopBatch, loopAwake, byHash, given, cache, loopAsked, phase>>
          /\ phase = "running"
          /\ DOMAIN loopPc' = DOMAIN loopPc
      BY <2>2 DEF Servers!Answer, Servers!Finish
    <3> QED
      BY <3>1, <1>0, LoopGoesOn DEF AwakeUntilEnd
  <2>3. CASE Servers!CallTool(i)
    <3>1. /\ UNCHANGED <<loopBatch, loopAwake, byHash, given, cache, loopAsked, phase, loopPc>>
      BY <2>3 DEF Servers!CallTool
    <3> QED
      BY <3>1, <1>0, LoopGoesOn DEF AwakeUntilEnd
  <2>4. CASE Servers!Return(i)
    <3>1. /\ UNCHANGED <<loopBatch, loopAwake, byHash, given, cache, loopAsked, phase>>
          /\ phase = "running"
          /\ DOMAIN loopPc' = DOMAIN loopPc
      BY <2>4 DEF Servers!Return, Servers!Finish
    <3> QED
      BY <3>1, <1>0, LoopGoesOn DEF AwakeUntilEnd
  <2>5. CASE Servers!ServerFails(i)
    <3>1. /\ UNCHANGED <<loopBatch, loopAwake, byHash, given, cache, loopAsked, loopPc>>
          /\ phase = "running" /\ phase' = "failed"
      BY <2>5 DEF Servers!ServerFails
    <3> QED
      BY <3>1, <1>0, LoopGoesOn DEF AwakeUntilEnd
  <2> QED
    BY <1>3, <2>1, <2>2, <2>3, <2>4, <2>5 DEF Servers!Step
<1> QED
  BY <1>1, <1>2, <1>3 DEF Servers!Next

\* The invariant is one of the state of the loops alone.
LEMMA LoopStays == LoopInv /\ UNCHANGED loopVars => LoopInv'
<1> SUFFICES ASSUME LoopInv, UNCHANGED loopVars PROVE LoopInv'
  OBVIOUS
<1>1. UNCHANGED <<loopBatch, loopAwake, byHash, given, cache, loopAsked, phase, loopPc>>
  BY DEF loopVars
<1>2. AwakeUntilEnd' /\ DOMAIN loopPc' = LoopRows
  BY <1>1 DEF LoopInv, AwakeUntilEnd, LoopTyped
<1> QED
  BY <1>1, <1>2, LoopGoesOn

\* What the servers are asked is right.
LEMMA LoopIsRight ==
  ASSUME LoopInv
  PROVE  Servers!Sticky /\ Servers!EvenlySpread /\ Servers!AwakeWhileAsked
<1>1. Servers!Sticky
  <2> SUFFICES ASSUME NEW i \in LoopRows, Cardinality(Servers!Chunk(LoopWorkerOf[i])) <= LoopCache,
                      NEW k \in DOMAIN loopAsked[i], NEW l \in DOMAIN loopAsked[i]
               PROVE  loopAsked[i][k] = loopAsked[i][l]
    BY LoopCounts DEF Servers!Sticky
  <2>1. loopAsked[i] \in Seq(LoopServers)
    BY DEF LoopInv, LoopTyped
  <2>2. k \in 1..Len(loopAsked[i]) /\ l \in 1..Len(loopAsked[i]) /\ loopAsked[i] # <<>>
    BY <2>1
  <2>3. EntryKept(i)
    BY <2>2 DEF LoopInv, EntriesKept
  <2> QED
    BY <2>2, <2>3 DEF EntryKept
<1>2. Servers!AwakeWhileAsked
  BY DEF LoopInv, AwakeUntilEnd, Servers!AwakeWhileAsked
<1> QED
  BY <1>1, <1>2 DEF LoopInv

-----------------------------------------------------------------------------
(* The limiter.                                                            *)

\* A permit is at a call that runs, on its way back, or there.
RateInv ==
  /\ Rate!TypeOK
  /\ Cardinality(Rate!At({"runs"})) + returned + permits <= RateMax

\* The sizes of the instance are the sizes.
LEMMA RateCounts == \A S : Rate!Cardinality(S) = Cardinality(S)
BY DEF Rate!Cardinality, Cardinality

\* And its sets are finite when they are.
LEMMA RateFinite == \A S : Rate!IsFiniteSet(S) <=> IsFiniteSet(S)
BY DEF Rate!IsFiniteSet, IsFiniteSet

\* There are finitely many calls.
LEMMA CallsFinite == IsFiniteSet(Rate!All)
<1>1. IsFiniteSet(RateWorkers) /\ IsFiniteSet(RateCalls)
  <2>1. Rate!RateLimitAssumption
    BY RolloutAssumption
  <2> QED
    BY <2>1, RateFinite DEF Rate!RateLimitAssumption
<1> QED
  BY <1>1, FS_Product DEF Rate!All

\* And so few are in one place.
LEMMA CallsAreFinite ==
  ASSUME NEW where
  PROVE  IsFiniteSet(Rate!At(where)) /\ Cardinality(Rate!At(where)) \in Nat
<1>1. Rate!At(where) \in SUBSET Rate!All
  BY DEF Rate!At
<1> QED
  BY <1>1, CallsFinite, FS_Subset, FS_CardinalityType

\* rate_limit is a positive number.
LEMMA MaxIsNumber == RateMax \in Nat \ {0}
<1>1. Rate!RateLimitAssumption
  BY RolloutAssumption
<1> QED
  BY <1>1 DEF Rate!RateLimitAssumption

\* At first no permit is taken.
LEMMA RateInit == Rate!Init => RateInv
<1> SUFFICES ASSUME Rate!Init PROVE RateInv
  OBVIOUS
<1> USE DEF Rate!Init
<1>1. Rate!TypeOK
  BY MaxIsNumber DEF Rate!TypeOK
<1>2. Rate!At({"runs"}) = {}
  BY DEF Rate!At
<1>3. Cardinality(Rate!At({"runs"})) = 0
  BY <1>2, FS_EmptySet
<1> QED
  BY <1>1, <1>3, MaxIsNumber DEF RateInv

\* A call that does not begin or stop to run changes nothing for the others.
LEMMA OthersRun ==
  ASSUME RateInv, NEW c \in Rate!All, call[c] # "runs", NEW to, to # "runs",
         call' = [call EXCEPT ![c] = to], UNCHANGED <<returned, permits>>,
         Rate!TypeOK'
  PROVE  RateInv'
<1>1. call \in [Rate!All -> {"submitted", "started", "waits", "runs", "result", "nothing", "raised"}]
  BY DEF RateInv, Rate!TypeOK
<1>2. Rate!At({"runs"})' = Rate!At({"runs"})
  BY <1>1 DEF Rate!At, Rate!All
<1> QED
  BY <1>2 DEF RateInv

\* A permit that is given to a call is still counted once.
LEMMA GrantedSum ==
  ASSUME NEW a \in Nat, NEW b \in Nat, a <= b + 1, NEW c \in Nat, NEW d \in Nat,
         NEW m \in Nat, b + c + d <= m
  PROVE  a + c + (d - 1) <= m
OBVIOUS

\* Every step of a call or of the limiter keeps the sum of the permits.
LEMMA RateStep ==
  ASSUME RateInv, Rate!Next
  PROVE  RateInv'
<1> DEFINE n == Cardinality(Rate!At({"runs"}))
           Places == {"submitted", "started", "waits", "runs", "result", "nothing", "raised"}
<1>0. /\ call \in [Rate!All -> Places] /\ rateAsked \in Seq(Rate!All) /\ returned \in Nat
      /\ permits \in Nat /\ permits <= RateMax /\ RateMax \in Nat
  BY MaxIsNumber DEF RateInv, Rate!TypeOK
<1>0a. n \in Nat /\ n + returned + permits <= RateMax
  BY CallsAreFinite DEF RateInv
<1>0b. n' \in Nat
  <2>1. Rate!At({"runs"})' \in SUBSET Rate!All /\ IsFiniteSet(Rate!All)
    BY CallsFinite DEF Rate!At, Rate!All
  <2> QED
    BY <2>1, FS_Subset, FS_CardinalityType
<1> HIDE DEF n
<1>1. ASSUME NEW c \in Rate!All, Rate!Start(c) \/ Rate!Ask(c) \/ Rate!Raise(c)
      PROVE  RateInv'
  <2>1. CASE Rate!Start(c)
    <3>1. Rate!TypeOK'
      BY <2>1, <1>0 DEF Rate!Start, Rate!TypeOK, Rate!All
    <3> QED
      BY <3>1, <2>1, OthersRun DEF Rate!Start
  <2>2. CASE Rate!Ask(c)
    <3>1. Rate!TypeOK'
      BY <2>2, <1>0 DEF Rate!Ask, Rate!TypeOK, Rate!All
    <3> QED
      BY <3>1, <2>2, OthersRun DEF Rate!Ask
  <2>3. CASE Rate!Raise(c)
    <3>1. Rate!TypeOK'
      BY <2>3, <1>0 DEF Rate!Raise, Rate!TypeOK, Rate!All
    <3> QED
      BY <3>1, <2>3, OthersRun DEF Rate!Raise
  <2> QED
    BY <1>1, <2>1, <2>2, <2>3
<1>2. ASSUME NEW c \in Rate!All, Rate!Over(c) PROVE RateInv'
  <2>1. /\ call[c] = "runs" /\ returned' = returned + 1 /\ UNCHANGED <<rateAsked, permits>>
        /\ \E result \in {"result", "nothing"} : call' = [call EXCEPT ![c] = result]
    BY <1>2 DEF Rate!Over
  <2>2. Rate!TypeOK'
    <3>1. call' \in [Rate!All -> Places]
      BY <2>1, <1>0
    <3>2. returned' \in Nat /\ permits' \in 0..RateMax /\ rateAsked' \in Seq(Rate!All)
      BY <2>1, <1>0
    <3> QED
      BY <3>1, <3>2 DEF Rate!TypeOK, Rate!All
  <2>3. Rate!At({"runs"})' = Rate!At({"runs"}) \ {c} /\ c \in Rate!At({"runs"})
    BY <2>1, <1>0 DEF Rate!At, Rate!All
  <2>4. n' = n - 1
    BY <2>3, CallsAreFinite, FS_RemoveElement DEF n
  <2>5. n' + returned' + permits' <= RateMax
    BY <2>1, <2>4, <1>0, <1>0a
  <2> QED
    BY <2>2, <2>5 DEF RateInv, n
<1>3. CASE Rate!Grant
  <2>1. /\ rateAsked # <<>> /\ permits > 0 /\ permits' = permits - 1 /\ returned' = returned
        /\ call' = [call EXCEPT ![Head(rateAsked)] = "runs"]
        /\ rateAsked' = Tail(rateAsked)
    BY <1>3 DEF Rate!Grant
  <2>2. Head(rateAsked) \in Rate!All /\ Tail(rateAsked) \in Seq(Rate!All)
    BY <2>1, <1>0
  <2>3. Rate!TypeOK'
    <3>1. call' \in [Rate!All -> Places] /\ rateAsked' \in Seq(Rate!All)
      BY <2>1, <2>2, <1>0
    <3>2. returned' \in Nat /\ permits' \in 0..RateMax
      BY <2>1, <1>0
    <3> QED
      BY <3>1, <3>2 DEF Rate!TypeOK, Rate!All
  <2>4. Rate!At({"runs"})' = Rate!At({"runs"}) \cup {Head(rateAsked)}
    BY <2>1, <2>2, <1>0 DEF Rate!At, Rate!All
  <2>5. n' <= n + 1
    <3>1. n' = n \/ n' = n + 1
      BY <2>4, CallsAreFinite, FS_AddElement DEF n
    <3> QED
      BY <3>1, <1>0a
  <2>6. n' + returned' + permits' <= RateMax
    <3>1. permits' = permits - 1 /\ returned' = returned
      BY <2>1
    <3>2. returned \in Nat /\ permits \in Nat /\ RateMax \in Nat
      BY <1>0
    <3> QED
      BY <3>1, <3>2, <2>5, <1>0a, <1>0b, GrantedSum
  <2> QED
    BY <2>3, <2>6 DEF RateInv, n
<1>4. CASE Rate!Release
  <2>1. /\ returned > 0 /\ returned' = returned - 1 /\ permits' = permits + 1
        /\ UNCHANGED <<call, rateAsked>>
    BY <1>4 DEF Rate!Release
  <2>2. n' = n
    BY <2>1 DEF n, Rate!At, Rate!All
  <2>3. /\ n' + returned' + permits' <= RateMax
        /\ returned' \in Nat /\ permits' \in 0..RateMax
    BY <2>1, <2>2, <1>0, <1>0a
  <2>4. Rate!TypeOK'
    BY <2>1, <2>3, <1>0 DEF Rate!TypeOK, Rate!All
  <2> QED
    BY <2>3, <2>4 DEF RateInv, n
<1> QED
  BY <1>1, <1>2, <1>3, <1>4 DEF Rate!Next

\* The invariant is one of the state of the limiter alone.
LEMMA RateStays == RateInv /\ UNCHANGED rateVars => RateInv'
BY DEF RateInv, rateVars, Rate!TypeOK, Rate!At, Rate!All

\* What the run checks of the limiter.
LEMMA RateIsRight ==
  ASSUME RateInv
  PROVE  Rate!TypeOK /\ Rate!WithinRate
<1>1. /\ Cardinality(Rate!At({"runs"})) \in Nat /\ returned \in Nat /\ permits \in Nat
      /\ RateMax \in Nat /\ Cardinality(Rate!At({"runs"})) + returned + permits <= RateMax
  BY CallsAreFinite, MaxIsNumber DEF RateInv, Rate!TypeOK
<1>2. Cardinality(Rate!At({"runs"})) <= RateMax
  BY <1>1
<1> QED
  BY <1>2, RateCounts DEF RateInv, Rate!WithinRate

LEMMA ActSizesAre == Act!ActivationOffloadAssumption
BY RolloutAssumption DEF RolloutAssumption

-----------------------------------------------------------------------------
(***************************************************************************)
(* What is known of the streams, whoever uses them: d is how much is done, *)
(* mem what is in memory, q the work that is left.                         *)
(***************************************************************************)
Issued(d, q, s) == d[s] + Len(q[s])
Pending(d, q, s) == (d[s] + 1)..Issued(d, q, s)
Nth(d, q, s, n) == q[s][n - d[s]]

\* Work m of stream t is done before work n of s begins: because it is done, comes
\* before it in its stream, or is waited for before.
First(d, q, s, n, t, m) ==
  \/ m <= d[t]
  \/ s = t /\ m < n
  \/ \E k \in Pending(d, q, s) :
       /\ k < n /\ Nth(d, q, s, k).op = "wait"
       /\ Nth(d, q, s, k).on = t /\ m <= Nth(d, q, s, k).for

\* Or something is that begins after m is done.
Ahead(d, q, s, n, t, m) ==
  \/ First(d, q, s, n, t, m)
  \/ \E u \in Act!Streams : \E k \in 0..Issued(d, q, u) :
       First(d, q, s, n, u, k) /\ First(d, q, u, k + 1, t, m)

Home(c) == IF c[1] = "cpu" THEN "d2h" ELSE c[1]
Reading(w) == w.op \in {"copy", "read"}
Writing(w) == w.op \in {"write", "copy"}

WritesTo(d, q, n, c) ==
  /\ n \in Pending(d, q, Home(c))
  /\ Writing(Nth(d, q, Home(c), n)) /\ Nth(d, q, Home(c), n).to = c

\* Work m writes v to c, or what is done up to it has.
WrittenBy(d, mem, q, c, v, m) ==
  /\ m \in 0..Issued(d, q, Home(c))
  /\ m <= d[Home(c)] => mem[c] = v
  /\ m > d[Home(c)] => WritesTo(d, q, m, c) /\ Nth(d, q, Home(c), m).of = v

\* Work that reads finds what it is meant to: this is written before, and nothing
\* else before it is read.
Finds(d, mem, q, s, n) ==
  LET w == Nth(d, q, s, n) IN
    \E m \in 0..Issued(d, q, Home(w.from)) :
      /\ WrittenBy(d, mem, q, w.from, w.of, m)
      /\ Ahead(d, q, s, n, Home(w.from), m)
      /\ \A k \in Pending(d, q, Home(w.from)) :
           k > m /\ WritesTo(d, q, k, w.from) => Ahead(d, q, Home(w.from), k, s, n)

FindsAll(d, mem, q) ==
  \A s \in Act!Streams : \A n \in Pending(d, q, s) :
    Reading(Nth(d, q, s, n)) => Finds(d, mem, q, s, n)

\* What c will hold when all is done is v.
HoldsLast(d, mem, q, c, v) ==
  \E m \in 0..Issued(d, q, Home(c)) :
    /\ WrittenBy(d, mem, q, c, v, m)
    /\ \A k \in Pending(d, q, Home(c)) : k > m => ~WritesTo(d, q, k, c)

BlocksOf(s) == {s} \X (1..ActBlocks)
CpuPlace == {"cpu"} \X Nat
Stored == Nat \X Nat
WaitWork == [op : {"wait"}, on : Act!Streams, for : Nat]
WorkOf(s) ==
  WaitWork \cup
  (IF s = "compute"
   THEN [op : {"write"}, to : BlocksOf("compute"), of : Stored]
          \cup [op : {"read"}, from : BlocksOf("compute") \cup BlocksOf("h2d"), of : Stored]
   ELSE IF s = "d2h" THEN [op : {"copy"}, from : BlocksOf("compute"), to : CpuPlace, of : Stored]
   ELSE [op : {"copy"}, from : CpuPlace, to : BlocksOf("h2d"), of : Stored])

WorkOK(d, mem, q) ==
  /\ d \in [Act!Streams -> Nat]
  /\ DOMAIN q = Act!Streams /\ \A s \in Act!Streams : q[s] \in Seq(WorkOf(s))
  /\ \A s \in Act!Streams : \A n \in Pending(d, q, s) :
       Writing(Nth(d, q, s, n)) => Nth(d, q, s, n).to \in DOMAIN mem

\* Copies out are over before the computation goes on, but those of the blocks kept.
Settled(d, q, kept) ==
  \A n \in Pending(d, q, "d2h") : Reading(Nth(d, q, "d2h", n)) =>
    \/ First(d, q, "compute", Issued(d, q, "compute") + 1, "d2h", n)
    \/ Nth(d, q, "d2h", n).from \in kept

\* Copies in are over before the computation goes on, but those under way.
Arrived(d, q, flying) ==
  \A n \in Pending(d, q, "h2d") : Reading(Nth(d, q, "h2d", n)) =>
    \/ First(d, q, "compute", Issued(d, q, "compute") + 1, "h2d", n)
    \/ Nth(d, q, "h2d", n).of \in flying

HoldsAll(d, mem, q, live) == \A h \in live : HoldsLast(d, mem, q, h[1], h[2])

StreamsInv(d, mem, q, kept, flying, live) ==
  /\ WorkOK(d, mem, q) /\ FindsAll(d, mem, q)
  /\ Settled(d, q, kept) /\ Arrived(d, q, flying) /\ HoldsAll(d, mem, q, live)

-----------------------------------------------------------------------------
(***************************************************************************)
(* What the host knows.                                                    *)
(***************************************************************************)
\* The group is copied: its layer is over when the one before has had its window.
Delayed(g) == g < Act!Offload /\ (g > 0 => Act!Window(g - 1) >= g)

Going == actPc \in {"forward", "commit forward"}
Back == actPc \in {"commit backward", "backward"}
Pushed == IF actPc = "commit forward" THEN actLayer + 1 ELSE actLayer

Forwards ==
  Going =>
    /\ actBatch <= ActBatches /\ current_group = actLayer
    /\ offloaded_group_count \in 0..(Act!Offload - 1)
    /\ offloaded_group_count > 0 => Act!Window(offloaded_group_count - 1) < actLayer
    /\ Act!Window(offloaded_group_count) >= actLayer
    /\ group_offload_mapping = IF actLayer = 0 THEN {} ELSE 0..offloaded_group_count
    /\ \A g \in Act!Groups :
         IF g < Pushed
         THEN /\ IF Delayed(g) /\ g \in group_offload_mapping
                 THEN tensor_tag_to_state[g] = Act!Copied
                 ELSE tensor_tag_to_state[g] \in BlocksOf("compute")
              /\ IF g >= offloaded_group_count /\ g < Act!Offload
                 THEN /\ tensor_tag_to_buf[g] \in BlocksOf("compute")
                      /\ tensor_tag_to_state[g] \in {Act!Copied, tensor_tag_to_buf[g]}
                 ELSE tensor_tag_to_buf[g] = Act!None
              /\ actTag[g] = g
         ELSE tensor_tag_to_state[g] = Act!None /\ tensor_tag_to_buf[g] = Act!None

Backwards ==
  Back =>
    /\ actBatch <= ActBatches
    /\ current_group = (IF actPc = "backward" THEN actLayer ELSE actLayer + 1)
    /\ IF current_group = 0 THEN offloaded_group_count = 0
       ELSE /\ offloaded_group_count \in 1..Act!Offload
            /\ offloaded_group_count < Act!Offload => Act!Window(offloaded_group_count) >= current_group
            /\ offloaded_group_count > 1 => Act!Window(offloaded_group_count - 1) < current_group
    /\ group_offload_mapping = {g \in 0..(Act!Offload - 1) : Act!Window(g) < current_group}
    /\ \A g \in Act!Groups :
         /\ tensor_tag_to_buf[g] = Act!None
         /\ IF g > actLayer THEN tensor_tag_to_state[g] = Act!None
            ELSE /\ actTag[g] = g
                 /\ IF ~Delayed(g) THEN tensor_tag_to_state[g] \in BlocksOf("compute")
                    ELSE IF Act!Window(g) < current_group THEN tensor_tag_to_state[g] = Act!Copied
                    ELSE tensor_tag_to_state[g] \in BlocksOf("h2d")

Ends ==
  actPc = "done" =>
    /\ actBatch = ActBatches + 1
    /\ current_group = 0 /\ offloaded_group_count = 0 /\ group_offload_mapping = {}
    /\ \A g \in Act!Groups : tensor_tag_to_state[g] = Act!None /\ tensor_tag_to_buf[g] = Act!None

HostInv ==
  /\ actSizes \in ActSizes /\ actBatch \in Nat \ {0} /\ actLayer \in Act!Groups
  /\ actPc \in {"forward", "commit forward", "commit backward", "backward", "done"}
  /\ DOMAIN tensor_tag_to_state = Act!Groups /\ DOMAIN tensor_tag_to_buf = Act!Groups
  /\ DOMAIN actTag = Act!Groups
  /\ Forwards /\ Backwards /\ Ends

Keeping == {tensor_tag_to_buf[g] : g \in Act!Groups} \ {Act!None}
Flying ==
  {<<actBatch, g>> : g \in
     {z \in 0..(Act!Offload - 1) : /\ Back /\ 0 < current_group /\ current_group <= Act!Window(z)
                                   /\ z > 0 => Act!Window(z - 1) < current_group
                                   /\ Delayed(z)}}
Live ==
  {<<tensor_tag_to_state[g], <<actBatch, g>>>> : g \in {z \in Act!Groups : tensor_tag_to_state[z] \in Act!Device}}
    \cup {<<Act!Cpu(g), <<actBatch, g>>>> : g \in {z \in Act!Groups : tensor_tag_to_state[z] = Act!Copied}}

ActInvariant ==
  /\ HostInv /\ DOMAIN actMemory = Act!Memory /\ ~actWrong
  /\ StreamsInv(actDone, actMemory, actQueue, Keeping, Flying, Live)

-----------------------------------------------------------------------------
\* What work looks like.
LEMMA WorkShape ==
  ASSUME NEW s \in Act!Streams, NEW w \in WorkOf(s)
  PROVE  /\ w.op \in {"wait", "write", "read", "copy"}
         /\ w.op = "wait" => w.on \in Act!Streams /\ w.for \in Nat
         /\ Writing(w) => Home(w.to) = s
         /\ Reading(w) => Home(w.from) \in Act!Streams /\ w.of \in Stored
         /\ w.op = "copy" => s # "compute" /\ Home(w.from) # s
         /\ s = "compute" => w.op # "copy"
         /\ s # "compute" => w.op \in {"wait", "copy"}
         /\ s = "d2h" /\ w.op = "copy" => w.from \in BlocksOf("compute") /\ w.to \in CpuPlace
         /\ s = "h2d" /\ w.op = "copy" => w.from \in CpuPlace /\ w.to \in BlocksOf("h2d")
         /\ w.op = "read" => w.from \in BlocksOf("compute") \cup BlocksOf("h2d")
<1>1. \A x, n : <<x, n>>[1] = x
  OBVIOUS
<1>2. \A c : (c \in BlocksOf("compute") => c[1] = "compute") /\ (c \in BlocksOf("h2d") => c[1] = "h2d")
             /\ (c \in CpuPlace => c[1] = "cpu")
  BY DEF BlocksOf, CpuPlace
<1>3. CASE w \in WaitWork
  BY <1>3 DEF WaitWork, Reading, Writing
<1>4. CASE s = "compute" /\ w \notin WaitWork
  BY <1>4, <1>2 DEF WorkOf, Act!Streams, Reading, Writing, Home
<1>5. CASE s = "d2h" /\ w \notin WaitWork
  BY <1>5, <1>2 DEF WorkOf, Act!Streams, Reading, Writing, Home
<1>6. CASE s = "h2d" /\ w \notin WaitWork
  BY <1>6, <1>2 DEF WorkOf, Act!Streams, Reading, Writing, Home
<1>. QED
  BY <1>3, <1>4, <1>5, <1>6 DEF Act!Streams

\* Numbers of work are numbers, and what they name is work.
LEMMA WorkTyped ==
  ASSUME NEW d, NEW mem, NEW q, WorkOK(d, mem, q), NEW s \in Act!Streams
  PROVE  /\ d[s] \in Nat /\ Issued(d, q, s) \in Nat /\ d[s] <= Issued(d, q, s)
         /\ \A n \in Pending(d, q, s) : n \in Nat /\ d[s] < n /\ n <= Issued(d, q, s)
         /\ \A n \in Pending(d, q, s) : Nth(d, q, s, n) \in WorkOf(s)
<1>1. d[s] \in Nat /\ q[s] \in Seq(WorkOf(s))
  BY DEF WorkOK
<1>2. Len(q[s]) \in Nat /\ DOMAIN q[s] = 1..Len(q[s])
  BY <1>1
<1>3. ASSUME NEW n \in Pending(d, q, s) PROVE Nth(d, q, s, n) \in WorkOf(s)
  <2>1. n - d[s] \in 1..Len(q[s])
    BY <1>1, <1>2 DEF Pending, Issued
  <2>. QED
    BY <2>1, <1>1 DEF Nth
<1>. QED
  BY <1>1, <1>2, <1>3 DEF Pending, Issued

-----------------------------------------------------------------------------
\* More work: what was there keeps its number.
Grows(d, q, p) ==
  \A t \in Act!Streams :
    /\ Issued(d, q, t) <= Issued(d, p, t)
    /\ Pending(d, q, t) \subseteq Pending(d, p, t)
    /\ \A n \in Pending(d, q, t) : Nth(d, p, t, n) = Nth(d, q, t, n)

\* A stream that is given work has it as its last, and all else as before.
LEMMA PutView ==
  ASSUME NEW d, NEW mem, NEW q, WorkOK(d, mem, q), NEW s \in Act!Streams, NEW w \in WorkOf(s),
         Writing(w) => w.to \in DOMAIN mem
  PROVE  LET p == Act!Put(q, s, w)
             N == Issued(d, q, s) + 1
         IN  /\ WorkOK(d, mem, p) /\ Grows(d, q, p)
             /\ \A t \in Act!Streams : Issued(d, p, t) = IF t = s THEN N ELSE Issued(d, q, t)
             /\ \A t \in Act!Streams : \A n \in Pending(d, p, t) :
                  n \in Pending(d, q, t) \/ (t = s /\ n = N)
             /\ N \in Pending(d, p, s) /\ N \in Nat /\ Nth(d, p, s, N) = w
<1> DEFINE p == Act!Put(q, s, w)
           N == Issued(d, q, s) + 1
<1>1. DOMAIN q = Act!Streams /\ d[s] \in Nat /\ q[s] \in Seq(WorkOf(s))
  BY DEF WorkOK
<1>2. p[s] = Append(q[s], w) /\ \A t \in Act!Streams \ {s} : p[t] = q[t]
  BY <1>1 DEF Act!Put
<1>3. DOMAIN p = Act!Streams
  BY <1>1 DEF Act!Put
<1>4. p[s] \in Seq(WorkOf(s)) /\ Len(p[s]) = Len(q[s]) + 1 /\ Len(q[s]) \in Nat
      /\ p[s][Len(q[s]) + 1] = w /\ \A i \in 1..Len(q[s]) : p[s][i] = q[s][i]
  BY <1>1, <1>2
<1>. HIDE DEF p
<1>5. N - d[s] = Len(q[s]) + 1 /\ N \in Nat
  BY <1>1, <1>4 DEF Issued
<1>6. Issued(d, p, s) = N /\ Pending(d, p, s) = Pending(d, q, s) \cup {N}
  <2>1. Issued(d, p, s) = N
    BY <1>1, <1>4 DEF Issued
  <2>2. d[s] + 1 \in Nat /\ N - 1 \in Nat /\ d[s] + 1 <= N
    BY <1>1, <1>4, <1>5
  <2>3. Pending(d, p, s) = (d[s] + 1)..N /\ Pending(d, q, s) = (d[s] + 1)..(N - 1)
    BY <2>1, <1>1, <1>4 DEF Pending, Issued
  <2>. HIDE DEF N
  <2>4. (d[s] + 1)..N = ((d[s] + 1)..(N - 1)) \cup {N}
    BY ONLY <2>2, <1>5
  <2>. QED
    BY <2>1, <2>3, <2>4
<1>7. Nth(d, p, s, N) = w
  BY <1>4, <1>5 DEF Nth
<1>8. ASSUME NEW n \in Pending(d, q, s) PROVE Nth(d, p, s, n) = Nth(d, q, s, n)
  <2>1. n - d[s] \in 1..Len(q[s])
    BY <1>1, <1>4 DEF Pending, Issued
  <2>. QED
    BY <2>1, <1>4 DEF Nth
<1>9. \A t \in Act!Streams \ {s} :
        Issued(d, p, t) = Issued(d, q, t) /\ Pending(d, p, t) = Pending(d, q, t)
        /\ \A n : Nth(d, p, t, n) = Nth(d, q, t, n)
  BY <1>2 DEF Issued, Pending, Nth
<1>10. \A t \in Act!Streams : Issued(d, q, t) \in Nat
  BY WorkTyped
<1>. HIDE DEF N
<1>11. Grows(d, q, p)
  <2>1. Issued(d, q, s) <= N
    BY <1>10 DEF N
  <2>. QED
    BY <2>1, <1>6, <1>8, <1>9, <1>10 DEF Grows
<1>12. WorkOK(d, mem, p)
  <2>1. \A t \in Act!Streams : p[t] \in Seq(WorkOf(t))
    BY <1>2, <1>4 DEF WorkOK
  <2>2. ASSUME NEW t \in Act!Streams, NEW n \in Pending(d, p, t), Writing(Nth(d, p, t, n))
        PROVE  Nth(d, p, t, n).to \in DOMAIN mem
    <3>1. CASE n \in Pending(d, q, t)
      <4>1. Nth(d, p, t, n) = Nth(d, q, t, n)
        BY <3>1, <1>11 DEF Grows
      <4>. QED
        BY <3>1, <4>1, <2>2 DEF WorkOK
    <3>2. CASE t = s /\ n = N
      BY <3>2, <1>7, <2>2
    <3>. QED
      BY <3>1, <3>2, <1>6, <1>9
  <2>. QED
    BY <2>1, <2>2, <1>3 DEF WorkOK
<1>. QED
  BY <1>5, <1>6, <1>7, <1>9, <1>11, <1>12 DEF N, p

\* What comes first does so with more work as well.
LEMMA GrowsFirst ==
  ASSUME NEW d, NEW q, NEW p, Grows(d, q, p), NEW s \in Act!Streams, NEW n, NEW t, NEW m,
         First(d, q, s, n, t, m)
  PROVE  First(d, p, s, n, t, m)
BY DEF First, Grows

\* What is ahead stays so when streams are given more.
LEMMA GrowsAhead ==
  ASSUME NEW d, NEW mem, NEW q, NEW p, WorkOK(d, mem, q), WorkOK(d, mem, p), Grows(d, q, p),
         NEW s \in Act!Streams, NEW n, NEW t, NEW m, Ahead(d, q, s, n, t, m)
  PROVE  Ahead(d, p, s, n, t, m)
<1>1. CASE First(d, q, s, n, t, m)
  BY <1>1, GrowsFirst DEF Ahead
<1>2. ASSUME NEW u \in Act!Streams, NEW k \in 0..Issued(d, q, u),
             First(d, q, s, n, u, k), First(d, q, u, k + 1, t, m)
      PROVE  Ahead(d, p, s, n, t, m)
  <2>1. First(d, p, s, n, u, k) /\ First(d, p, u, k + 1, t, m)
    BY <1>2, GrowsFirst
  <2>2. k \in 0..Issued(d, p, u)
    <3>1. Issued(d, q, u) \in Nat /\ Issued(d, p, u) \in Nat /\ Issued(d, q, u) <= Issued(d, p, u)
      BY WorkTyped DEF Grows
    <3>. QED
      BY <3>1
  <2>. QED
    BY <2>1, <2>2 DEF Ahead
<1>. QED
  BY <1>1, <1>2 DEF Ahead

\* So does what is written.
LEMMA GrowsWritten ==
  ASSUME NEW d, NEW mem, NEW q, NEW p, WorkOK(d, mem, q), WorkOK(d, mem, p), Grows(d, q, p),
         NEW c, Home(c) \in Act!Streams, NEW v, NEW m, WrittenBy(d, mem, q, c, v, m)
  PROVE  WrittenBy(d, mem, p, c, v, m)
<1> DEFINE t == Home(c)
<1>1. Issued(d, q, t) \in Nat /\ Issued(d, p, t) \in Nat /\ Issued(d, q, t) <= Issued(d, p, t)
  BY WorkTyped DEF Grows
<1>2. m \in 0..Issued(d, q, t) /\ m \in 0..Issued(d, p, t)
  BY <1>1 DEF WrittenBy
<1>3. WritesTo(d, q, m, c) => WritesTo(d, p, m, c) /\ Nth(d, p, t, m) = Nth(d, q, t, m)
  BY DEF WritesTo, Grows
<1>. QED
  BY <1>2, <1>3 DEF WrittenBy

\* Work may be added that writes over nothing that is still to be read, and finds
\* what it reads.
LEMMA PutFinds ==
  ASSUME NEW d, NEW mem, NEW q, WorkOK(d, mem, q), FindsAll(d, mem, q),
         NEW s \in Act!Streams, NEW w \in WorkOf(s), NEW p, p = Act!Put(q, s, w),
         Writing(w) => w.to \in DOMAIN mem,
         Writing(w) =>
           \A t \in Act!Streams : \A n \in Pending(d, q, t) :
             Reading(Nth(d, q, t, n)) /\ Nth(d, q, t, n).from = w.to
               => Ahead(d, p, s, Issued(d, q, s) + 1, t, n),
         Reading(w) => Finds(d, mem, p, s, Issued(d, q, s) + 1)
  PROVE  FindsAll(d, mem, p)
<1> DEFINE N == Issued(d, q, s) + 1
<1>1. /\ WorkOK(d, mem, p) /\ Grows(d, q, p)
      /\ \A t \in Act!Streams : \A n \in Pending(d, p, t) : n \in Pending(d, q, t) \/ (t = s /\ n = N)
      /\ Nth(d, p, s, N) = w
  BY PutView
<1>. HIDE DEF N
<1>2. SUFFICES ASSUME NEW t \in Act!Streams, NEW n \in Pending(d, q, t), Reading(Nth(d, q, t, n))
               PROVE  Finds(d, mem, p, t, n)
  BY <1>1 DEF FindsAll, N, Grows
<1> DEFINE r == Nth(d, q, t, n)
<1>3. Nth(d, p, t, n) = r /\ r \in WorkOf(t)
  BY <1>1, WorkTyped DEF Grows
<1>4. Home(r.from) \in Act!Streams
  BY <1>2, <1>3, WorkShape
<1>5. PICK m \in 0..Issued(d, q, Home(r.from)) :
        /\ WrittenBy(d, mem, q, r.from, r.of, m) /\ Ahead(d, q, t, n, Home(r.from), m)
        /\ \A k \in Pending(d, q, Home(r.from)) :
             k > m /\ WritesTo(d, q, k, r.from) => Ahead(d, q, Home(r.from), k, t, n)
  BY <1>2 DEF FindsAll, Finds
<1>. HIDE DEF r
<1>6. WrittenBy(d, mem, p, r.from, r.of, m) /\ Ahead(d, p, t, n, Home(r.from), m)
  BY <1>1, <1>4, <1>5, GrowsWritten, GrowsAhead
<1>7. ASSUME NEW k \in Pending(d, p, Home(r.from)), k > m, WritesTo(d, p, k, r.from)
      PROVE  Ahead(d, p, Home(r.from), k, t, n)
  <2>1. CASE k \in Pending(d, q, Home(r.from))
    <3>1. WritesTo(d, q, k, r.from)
      BY <2>1, <1>1, <1>4, <1>7 DEF WritesTo, Grows
    <3>2. Ahead(d, q, Home(r.from), k, t, n)
      BY <2>1, <3>1, <1>5, <1>7
    <3>. QED
      BY <3>2, <1>1, <1>4, GrowsAhead
  <2>2. CASE Home(r.from) = s /\ k = N
    <3>1. Writing(w) /\ w.to = r.from
      BY <2>2, <1>1, <1>7 DEF WritesTo
    <3>. QED
      BY <2>2, <3>1, <1>2 DEF N, r
  <2>. QED
    BY <2>1, <2>2, <1>1, <1>4
<1>8. m \in 0..Issued(d, p, Home(r.from))
  BY <1>6 DEF WrittenBy
<1>. QED
  BY <1>3, <1>6, <1>7, <1>8 DEF Finds

-----------------------------------------------------------------------------
\* A stream does its next work: what is left keeps its number.
Does(d, q, e, r, s) ==
  /\ d[s] + 1 \in Pending(d, q, s)
  /\ \A t \in Act!Streams :
       /\ e[t] = IF t = s THEN d[s] + 1 ELSE d[t]
       /\ Issued(e, r, t) = Issued(d, q, t)
       /\ Pending(e, r, t) = IF t = s THEN Pending(d, q, s) \ {d[s] + 1} ELSE Pending(d, q, t)
       /\ \A n \in Pending(e, r, t) : Nth(e, r, t, n) = Nth(d, q, t, n)

\* A stream that does its next work has the others left.
LEMMA DoneView ==
  ASSUME NEW d, NEW mem, NEW q, WorkOK(d, mem, q), NEW s \in Act!Streams, q[s] # <<>>,
         NEW to, DOMAIN to = DOMAIN mem
  PROVE  LET e == [d EXCEPT ![s] = @ + 1]
             r == [q EXCEPT ![s] = Tail(@)]
         IN  /\ WorkOK(e, to, r) /\ Does(d, q, e, r, s)
             /\ Nth(d, q, s, d[s] + 1) = Head(q[s])
<1> DEFINE e == [d EXCEPT ![s] = @ + 1]
           r == [q EXCEPT ![s] = Tail(@)]
           N == d[s] + 1
<1>1. d \in [Act!Streams -> Nat] /\ DOMAIN q = Act!Streams /\ d[s] \in Nat /\ q[s] \in Seq(WorkOf(s))
  BY DEF WorkOK
<1>2. e \in [Act!Streams -> Nat] /\ \A t \in Act!Streams : e[t] = IF t = s THEN N ELSE d[t]
  BY <1>1
<1>3. DOMAIN r = Act!Streams /\ \A t \in Act!Streams : r[t] = IF t = s THEN Tail(q[s]) ELSE q[t]
  BY <1>1
<1>4. Tail(q[s]) \in Seq(WorkOf(s)) /\ Len(Tail(q[s])) = Len(q[s]) - 1 /\ Len(q[s]) \in Nat \ {0}
      /\ \A i \in 1..(Len(q[s]) - 1) : Tail(q[s])[i] = q[s][i + 1]
  BY <1>1
<1>5. Head(q[s]) = q[s][1]
  BY <1>1
<1>. HIDE DEF e, r
<1>6. Nth(d, q, s, N) = Head(q[s])
  <2>1. N - d[s] = 1
    BY <1>1
  <2>. QED
    BY <2>1, <1>5 DEF Nth
<1>7. Issued(e, r, s) = Issued(d, q, s) /\ Issued(d, q, s) \in Nat /\ N <= Issued(d, q, s) /\ N \in Nat
  <2>1. e[s] = d[s] + 1 /\ Len(r[s]) = Len(q[s]) - 1
    BY <1>2, <1>3, <1>4
  <2>2. d[s] \in Nat /\ Len(q[s]) \in Nat \ {0}
    BY <1>1, <1>4
  <2>3. Issued(e, r, s) = e[s] + Len(r[s]) /\ Issued(d, q, s) = d[s] + Len(q[s])
    BY DEF Issued
  <2>4. e[s] + Len(r[s]) = d[s] + Len(q[s])
    BY <2>1, <2>2
  <2>. QED
    BY <2>2, <2>3, <2>4
<1>8. Pending(e, r, s) = Pending(d, q, s) \ {N} /\ N \in Pending(d, q, s)
  <2>1. Pending(d, q, s) = N..Issued(d, q, s) /\ Pending(e, r, s) = (N + 1)..Issued(d, q, s)
    BY <1>2, <1>7 DEF Pending
  <2>. HIDE DEF N
  <2>2. (N + 1)..Issued(d, q, s) = (N..Issued(d, q, s)) \ {N}
    BY <1>7
  <2>. QED
    BY <2>1, <2>2, <1>7
<1>9. ASSUME NEW n \in Pending(e, r, s) PROVE Nth(e, r, s, n) = Nth(d, q, s, n)
  <2>1. n \in (N + 1)..Issued(d, q, s) /\ Issued(d, q, s) = d[s] + Len(q[s])
    BY <1>2, <1>7, <1>9 DEF Pending, Issued
  <2>2. n - N \in 1..(Len(q[s]) - 1) /\ (n - N) + 1 = n - d[s]
    BY <2>1, <1>1, <1>4
  <2>3. e[s] = N /\ r[s] = Tail(q[s])
    BY <1>2, <1>3
  <2>4. Tail(q[s])[n - N] = q[s][(n - N) + 1]
    BY <2>2, <1>4
  <2>. QED
    BY <2>2, <2>3, <2>4 DEF Nth
<1>10. \A t \in Act!Streams \ {s} :
         Issued(e, r, t) = Issued(d, q, t) /\ Pending(e, r, t) = Pending(d, q, t)
         /\ \A n : Nth(e, r, t, n) = Nth(d, q, t, n)
  BY <1>2, <1>3 DEF Issued, Pending, Nth
<1>11. Does(d, q, e, r, s)
  BY <1>2, <1>7, <1>8, <1>9, <1>10 DEF Does
<1>12. WorkOK(e, to, r)
  <2>1. \A t \in Act!Streams : r[t] \in Seq(WorkOf(t))
    BY <1>3, <1>4 DEF WorkOK
  <2>2. \A t \in Act!Streams : \A n \in Pending(e, r, t) :
          n \in Pending(d, q, t) /\ Nth(e, r, t, n) = Nth(d, q, t, n)
    BY <1>11 DEF Does
  <2>. QED
    BY <2>1, <2>2, <1>2, <1>3 DEF WorkOK
<1>. QED
  BY <1>6, <1>11, <1>12 DEF e, r

\* What came first still does, of work that is left, when the waits that are over
\* were waited for.
Waited(d, q, s) ==
  LET w == Nth(d, q, s, d[s] + 1) IN w.op = "wait" => w.for <= d[w.on]

\* What comes first still does when a stream has done its next work.
LEMMA DoesFirst ==
  ASSUME NEW d, NEW mem, NEW to, NEW q, NEW e, NEW r, WorkOK(d, mem, q), WorkOK(e, to, r),
         NEW s \in Act!Streams,
         Does(d, q, e, r, s), Waited(d, q, s), NEW u \in Act!Streams, NEW n \in Nat,
         NEW t \in Act!Streams, NEW m \in Nat, First(d, q, u, n, t, m)
  PROVE  First(e, r, u, n, t, m)
<1>1. d[t] \in Nat /\ e[t] \in Nat /\ d[t] <= e[t]
  BY WorkTyped DEF Does
<1>2. CASE m <= d[t]
  BY <1>1, <1>2 DEF First
<1>3. CASE u = t /\ m < n
  BY <1>3 DEF First
<1>4. ASSUME NEW k \in Pending(d, q, u), k < n, Nth(d, q, u, k).op = "wait",
             Nth(d, q, u, k).on = t, m <= Nth(d, q, u, k).for
      PROVE  First(e, r, u, n, t, m)
  <2>1. CASE k \in Pending(e, r, u)
    <3>1. Nth(e, r, u, k) = Nth(d, q, u, k)
      BY <2>1 DEF Does
    <3>. QED
      BY <2>1, <3>1, <1>4 DEF First
  <2>2. CASE k \notin Pending(e, r, u)
    <3>1. u = s /\ k = d[s] + 1
      BY <2>2 DEF Does
    <3>2. Nth(d, q, u, k).for <= d[t]
      BY <3>1, <1>4 DEF Waited
    <3>3. Nth(d, q, u, k).for \in Nat
      BY <1>4, WorkTyped, WorkShape
    <3>4. m <= e[t]
      BY <3>2, <3>3, <1>1, <1>4
    <3>. QED
      BY <3>4 DEF First
  <2>. QED
    BY <2>1, <2>2
<1>. QED
  BY <1>2, <1>3, <1>4 DEF First

\* And so does what is ahead.
LEMMA DoesAhead ==
  ASSUME NEW d, NEW mem, NEW to, NEW q, NEW e, NEW r, WorkOK(d, mem, q), WorkOK(e, to, r),
         NEW s \in Act!Streams,
         Does(d, q, e, r, s), Waited(d, q, s), NEW u \in Act!Streams, NEW n \in Nat,
         NEW t \in Act!Streams, NEW m \in Nat, Ahead(d, q, u, n, t, m)
  PROVE  Ahead(e, r, u, n, t, m)
<1>1. CASE First(d, q, u, n, t, m)
  BY <1>1, DoesFirst DEF Ahead
<1>2. ASSUME NEW v \in Act!Streams, NEW k \in 0..Issued(d, q, v),
             First(d, q, u, n, v, k), First(d, q, v, k + 1, t, m)
      PROVE  Ahead(e, r, u, n, t, m)
  <2>1. k \in Nat /\ k + 1 \in Nat
    OBVIOUS
  <2>2. First(e, r, u, n, v, k) /\ First(e, r, v, k + 1, t, m)
    BY <2>1, <1>2, DoesFirst
  <2>3. k \in 0..Issued(e, r, v)
    BY DEF Does
  <2>. QED
    BY <2>2, <2>3 DEF Ahead
<1>. QED
  BY <1>1, <1>2 DEF Ahead

\* What is ahead of a stream's next work is done.
LEMMA HeadIsNext ==
  ASSUME NEW d, NEW mem, NEW q, WorkOK(d, mem, q), NEW s \in Act!Streams,
         NEW t \in Act!Streams, NEW m \in Nat, Ahead(d, q, s, d[s] + 1, t, m)
  PROVE  m <= d[t]
<1>1. ASSUME NEW u \in Act!Streams, NEW k \in Nat, k <= d[u], NEW v \in Act!Streams, NEW l \in Nat,
             First(d, q, u, k + 1, v, l)
      PROVE  l <= d[v]
  <2>1. d[u] \in Nat /\ d[v] \in Nat
    BY WorkTyped
  <2>2. \A n \in Pending(d, q, u) : n \in Nat /\ d[u] < n
    BY WorkTyped
  <2>3. \A n \in Pending(d, q, u) : ~(n < k + 1)
    BY <2>1, <2>2, <1>1
  <2>4. l <= d[v] \/ (u = v /\ l < k + 1)
    BY <2>3, <1>1 DEF First
  <2>. QED
    BY <2>1, <2>4, <1>1
<1>2. d[s] \in Nat /\ d[s] <= d[s]
  BY WorkTyped
<1>3. CASE First(d, q, s, d[s] + 1, t, m)
  BY <1>1, <1>2, <1>3
<1>4. ASSUME NEW u \in Act!Streams, NEW k \in 0..Issued(d, q, u),
             First(d, q, s, d[s] + 1, u, k), First(d, q, u, k + 1, t, m)
      PROVE  m <= d[t]
  <2>1. k \in Nat
    OBVIOUS
  <2>2. k <= d[u]
    BY <1>1, <1>2, <1>4, <2>1
  <2>. QED
    BY <1>1, <1>4, <2>1, <2>2
<1>. QED
  BY <1>3, <1>4 DEF Ahead

\* A stream that reads finds what it is meant to.
LEMMA HeadFinds ==
  ASSUME NEW d, NEW mem, NEW q, WorkOK(d, mem, q), FindsAll(d, mem, q), NEW s \in Act!Streams,
         d[s] + 1 \in Pending(d, q, s), Reading(Nth(d, q, s, d[s] + 1))
  PROVE  mem[Nth(d, q, s, d[s] + 1).from] = Nth(d, q, s, d[s] + 1).of
<1> DEFINE w == Nth(d, q, s, d[s] + 1)
<1>1. Home(w.from) \in Act!Streams
  BY WorkTyped, WorkShape
<1>2. PICK m \in 0..Issued(d, q, Home(w.from)) :
        /\ WrittenBy(d, mem, q, w.from, w.of, m) /\ Ahead(d, q, s, d[s] + 1, Home(w.from), m)
  BY DEF FindsAll, Finds
<1>. HIDE DEF w
<1>3. m \in Nat
  OBVIOUS
<1>4. m <= d[Home(w.from)]
  BY <1>1, <1>2, <1>3, HeadIsNext
<1>. QED
  BY <1>2, <1>4 DEF WrittenBy, w

\* The memory when the next work of s is done.
After(d, mem, q, s, to) ==
  LET w == Nth(d, q, s, d[s] + 1) IN
    /\ DOMAIN to = DOMAIN mem
    /\ \A c : ~(Writing(w) /\ c = w.to) => to[c] = mem[c]
    /\ Writing(w) => to[w.to] = w.of

\* What was to be written, and not to be written over, is there or still to be written.
LEMMA DoesWritten ==
  ASSUME NEW d, NEW mem, NEW to, NEW q, NEW e, NEW r, WorkOK(d, mem, q), WorkOK(e, to, r),
         NEW s \in Act!Streams, Does(d, q, e, r, s), After(d, mem, q, s, to),
         NEW c, Home(c) \in Act!Streams, NEW v, NEW m, WrittenBy(d, mem, q, c, v, m),
         Home(c) = s /\ d[s] + 1 > m => ~WritesTo(d, q, d[s] + 1, c)
  PROVE  WrittenBy(e, to, r, c, v, m)
<1> DEFINE N == d[s] + 1
           w == Nth(d, q, s, N)
           h == Home(c)
<1>1. /\ d[h] \in Nat /\ d[s] \in Nat /\ e[h] \in Nat /\ N \in Nat
      /\ e[h] = (IF h = s THEN N ELSE d[h]) /\ Issued(e, r, h) = Issued(d, q, h)
      /\ Issued(d, q, h) \in Nat
  BY WorkTyped DEF Does
<1>2. m \in 0..Issued(e, r, h) /\ m \in Nat
  BY <1>1 DEF WrittenBy
<1>3. Writing(w) => Home(w.to) = s
  BY WorkTyped, WorkShape DEF Does
<1>4. ASSUME m <= e[h] PROVE to[c] = v
  <2>1. CASE m <= d[h]
    <3>1. mem[c] = v
      BY <2>1 DEF WrittenBy
    <3>2. ~(Writing(w) /\ c = w.to)
      <4> SUFFICES ASSUME Writing(w), c = w.to PROVE FALSE
        OBVIOUS
      <4>1. h = s
        BY <1>3
      <4>2. WritesTo(d, q, N, c)
        BY <4>1 DEF WritesTo, Does
      <4>3. N > m
        BY <4>1, <2>1, <1>1, <1>2
      <4>. QED
        BY <4>1, <4>2, <4>3
    <3>. QED
      BY <3>1, <3>2 DEF After
  <2>2. CASE m > d[h]
    <3>1. h = s /\ m = N
      BY <2>2, <1>1, <1>2, <1>4
    <3>2. WritesTo(d, q, N, c) /\ w.of = v
      BY <2>2, <3>1 DEF WrittenBy
    <3>3. Writing(w) /\ w.to = c
      BY <3>1, <3>2 DEF WritesTo
    <3>. QED
      BY <3>2, <3>3 DEF After
  <2>. QED
    BY <2>1, <2>2, <1>1, <1>2
<1>5. ASSUME m > e[h] PROVE WritesTo(e, r, m, c) /\ Nth(e, r, h, m).of = v
  <2>1. m > d[h] /\ (h = s => m # N)
    BY <1>1, <1>2, <1>5
  <2>2. WritesTo(d, q, m, c) /\ Nth(d, q, h, m).of = v
    BY <2>1 DEF WrittenBy
  <2>3. m \in Pending(e, r, h)
    BY <2>1, <2>2 DEF WritesTo, Does
  <2>4. Nth(e, r, h, m) = Nth(d, q, h, m)
    BY <2>3 DEF Does
  <2>. QED
    BY <2>2, <2>3, <2>4 DEF WritesTo
<1>. QED
  BY <1>2, <1>4, <1>5 DEF WrittenBy

\* All other work that reads still finds what it is meant to.
LEMMA DoesFinds ==
  ASSUME NEW d, NEW mem, NEW to, NEW q, NEW e, NEW r, WorkOK(d, mem, q), WorkOK(e, to, r),
         NEW s \in Act!Streams, Does(d, q, e, r, s), After(d, mem, q, s, to), Waited(d, q, s),
         FindsAll(d, mem, q)
  PROVE  FindsAll(e, to, r)
<1>1. SUFFICES ASSUME NEW t \in Act!Streams, NEW n \in Pending(e, r, t), Reading(Nth(e, r, t, n))
               PROVE  Finds(e, to, r, t, n)
  BY DEF FindsAll
<1> DEFINE w == Nth(d, q, t, n)
           N == d[s] + 1
<1>2. n \in Pending(d, q, t) /\ Nth(e, r, t, n) = w /\ (t = s => n # N)
  BY DEF Does
<1>3. w \in WorkOf(t) /\ n \in Nat /\ d[t] < n /\ d[t] \in Nat
  BY <1>2, WorkTyped
<1>4. Home(w.from) \in Act!Streams
  BY <1>1, <1>2, <1>3, WorkShape
<1>5. PICK m \in 0..Issued(d, q, Home(w.from)) :
        /\ WrittenBy(d, mem, q, w.from, w.of, m) /\ Ahead(d, q, t, n, Home(w.from), m)
        /\ \A k \in Pending(d, q, Home(w.from)) :
             k > m /\ WritesTo(d, q, k, w.from) => Ahead(d, q, Home(w.from), k, t, n)
  BY <1>1, <1>2 DEF FindsAll, Finds
<1>. HIDE DEF w
<1>6. ASSUME Home(w.from) = s, N > m PROVE ~WritesTo(d, q, N, w.from)
  <2> SUFFICES ASSUME WritesTo(d, q, N, w.from) PROVE FALSE
    OBVIOUS
  <2>1. Ahead(d, q, s, N, t, n)
    BY <1>5, <1>6 DEF WritesTo
  <2>2. n <= d[t]
    BY <2>1, <1>3, HeadIsNext
  <2>. QED
    BY <2>2, <1>3
<1>7. WrittenBy(e, to, r, w.from, w.of, m)
  BY <1>4, <1>5, <1>6, DoesWritten
<1>8. m \in Nat /\ Issued(e, r, Home(w.from)) = Issued(d, q, Home(w.from))
  BY <1>4 DEF Does
<1>9. Ahead(e, r, t, n, Home(w.from), m)
  BY <1>3, <1>4, <1>5, <1>8, DoesAhead
<1>10. ASSUME NEW k \in Pending(e, r, Home(w.from)), k > m, WritesTo(e, r, k, w.from)
       PROVE  Ahead(e, r, Home(w.from), k, t, n)
  <2>1. k \in Pending(d, q, Home(w.from)) /\ Nth(e, r, Home(w.from), k) = Nth(d, q, Home(w.from), k)
    BY <1>4 DEF Does
  <2>2. WritesTo(d, q, k, w.from)
    BY <2>1, <1>10 DEF WritesTo
  <2>3. Ahead(d, q, Home(w.from), k, t, n)
    BY <2>1, <2>2, <1>5, <1>10
  <2>4. k \in Nat
    BY <2>1, <1>4, WorkTyped
  <2>. QED
    BY <2>3, <2>4, <1>3, <1>4, DoesAhead
<1>. QED
  BY <1>2, <1>5, <1>7, <1>8, <1>9, <1>10 DEF Finds

\* What memory will hold in the end stays the same.
LEMMA DoesHolds ==
  ASSUME NEW d, NEW mem, NEW to, NEW q, NEW e, NEW r, WorkOK(d, mem, q), WorkOK(e, to, r),
         NEW s \in Act!Streams, Does(d, q, e, r, s), After(d, mem, q, s, to),
         NEW c, Home(c) \in Act!Streams, NEW v, HoldsLast(d, mem, q, c, v)
  PROVE  HoldsLast(e, to, r, c, v)
<1> DEFINE N == d[s] + 1
<1>1. PICK m \in 0..Issued(d, q, Home(c)) :
        /\ WrittenBy(d, mem, q, c, v, m)
        /\ \A k \in Pending(d, q, Home(c)) : k > m => ~WritesTo(d, q, k, c)
  BY DEF HoldsLast
<1>2. N > m => ~WritesTo(d, q, N, c)
  BY <1>1 DEF WritesTo
<1>3. WrittenBy(e, to, r, c, v, m)
  BY <1>1, <1>2, DoesWritten
<1>4. \A k \in Pending(e, r, Home(c)) :
        k \in Pending(d, q, Home(c)) /\ Nth(e, r, Home(c), k) = Nth(d, q, Home(c), k)
  BY DEF Does
<1>5. ASSUME NEW k \in Pending(e, r, Home(c)), k > m PROVE ~WritesTo(e, r, k, c)
  BY <1>1, <1>4, <1>5 DEF WritesTo
<1>6. m \in 0..Issued(e, r, Home(c))
  BY <1>3 DEF WrittenBy
<1>. QED
  BY <1>3, <1>5, <1>6 DEF HoldsLast

\* What the computation has waited for it has waited for.
LEMMA DoesSettled ==
  ASSUME NEW d, NEW mem, NEW to, NEW q, NEW e, NEW r, WorkOK(d, mem, q), WorkOK(e, to, r),
         NEW s \in Act!Streams, Does(d, q, e, r, s), Waited(d, q, s)
  PROVE  /\ \A kept : Settled(d, q, kept) => Settled(e, r, kept)
         /\ \A flying : Arrived(d, q, flying) => Arrived(e, r, flying)
<1>1. "compute" \in Act!Streams /\ "d2h" \in Act!Streams /\ "h2d" \in Act!Streams
  BY DEF Act!Streams
<1>2. Issued(e, r, "compute") = Issued(d, q, "compute") /\ Issued(d, q, "compute") + 1 \in Nat
  BY <1>1, WorkTyped DEF Does
<1>3. ASSUME NEW t \in Act!Streams, NEW n \in Pending(e, r, t)
      PROVE  /\ n \in Pending(d, q, t) /\ n \in Nat /\ Nth(e, r, t, n) = Nth(d, q, t, n)
             /\ First(d, q, "compute", Issued(d, q, "compute") + 1, t, n)
                  => First(e, r, "compute", Issued(e, r, "compute") + 1, t, n)
  <2>1. n \in Pending(d, q, t) /\ Nth(e, r, t, n) = Nth(d, q, t, n)
    BY DEF Does
  <2>2. n \in Nat
    BY <2>1, WorkTyped
  <2>. QED
    BY <2>1, <2>2, <1>1, <1>2, DoesFirst
<1>. QED
  BY <1>1, <1>3 DEF Settled, Arrived

\* The places that hold something have a stream that writes to them.
Homed(live) == \A h \in live : Home(h[1]) \in Act!Streams

\* Work that is done keeps the invariant of the streams.
LEMMA WorkStays ==
  ASSUME NEW d, NEW mem, NEW to, NEW q, NEW e, NEW r, NEW kept, NEW flying, NEW live,
         StreamsInv(d, mem, q, kept, flying, live), WorkOK(e, to, r), Homed(live),
         NEW s \in Act!Streams, Does(d, q, e, r, s), After(d, mem, q, s, to), Waited(d, q, s)
  PROVE  StreamsInv(e, to, r, kept, flying, live)
<1>1. WorkOK(d, mem, q) /\ FindsAll(d, mem, q) /\ Settled(d, q, kept) /\ Arrived(d, q, flying)
      /\ HoldsAll(d, mem, q, live)
  BY DEF StreamsInv
<1>2. FindsAll(e, to, r)
  BY <1>1, DoesFinds
<1>3. Settled(e, r, kept) /\ Arrived(e, r, flying)
  BY <1>1, DoesSettled
<1>4. HoldsAll(e, to, r, live)
  BY <1>1, DoesHolds DEF HoldsAll, Homed
<1>. QED
  BY <1>2, <1>3, <1>4 DEF StreamsInv

-----------------------------------------------------------------------------
\* What comes first also comes before later work.
LEMMA FirstLater ==
  ASSUME NEW d, NEW mem, NEW q, WorkOK(d, mem, q), NEW s \in Act!Streams, NEW n \in Nat,
         NEW o \in Nat, n <= o, NEW t \in Act!Streams, NEW m \in Nat, First(d, q, s, n, t, m)
  PROVE  First(d, q, s, o, t, m)
<1>1. CASE m <= d[t]
  BY <1>1 DEF First
<1>2. CASE s = t /\ m < n
  BY <1>2 DEF First
<1>3. ASSUME NEW k \in Pending(d, q, s), k < n, Nth(d, q, s, k).op = "wait",
             Nth(d, q, s, k).on = t, m <= Nth(d, q, s, k).for
      PROVE  First(d, q, s, o, t, m)
  <2>1. k \in Nat
    BY WorkTyped
  <2>2. k < o
    BY <2>1, <1>3
  <2>. QED
    BY <2>2, <1>3 DEF First
<1>. QED
  BY <1>1, <1>2, <1>3 DEF First

\* A place keeps what it is to hold if other places are written to.
LEMMA PutHolds ==
  ASSUME NEW d, NEW mem, NEW q, WorkOK(d, mem, q), NEW s \in Act!Streams, NEW w \in WorkOf(s),
         Writing(w) => w.to \in DOMAIN mem,
         NEW c, Home(c) \in Act!Streams, NEW v, ~(Writing(w) /\ w.to = c), HoldsLast(d, mem, q, c, v)
  PROVE  HoldsLast(d, mem, Act!Put(q, s, w), c, v)
<1> DEFINE p == Act!Put(q, s, w)
           N == Issued(d, q, s) + 1
<1>1. /\ WorkOK(d, mem, p) /\ Grows(d, q, p)
      /\ \A t \in Act!Streams : \A n \in Pending(d, p, t) : n \in Pending(d, q, t) \/ (t = s /\ n = N)
      /\ Nth(d, p, s, N) = w
  BY PutView
<1>. HIDE DEF p, N
<1>2. PICK m \in 0..Issued(d, q, Home(c)) :
        /\ WrittenBy(d, mem, q, c, v, m)
        /\ \A k \in Pending(d, q, Home(c)) : k > m => ~WritesTo(d, q, k, c)
  BY DEF HoldsLast
<1>3. WrittenBy(d, mem, p, c, v, m)
  BY <1>1, <1>2, GrowsWritten
<1>4. ASSUME NEW k \in Pending(d, p, Home(c)), k > m PROVE ~WritesTo(d, p, k, c)
  <2>1. CASE k \in Pending(d, q, Home(c))
    <3>1. ~WritesTo(d, q, k, c) /\ Nth(d, p, Home(c), k) = Nth(d, q, Home(c), k)
      BY <2>1, <1>1, <1>2, <1>4 DEF Grows
    <3>. QED
      BY <3>1, <2>1 DEF WritesTo
  <2>2. CASE Home(c) = s /\ k = N
    BY <2>2, <1>1 DEF WritesTo
  <2>. QED
    BY <2>1, <2>2, <1>1
<1>5. m \in 0..Issued(d, p, Home(c))
  BY <1>3 DEF WrittenBy
<1>. QED
  BY <1>3, <1>4, <1>5 DEF HoldsLast, p

\* A place that is written to is to hold what is written.
LEMMA PutWrites ==
  ASSUME NEW d, NEW mem, NEW q, WorkOK(d, mem, q), NEW s \in Act!Streams, NEW w \in WorkOf(s),
         Writing(w), w.to \in DOMAIN mem
  PROVE  HoldsLast(d, mem, Act!Put(q, s, w), w.to, w.of)
<1> DEFINE p == Act!Put(q, s, w)
           N == Issued(d, q, s) + 1
<1>1. /\ WorkOK(d, mem, p) /\ Issued(d, p, s) = N
      /\ N \in Pending(d, p, s) /\ N \in Nat /\ Nth(d, p, s, N) = w
  BY PutView
<1>. HIDE DEF p, N
<1>2. Home(w.to) = s
  BY WorkShape
<1>3. d[s] \in Nat /\ d[s] < N /\ \A k \in Pending(d, p, s) : k \in Nat /\ k <= N
  BY <1>1, WorkTyped
<1>4. WritesTo(d, p, N, w.to)
  BY <1>1, <1>2 DEF WritesTo
<1>5. WrittenBy(d, mem, p, w.to, w.of, N)
  <2>1. N \in 0..Issued(d, p, s) /\ ~(N <= d[s])
    BY <1>1, <1>3
  <2>. QED
    BY <2>1, <1>1, <1>2, <1>4 DEF WrittenBy
<1>6. \A k \in Pending(d, p, s) : ~(k > N)
  <2>1. SUFFICES ASSUME NEW k \in Pending(d, p, s) PROVE ~(k > N)
    OBVIOUS
  <2>2. k \in Nat /\ k <= N /\ N \in Nat
    BY <1>1, <1>3
  <2>. QED
    BY <2>2
<1>7. N \in 0..Issued(d, p, s)
  BY <1>1
<1>. QED
  BY <1>2, <1>5, <1>6, <1>7 DEF HoldsLast, p

\* Copies out and in stay over or under way, and new ones are among those.
LEMMA PutSettled ==
  ASSUME NEW d, NEW mem, NEW q, WorkOK(d, mem, q), NEW s \in Act!Streams, NEW w \in WorkOf(s),
         Writing(w) => w.to \in DOMAIN mem, NEW kept, NEW flying,
         s = "d2h" /\ Reading(w) => w.from \in kept,
         s = "h2d" /\ Reading(w) => w.of \in flying
  PROVE  /\ Settled(d, q, kept) => Settled(d, Act!Put(q, s, w), kept)
         /\ Arrived(d, q, flying) => Arrived(d, Act!Put(q, s, w), flying)
<1> DEFINE p == Act!Put(q, s, w)
           N == Issued(d, q, s) + 1
           I == Issued(d, q, "compute") + 1
           J == Issued(d, p, "compute") + 1
<1>1. /\ WorkOK(d, mem, p) /\ Grows(d, q, p)
      /\ \A t \in Act!Streams : \A n \in Pending(d, p, t) : n \in Pending(d, q, t) \/ (t = s /\ n = N)
      /\ Nth(d, p, s, N) = w
  BY PutView
<1>2. "compute" \in Act!Streams /\ "d2h" \in Act!Streams /\ "h2d" \in Act!Streams
  BY DEF Act!Streams
<1>. HIDE DEF p, N
<1>3. I \in Nat /\ J \in Nat /\ I <= J
  <2>1. Issued(d, q, "compute") \in Nat /\ Issued(d, p, "compute") \in Nat
        /\ Issued(d, q, "compute") <= Issued(d, p, "compute")
    BY <1>1, <1>2, WorkTyped DEF Grows
  <2>. QED
    BY <2>1
<1>. HIDE DEF I, J
<1>4. ASSUME NEW t \in Act!Streams, NEW n \in Pending(d, q, t)
      PROVE  /\ Nth(d, p, t, n) = Nth(d, q, t, n)
             /\ First(d, q, "compute", I, t, n) => First(d, p, "compute", J, t, n)
  <2>1. Nth(d, p, t, n) = Nth(d, q, t, n)
    BY <1>1 DEF Grows
  <2>2. n \in Nat
    BY WorkTyped
  <2>3. First(d, q, "compute", I, t, n) => First(d, p, "compute", I, t, n)
    BY <1>1, <1>2, GrowsFirst
  <2>. QED
    BY <2>1, <2>2, <2>3, <1>1, <1>2, <1>3, FirstLater
<1>5. ASSUME Settled(d, q, kept), NEW n \in Pending(d, p, "d2h"), Reading(Nth(d, p, "d2h", n))
      PROVE  First(d, p, "compute", J, "d2h", n) \/ Nth(d, p, "d2h", n).from \in kept
  <2>1. CASE n \in Pending(d, q, "d2h")
    <3>1. First(d, q, "compute", I, "d2h", n) \/ Nth(d, q, "d2h", n).from \in kept
      BY <2>1, <1>2, <1>4, <1>5 DEF Settled, I
    <3>. QED
      BY <3>1, <2>1, <1>2, <1>4
  <2>2. CASE s = "d2h" /\ n = N
    BY <2>2, <1>1, <1>5
  <2>. QED
    BY <2>1, <2>2, <1>1, <1>2
<1>6. ASSUME Arrived(d, q, flying), NEW n \in Pending(d, p, "h2d"), Reading(Nth(d, p, "h2d", n))
      PROVE  First(d, p, "compute", J, "h2d", n) \/ Nth(d, p, "h2d", n).of \in flying
  <2>1. CASE n \in Pending(d, q, "h2d")
    <3>1. First(d, q, "compute", I, "h2d", n) \/ Nth(d, q, "h2d", n).of \in flying
      BY <2>1, <1>2, <1>4, <1>6 DEF Arrived, I
    <3>. QED
      BY <3>1, <2>1, <1>2, <1>4
  <2>2. CASE s = "h2d" /\ n = N
    BY <2>2, <1>1, <1>6
  <2>. QED
    BY <2>1, <2>2, <1>1, <1>2
<1>. QED
  BY <1>5, <1>6 DEF Settled, Arrived, p, J

\* A wait disturbs nothing.
LEMMA PutWait ==
  ASSUME NEW d, NEW mem, NEW q, NEW kept, NEW flying, NEW live,
         StreamsInv(d, mem, q, kept, flying, live), Homed(live),
         NEW s \in Act!Streams, NEW w \in WaitWork
  PROVE  StreamsInv(d, mem, Act!Put(q, s, w), kept, flying, live)
<1>1. WorkOK(d, mem, q) /\ FindsAll(d, mem, q) /\ Settled(d, q, kept) /\ Arrived(d, q, flying)
      /\ HoldsAll(d, mem, q, live)
  BY DEF StreamsInv
<1>2. w \in WorkOf(s) /\ ~Reading(w) /\ ~Writing(w)
  BY DEF WorkOf, WaitWork, Reading, Writing
<1>3. WorkOK(d, mem, Act!Put(q, s, w))
  BY <1>1, <1>2, PutView
<1>4. FindsAll(d, mem, Act!Put(q, s, w))
  BY <1>1, <1>2, PutFinds
<1>5. Settled(d, Act!Put(q, s, w), kept) /\ Arrived(d, Act!Put(q, s, w), flying)
  BY <1>1, <1>2, PutSettled
<1>6. HoldsAll(d, mem, Act!Put(q, s, w), live)
  BY <1>1, <1>2, PutHolds DEF HoldsAll, Homed
<1>. QED
  BY <1>3, <1>4, <1>5, <1>6 DEF StreamsInv

\* The work of wait_stream.
LEMMA WaitIsWork ==
  ASSUME NEW d, NEW mem, NEW q, WorkOK(d, mem, q), NEW t \in Act!Streams
  PROVE  [op |-> "wait", on |-> t, for |-> Issued(d, q, t)] \in WaitWork
BY WorkTyped DEF WaitWork

\* A computation that waits for the copies has them over.
LEMMA WaitSettles ==
  ASSUME NEW d, NEW mem, NEW q, WorkOK(d, mem, q), NEW t \in {"d2h", "h2d"},
         NEW p, p = Act!Put(q, "compute", [op |-> "wait", on |-> t, for |-> Issued(d, q, t)])
  PROVE  /\ t = "d2h" => Settled(d, p, {})
         /\ t = "h2d" => Arrived(d, p, {})
<1> DEFINE w == [op |-> "wait", on |-> t, for |-> Issued(d, q, t)]
           N == Issued(d, q, "compute") + 1
<1>1. "compute" \in Act!Streams /\ t \in Act!Streams /\ t # "compute" /\ w \in WorkOf("compute")
  BY WaitIsWork DEF Act!Streams, WorkOf
<1>2. w.op = "wait" /\ w.on = t /\ w.for = Issued(d, q, t) /\ ~Writing(w)
  BY DEF Writing
<1>. HIDE DEF w
<1>3. p = Act!Put(q, "compute", w)
  BY DEF w
<1>4. /\ WorkOK(d, mem, p) /\ Issued(d, p, "compute") = N /\ Issued(d, p, t) = Issued(d, q, t)
      /\ N \in Pending(d, p, "compute") /\ N \in Nat /\ Nth(d, p, "compute", N) = w
  <2> HIDE DEF N
  <2>1. Issued(d, q, "compute") + 1 = N
    BY DEF N
  <2>. QED
    BY <2>1, <1>1, <1>2, <1>3, PutView
<1>. HIDE DEF N
<1>5. N < Issued(d, p, "compute") + 1
  BY <1>4
<1>6. ASSUME NEW n \in Pending(d, p, t)
      PROVE  First(d, p, "compute", Issued(d, p, "compute") + 1, t, n)
  <2>1. n <= w.for
    BY <1>1, <1>2, <1>4, WorkTyped
  <2>. QED
    BY <2>1, <1>2, <1>4, <1>5 DEF First
<1>. QED
  BY <1>6 DEF Settled, Arrived

\* What is known may be less.
LEMMA KnownLess ==
  ASSUME NEW d, NEW mem, NEW q, NEW kept, NEW flying, NEW live, NEW more, NEW above, NEW less,
         StreamsInv(d, mem, q, kept, flying, live),
         kept \subseteq more, flying \subseteq above, less \subseteq live
  PROVE  StreamsInv(d, mem, q, more, above, less)
BY DEF StreamsInv, Settled, Arrived, HoldsAll

-----------------------------------------------------------------------------
\* The next work of s, a stream of copies, begins after work m of the computation,
\* and so after all that reads there, and all the copies of the other stream o.
Follows(d, q, s, o, m) ==
  /\ m \in 0..Issued(d, q, "compute")
  /\ First(d, q, s, Issued(d, q, s) + 1, "compute", m)
  /\ \A n \in Pending(d, q, o) : Reading(Nth(d, q, o, n)) => First(d, q, "compute", m + 1, o, n)
  /\ \A k \in Pending(d, q, "compute") : k > m => Nth(d, q, "compute", k).op = "wait"

\* A stream that waits for the computation follows all of its work.
LEMMA FollowStarts ==
  ASSUME NEW d, NEW mem, NEW q, WorkOK(d, mem, q),
         NEW s \in {"d2h", "h2d"}, NEW o \in {"d2h", "h2d"}, s # o,
         o = "d2h" => Settled(d, q, {}), o = "h2d" => Arrived(d, q, {}),
         NEW p, p = Act!Put(q, s, [op |-> "wait", on |-> "compute", for |-> Issued(d, q, "compute")])
  PROVE  Follows(d, p, s, o, Issued(d, q, "compute"))
<1> DEFINE w == [op |-> "wait", on |-> "compute", for |-> Issued(d, q, "compute")]
           N == Issued(d, q, s) + 1
           I == Issued(d, q, "compute")
<1>1. /\ "compute" \in Act!Streams /\ s \in Act!Streams /\ o \in Act!Streams /\ s # "compute" /\ o # "compute"
      /\ w \in WorkOf(s)
  BY WaitIsWork DEF Act!Streams, WorkOf
<1>2. w.op = "wait" /\ w.on = "compute" /\ w.for = I /\ ~Writing(w)
  BY DEF Writing
<1>2a. p = Act!Put(q, s, w)
  OBVIOUS
<1>. HIDE DEF w
<1>3. /\ WorkOK(d, mem, p) /\ Grows(d, q, p) /\ Issued(d, p, s) = N
      /\ \A t \in Act!Streams : t # s => Issued(d, p, t) = Issued(d, q, t)
      /\ \A t \in Act!Streams : t # s => \A n \in Pending(d, p, t) : n \in Pending(d, q, t)
      /\ N \in Pending(d, p, s) /\ N \in Nat /\ Nth(d, p, s, N) = w
  <2> HIDE DEF N, I
  <2>1. WorkOK(d, mem, Act!Put(q, s, w)) /\ Grows(d, q, Act!Put(q, s, w))
    BY <1>1, <1>2, PutView
  <2>2. \A t \in Act!Streams : Issued(d, Act!Put(q, s, w), t) = IF t = s THEN N ELSE Issued(d, q, t)
    BY <1>1, <1>2, PutView DEF N
  <2>3. \A t \in Act!Streams : t # s => \A n \in Pending(d, Act!Put(q, s, w), t) : n \in Pending(d, q, t)
    BY <1>1, <1>2, PutView
  <2>4. N \in Pending(d, Act!Put(q, s, w), s) /\ N \in Nat /\ Nth(d, Act!Put(q, s, w), s, N) = w
    BY <1>1, <1>2, PutView DEF N
  <2>. QED
    BY <2>1, <2>2, <2>3, <2>4, <1>1, <1>2a
<1>. HIDE DEF N
<1>4. I \in Nat /\ Issued(d, p, "compute") = I
  BY <1>1, <1>3, WorkTyped
<1>5. First(d, p, s, Issued(d, p, s) + 1, "compute", I)
  <2>1. N < Issued(d, p, s) + 1 /\ I <= w.for
    BY <1>2, <1>3, <1>4
  <2>. QED
    BY <2>1, <1>2, <1>3 DEF First
<1>6. ASSUME NEW n \in Pending(d, p, o), Reading(Nth(d, p, o, n))
      PROVE  First(d, p, "compute", I + 1, o, n)
  <2>1. n \in Pending(d, q, o) /\ Nth(d, p, o, n) = Nth(d, q, o, n)
    BY <1>1, <1>3 DEF Grows
  <2>2. First(d, q, "compute", I + 1, o, n)
    BY <2>1, <1>6 DEF Settled, Arrived
  <2>. QED
    BY <2>2, <1>1, <1>3, GrowsFirst
<1>7. \A k \in Pending(d, p, "compute") : ~(k > I)
  BY <1>1, <1>3, <1>4, WorkTyped
<1>8. I \in 0..Issued(d, p, "compute")
  BY <1>4
<1>. QED
  BY <1>5, <1>6, <1>7, <1>8 DEF Follows

\* It goes on to if the computation is given a wait.
LEMMA FollowStays ==
  ASSUME NEW d, NEW mem, NEW q, WorkOK(d, mem, q),
         NEW s \in {"d2h", "h2d"}, NEW o \in {"d2h", "h2d"}, NEW m,
         Follows(d, q, s, o, m), NEW w \in WaitWork, NEW p, p = Act!Put(q, "compute", w)
  PROVE  Follows(d, p, s, o, m)
<1> DEFINE N == Issued(d, q, "compute") + 1
<1>1. /\ "compute" \in Act!Streams /\ s \in Act!Streams /\ o \in Act!Streams /\ s # "compute" /\ o # "compute"
      /\ w \in WorkOf("compute") /\ w.op = "wait" /\ ~Writing(w)
  BY DEF Act!Streams, WorkOf, WaitWork, Writing
<1>3. /\ WorkOK(d, mem, p) /\ Grows(d, q, p) /\ Issued(d, p, "compute") = N
      /\ Issued(d, p, s) = Issued(d, q, s)
      /\ \A n \in Pending(d, p, o) : n \in Pending(d, q, o)
      /\ \A n \in Pending(d, p, "compute") : n \in Pending(d, q, "compute") \/ n = N
      /\ N \in Nat /\ Nth(d, p, "compute", N) = w
  BY <1>1, PutView
<1>4. Issued(d, q, "compute") \in Nat
  BY <1>1, WorkTyped
<1>5. m \in 0..Issued(d, p, "compute")
  BY <1>3, <1>4 DEF Follows
<1>. HIDE DEF N
<1>6. First(d, p, s, Issued(d, p, s) + 1, "compute", m)
  BY <1>1, <1>3, GrowsFirst DEF Follows
<1>7. ASSUME NEW n \in Pending(d, p, o), Reading(Nth(d, p, o, n))
      PROVE  First(d, p, "compute", m + 1, o, n)
  <2>1. n \in Pending(d, q, o) /\ Nth(d, p, o, n) = Nth(d, q, o, n)
    BY <1>1, <1>3 DEF Grows
  <2>2. First(d, q, "compute", m + 1, o, n)
    BY <2>1, <1>7 DEF Follows
  <2>. QED
    BY <2>2, <1>1, <1>3, GrowsFirst
<1>8. ASSUME NEW k \in Pending(d, p, "compute"), k > m PROVE Nth(d, p, "compute", k).op = "wait"
  <2>1. CASE k \in Pending(d, q, "compute")
    BY <2>1, <1>1, <1>3, <1>8 DEF Follows, Grows
  <2>2. CASE k = N
    BY <2>2, <1>1, <1>3
  <2>. QED
    BY <2>1, <2>2, <1>3
<1>. QED
  BY <1>5, <1>6, <1>7, <1>8 DEF Follows

\* Such a stream may be given a copy of what is to be there.
LEMMA CopyFinds ==
  ASSUME NEW d, NEW mem, NEW q, WorkOK(d, mem, q), FindsAll(d, mem, q),
         NEW s \in {"d2h", "h2d"}, NEW o \in {"d2h", "h2d"}, s # o,
         NEW w \in WorkOf(s), w.op = "copy", w.to \in DOMAIN mem,
         NEW m, Follows(d, q, s, o, m), HoldsLast(d, mem, q, w.from, w.of),
         NEW p, p = Act!Put(q, s, w)
  PROVE  FindsAll(d, mem, p)
<1> DEFINE N == Issued(d, q, s) + 1
<1>1. "compute" \in Act!Streams /\ s \in Act!Streams /\ o \in Act!Streams
      /\ \A t \in Act!Streams : t = s \/ t = o \/ t = "compute"
  BY DEF Act!Streams
<1>2. Writing(w) /\ Reading(w) /\ Home(w.to) = s /\ Home(w.from) \in Act!Streams /\ Home(w.from) # s
  BY <1>1, WorkShape DEF Writing, Reading
<1>3. /\ WorkOK(d, mem, p) /\ Grows(d, q, p)
      /\ \A t \in Act!Streams : t # s => \A n \in Pending(d, p, t) : n \in Pending(d, q, t)
      /\ Nth(d, p, s, N) = w
  BY <1>1, PutView
<1>. HIDE DEF N
<1>4. m \in Nat /\ First(d, q, s, N, "compute", m) /\ m \in 0..Issued(d, q, "compute")
  BY <1>1, WorkTyped DEF Follows, N
<1>5. ASSUME NEW t \in Act!Streams, t # s, NEW n \in Pending(d, q, t),
             Reading(Nth(d, q, t, n)) \/ Writing(Nth(d, q, t, n))
      PROVE  Ahead(d, p, s, N, t, n)
  <2>1. n \in Nat /\ Nth(d, q, t, n) \in WorkOf(t)
    BY WorkTyped
  <2>2. CASE t = "compute"
    <3>1. n <= m
      <4>1. Nth(d, q, t, n).op # "wait"
        BY <1>5 DEF Reading, Writing
      <4>2. ~(n > m)
        BY <4>1, <2>2 DEF Follows
      <4>. QED
        BY <4>2, <2>1, <1>4
    <3>2. First(d, q, s, N, t, n)
      <4>1. CASE m <= d[t]
        <5>1. d[t] \in Nat
          BY WorkTyped
        <5>. QED
          BY <5>1, <4>1, <3>1, <2>1, <1>4 DEF First
      <4>2. ASSUME NEW k \in Pending(d, q, s), k < N, Nth(d, q, s, k).op = "wait",
                   Nth(d, q, s, k).on = t, m <= Nth(d, q, s, k).for
            PROVE  First(d, q, s, N, t, n)
        <5>1. Nth(d, q, s, k).for \in Nat
          BY <4>2, <1>1, WorkTyped, WorkShape
        <5>2. n <= Nth(d, q, s, k).for
          BY <5>1, <4>2, <3>1, <2>1, <1>4
        <5>. QED
          BY <5>2, <4>2 DEF First
      <4>. QED
        BY <4>1, <4>2, <2>2, <1>4, <1>5 DEF First
    <3>3. Ahead(d, q, s, N, t, n)
      BY <3>2 DEF Ahead
    <3>. QED
      BY <3>3, <1>1, <1>3, GrowsAhead
  <2>3. CASE t = o
    <3>1. Nth(d, q, t, n).op \in {"wait", "copy"}
      BY <2>1, <2>3, WorkShape
    <3>2. Reading(Nth(d, q, t, n))
      BY <3>1, <1>5 DEF Reading, Writing
    <3>3. First(d, q, "compute", m + 1, t, n)
      BY <3>2, <2>3 DEF Follows
    <3>4. Ahead(d, q, s, N, t, n)
      BY <3>3, <1>1, <1>4 DEF Ahead
    <3>. QED
      BY <3>4, <1>1, <1>3, GrowsAhead
  <2>. QED
    BY <2>2, <2>3, <1>1, <1>5
<1>6. ASSUME NEW t \in Act!Streams, NEW n \in Pending(d, q, t),
             Reading(Nth(d, q, t, n)), Nth(d, q, t, n).from = w.to
      PROVE  Ahead(d, p, s, N, t, n)
  <2>1. Nth(d, q, t, n) \in WorkOf(t)
    BY WorkTyped
  <2>2. t # s
    <3> SUFFICES ASSUME t = s PROVE FALSE
      OBVIOUS
    <3>1. Nth(d, q, t, n).op = "copy"
      BY <2>1, <1>1, <1>6, WorkShape DEF Reading
    <3>2. Home(Nth(d, q, t, n).from) # s
      BY <2>1, <3>1, <1>1, WorkShape
    <3>. QED
      BY <3>2, <1>2, <1>6
  <2>. QED
    BY <2>2, <1>5, <1>6
<1>7. Finds(d, mem, p, s, N)
  <2> DEFINE h == Home(w.from)
  <2>1. PICK l \in 0..Issued(d, q, h) :
          /\ WrittenBy(d, mem, q, w.from, w.of, l)
          /\ \A k \in Pending(d, q, h) : k > l => ~WritesTo(d, q, k, w.from)
    BY DEF HoldsLast
  <2>2. WrittenBy(d, mem, p, w.from, w.of, l)
    BY <2>1, <1>2, <1>3, GrowsWritten
  <2>3. Ahead(d, p, s, N, h, l)
    <3>1. CASE l <= d[h]
      BY <3>1 DEF Ahead, First
    <3>2. CASE l > d[h]
      <4>1. l \in Pending(d, q, h) /\ Writing(Nth(d, q, h, l))
        BY <3>2, <2>1 DEF WrittenBy, WritesTo
      <4>. QED
        BY <4>1, <1>2, <1>5
    <3>3. l \in Nat /\ d[h] \in Nat
      BY <2>1, <1>2, WorkTyped
    <3>. QED
      BY <3>1, <3>2, <3>3
  <2>4. ASSUME NEW k \in Pending(d, p, h), k > l PROVE ~WritesTo(d, p, k, w.from)
    <3>1. k \in Pending(d, q, h) /\ Nth(d, p, h, k) = Nth(d, q, h, k)
      BY <1>2, <1>3 DEF Grows
    <3>2. ~WritesTo(d, q, k, w.from)
      BY <3>1, <2>1, <2>4
    <3>. QED
      BY <3>1, <3>2 DEF WritesTo
  <2>5. l \in 0..Issued(d, p, h)
    BY <2>2 DEF WrittenBy
  <2>. QED
    BY <2>2, <2>3, <2>4, <2>5, <1>3 DEF Finds
<1>. QED
  BY <1>1, <1>6, <1>7, PutFinds DEF N

\* What is known once another place is written to.
Placed(live, c, v) == {h \in live : h[1] # c} \cup {<<c, v>>}

\* What is written last is there in the end, and the rest stays.
LEMMA PutPlaced ==
  ASSUME NEW d, NEW mem, NEW q, NEW live, WorkOK(d, mem, q), HoldsAll(d, mem, q, live), Homed(live),
         NEW s \in Act!Streams, NEW w \in WorkOf(s), Writing(w), w.to \in DOMAIN mem
  PROVE  HoldsAll(d, mem, Act!Put(q, s, w), Placed(live, w.to, w.of)) /\ Homed(Placed(live, w.to, w.of))
<1>1. HoldsLast(d, mem, Act!Put(q, s, w), w.to, w.of) /\ Home(w.to) \in Act!Streams
  BY PutWrites, WorkShape
<1>2. ASSUME NEW h \in live, h[1] # w.to PROVE HoldsLast(d, mem, Act!Put(q, s, w), h[1], h[2])
  BY <1>2, PutHolds DEF HoldsAll, Homed
<1>. QED
  BY <1>1, <1>2 DEF HoldsAll, Homed, Placed

\* A copy of what is there keeps the invariant of the streams.
LEMMA PutCopy ==
  ASSUME NEW d, NEW mem, NEW q, NEW kept, NEW flying, NEW live,
         StreamsInv(d, mem, q, kept, flying, live), Homed(live),
         NEW s \in {"d2h", "h2d"}, NEW o \in {"d2h", "h2d"}, s # o,
         NEW w \in WorkOf(s), w.op = "copy", w.to \in DOMAIN mem,
         NEW m, Follows(d, q, s, o, m), <<w.from, w.of>> \in live,
         s = "d2h" => w.from \in kept, s = "h2d" => w.of \in flying
  PROVE  /\ StreamsInv(d, mem, Act!Put(q, s, w), kept, flying, Placed(live, w.to, w.of))
         /\ Homed(Placed(live, w.to, w.of))
<1>1. WorkOK(d, mem, q) /\ FindsAll(d, mem, q) /\ Settled(d, q, kept) /\ Arrived(d, q, flying)
      /\ HoldsAll(d, mem, q, live)
  BY DEF StreamsInv
<1>2. s \in Act!Streams /\ Writing(w) /\ Reading(w)
  BY DEF Act!Streams, Writing, Reading
<1>3. HoldsLast(d, mem, q, w.from, w.of)
  <2>1. HoldsLast(d, mem, q, <<w.from, w.of>>[1], <<w.from, w.of>>[2])
    BY <1>1 DEF HoldsAll
  <2>. QED
    BY <2>1
<1>4. WorkOK(d, mem, Act!Put(q, s, w))
  BY <1>1, <1>2, PutView
<1>5. FindsAll(d, mem, Act!Put(q, s, w))
  BY <1>1, <1>3, CopyFinds
<1>6. Settled(d, Act!Put(q, s, w), kept) /\ Arrived(d, Act!Put(q, s, w), flying)
  BY <1>1, <1>2, PutSettled
<1>7. HoldsAll(d, mem, Act!Put(q, s, w), Placed(live, w.to, w.of)) /\ Homed(Placed(live, w.to, w.of))
  BY <1>1, <1>2, PutPlaced
<1>. QED
  BY <1>4, <1>5, <1>6, <1>7 DEF StreamsInv

\* The computation may write over what nobody keeps.
LEMMA PutWrite ==
  ASSUME NEW d, NEW mem, NEW q, NEW kept, NEW flying, NEW live,
         StreamsInv(d, mem, q, kept, flying, live), Homed(live),
         NEW w \in WorkOf("compute"), w.op = "write", w.to \in DOMAIN mem,
         w.to \notin kept
  PROVE  /\ StreamsInv(d, mem, Act!Put(q, "compute", w), kept, flying, Placed(live, w.to, w.of))
         /\ Homed(Placed(live, w.to, w.of))
<1> DEFINE p == Act!Put(q, "compute", w)
           N == Issued(d, q, "compute") + 1
<1>1. WorkOK(d, mem, q) /\ FindsAll(d, mem, q) /\ Settled(d, q, kept) /\ Arrived(d, q, flying)
      /\ HoldsAll(d, mem, q, live)
  BY DEF StreamsInv
<1>2. "compute" \in Act!Streams /\ Writing(w) /\ ~Reading(w)
  BY DEF Act!Streams, Writing, Reading
<1>3. Home(w.to) = "compute"
  BY <1>2, WorkShape
<1>4. WorkOK(d, mem, p) /\ Grows(d, q, p)
  BY <1>1, <1>2, PutView
<1>. HIDE DEF p
<1>5. ASSUME NEW t \in Act!Streams, NEW n \in Pending(d, q, t),
             Reading(Nth(d, q, t, n)), Nth(d, q, t, n).from = w.to
      PROVE  Ahead(d, p, "compute", N, t, n)
  <2>1. Nth(d, q, t, n) \in WorkOf(t)
    BY <1>1, WorkTyped
  <2>2. CASE t = "compute"
    <3>1. n < N
      BY <2>2, <1>1, <1>2, WorkTyped
    <3>. QED
      BY <3>1, <2>2 DEF Ahead, First
  <2>3. CASE t = "d2h"
    <3>1. First(d, q, "compute", N, "d2h", n)
      BY <2>3, <1>1, <1>5 DEF Settled
    <3>2. First(d, p, "compute", N, "d2h", n)
      BY <3>1, <1>2, <1>4, GrowsFirst
    <3>. QED
      BY <3>2, <2>3 DEF Ahead
  <2>4. CASE t = "h2d"
    <3>1. Nth(d, q, t, n).op = "copy"
      BY <2>1, <2>4, <1>5, WorkShape DEF Reading
    <3>2. Nth(d, q, t, n).from \in CpuPlace
      BY <2>1, <2>4, <3>1, WorkShape
    <3>3. Home(Nth(d, q, t, n).from) = "d2h"
      BY <3>2 DEF CpuPlace, Home
    <3>. QED
      BY <3>3, <1>3, <1>5
  <2>. QED
    BY <2>2, <2>3, <2>4 DEF Act!Streams
<1>. HIDE DEF N
<1>6. FindsAll(d, mem, p)
  BY <1>1, <1>2, <1>5, PutFinds DEF N, p
<1>7. Settled(d, p, kept) /\ Arrived(d, p, flying)
  BY <1>1, <1>2, PutSettled DEF p
<1>8. HoldsAll(d, mem, p, Placed(live, w.to, w.of)) /\ Homed(Placed(live, w.to, w.of))
  BY <1>1, <1>2, PutPlaced DEF p
<1>. QED
  BY <1>4, <1>6, <1>7, <1>8 DEF StreamsInv, p

\* It may read what is to be there and not under way.
LEMMA PutRead ==
  ASSUME NEW d, NEW mem, NEW q, NEW kept, NEW flying, NEW live,
         StreamsInv(d, mem, q, kept, flying, live), Homed(live),
         NEW w \in WorkOf("compute"), w.op = "read",
         <<w.from, w.of>> \in live, w.of \notin flying
  PROVE  StreamsInv(d, mem, Act!Put(q, "compute", w), kept, flying, live)
<1> DEFINE p == Act!Put(q, "compute", w)
           N == Issued(d, q, "compute") + 1
           h == Home(w.from)
<1>1. WorkOK(d, mem, q) /\ FindsAll(d, mem, q) /\ Settled(d, q, kept) /\ Arrived(d, q, flying)
      /\ HoldsAll(d, mem, q, live)
  BY DEF StreamsInv
<1>2. "compute" \in Act!Streams /\ ~Writing(w) /\ Reading(w)
  BY DEF Act!Streams, Writing, Reading
<1>3. h \in {"compute", "h2d"} /\ h \in Act!Streams
  <2>1. w.from \in BlocksOf("compute") \cup BlocksOf("h2d")
    BY <1>2, WorkShape
  <2>. QED
    BY <2>1 DEF BlocksOf, Home, Act!Streams
<1>4. /\ WorkOK(d, mem, p) /\ Grows(d, q, p)
      /\ \A t \in Act!Streams : \A n \in Pending(d, p, t) : n \in Pending(d, q, t) \/ (t = "compute" /\ n = N)
      /\ Nth(d, p, "compute", N) = w
  BY <1>1, <1>2, PutView
<1>. HIDE DEF p
<1>5. PICK l \in 0..Issued(d, q, h) :
        /\ WrittenBy(d, mem, q, w.from, w.of, l)
        /\ \A k \in Pending(d, q, h) : k > l => ~WritesTo(d, q, k, w.from)
  <2>1. HoldsLast(d, mem, q, <<w.from, w.of>>[1], <<w.from, w.of>>[2])
    BY <1>1 DEF HoldsAll
  <2>. QED
    BY <2>1 DEF HoldsLast
<1>6. First(d, q, "compute", N, h, l)
  <2>1. CASE h = "compute"
    <3>1. l < N
      BY <2>1, <1>1, <1>2, <1>5, WorkTyped
    <3>. QED
      BY <3>1, <2>1 DEF First
  <2>2. CASE h = "h2d" /\ l > d[h]
    <3>1. WritesTo(d, q, l, w.from) /\ Nth(d, q, h, l).of = w.of
      BY <2>2, <1>5 DEF WrittenBy
    <3>2. l \in Pending(d, q, h) /\ Writing(Nth(d, q, h, l))
      BY <3>1 DEF WritesTo
    <3>3. Nth(d, q, h, l).op \in {"wait", "copy"}
      BY <3>2, <2>2, <1>1, <1>3, WorkTyped, WorkShape
    <3>4. Reading(Nth(d, q, h, l))
      BY <3>2, <3>3 DEF Reading, Writing
    <3>. QED
      BY <3>1, <3>2, <3>4, <2>2, <1>1 DEF Arrived
  <2>3. CASE l <= d[h]
    BY <2>3 DEF First
  <2>4. l \in Nat /\ d[h] \in Nat
    BY <1>1, <1>3, <1>5, WorkTyped
  <2>. QED
    BY <2>1, <2>2, <2>3, <2>4, <1>3
<1>. HIDE DEF N
<1>7. Finds(d, mem, p, "compute", N)
  <2>1. WrittenBy(d, mem, p, w.from, w.of, l)
    BY <1>1, <1>3, <1>4, <1>5, GrowsWritten
  <2>2. Ahead(d, p, "compute", N, h, l)
    BY <1>2, <1>4, <1>6, GrowsFirst DEF Ahead
  <2>3. ASSUME NEW k \in Pending(d, p, h), k > l PROVE ~WritesTo(d, p, k, w.from)
    <3>1. CASE k \in Pending(d, q, h)
      <4>1. ~WritesTo(d, q, k, w.from) /\ Nth(d, p, h, k) = Nth(d, q, h, k)
        BY <3>1, <1>3, <1>4, <1>5, <2>3 DEF Grows
      <4>. QED
        BY <4>1, <3>1 DEF WritesTo
    <3>2. CASE h = "compute" /\ k = N
      BY <3>2, <1>2, <1>4 DEF WritesTo
    <3>. QED
      BY <3>1, <3>2, <1>3, <1>4
  <2>4. l \in 0..Issued(d, p, h)
    BY <2>1 DEF WrittenBy
  <2>. QED
    BY <2>1, <2>2, <2>3, <2>4, <1>4 DEF Finds
<1>8. FindsAll(d, mem, p)
  BY <1>1, <1>2, <1>7, PutFinds DEF N, p
<1>9. Settled(d, p, kept) /\ Arrived(d, p, flying)
  BY <1>1, <1>2, PutSettled DEF p
<1>10. HoldsAll(d, mem, p, live)
  BY <1>1, <1>2, PutHolds DEF HoldsAll, Homed, p
<1>. QED
  BY <1>4, <1>8, <1>9, <1>10 DEF StreamsInv, p

-----------------------------------------------------------------------------
\* A step of a stream keeps what is known: the host has seen nothing of it.
LEMMA PlacesAreHomed == Homed(Live)
<1>1. \A c \in Act!Device : Home(c) \in Act!Streams
  <2>1. ASSUME NEW c \in Act!Device PROVE c[1] \in {"compute", "h2d"}
    BY DEF Act!Device
  <2>. QED
    BY <2>1 DEF Home, Act!Streams
<1>2. \A g : Home(Act!Cpu(g)) = "d2h"
  BY DEF Home, Act!Cpu
<1>. QED
  BY <1>1, <1>2 DEF Homed, Live, Act!Streams

\* Every step of a stream keeps the invariant: work finds what it reads.
LEMMA WorkStep ==
  ASSUME ActInvariant, NEW s \in Act!Streams, Act!Work(s)
  PROVE  ActInvariant'
<1> DEFINE w == Nth(actDone, actQueue, s, actDone[s] + 1)
<1>1. /\ HostInv /\ DOMAIN actMemory = Act!Memory /\ ~actWrong
      /\ StreamsInv(actDone, actMemory, actQueue, Keeping, Flying, Live)
      /\ WorkOK(actDone, actMemory, actQueue) /\ FindsAll(actDone, actMemory, actQueue)
  BY DEF ActInvariant, StreamsInv
<1>2. /\ actQueue[s] # <<>> /\ actQueue' = [actQueue EXCEPT ![s] = Tail(@)]
      /\ actDone' = [actDone EXCEPT ![s] = @ + 1]
      /\ Head(actQueue[s]).op = "wait" => actDone[Head(actQueue[s]).on] >= Head(actQueue[s]).for
      /\ actMemory' = (CASE Head(actQueue[s]).op = "write" -> [actMemory EXCEPT ![Head(actQueue[s]).to] = Head(actQueue[s]).of]
                       [] Head(actQueue[s]).op = "copy" ->
                            [actMemory EXCEPT ![Head(actQueue[s]).to] = actMemory[Head(actQueue[s]).from]]
                       [] OTHER -> actMemory)
      /\ actWrong' = (actWrong \/ (Head(actQueue[s]).op = "read"
                                     /\ actMemory[Head(actQueue[s]).from] # Head(actQueue[s]).of))
      /\ UNCHANGED <<actSizes, actBatch, actPc, actLayer, actTag, Act!handler>>
  BY DEF Act!Work
<1>3. Head(actQueue[s]) = w /\ Does(actDone, actQueue, actDone', actQueue', s)
  BY <1>1, <1>2, DoneView
<1>4. w \in WorkOf(s) /\ actDone[s] + 1 \in Pending(actDone, actQueue, s)
  BY <1>1, <1>3, WorkTyped DEF Does
<1>. HIDE DEF w
<1>5. Waited(actDone, actQueue, s)
  <2>1. w.op = "wait" => w.for <= actDone[w.on]
    <3>1. SUFFICES ASSUME w.op = "wait" PROVE w.for <= actDone[w.on]
      OBVIOUS
    <3>2. w.for \in Nat /\ actDone[w.on] \in Nat /\ actDone[w.on] >= w.for
      BY <1>1, <1>2, <1>3, <1>4, <3>1, WorkShape, WorkTyped
    <3>. QED
      BY <3>2
  <2>. QED
    BY <2>1 DEF Waited, w
<1>6. Reading(w) => actMemory[w.from] = w.of
  BY <1>1, <1>4, HeadFinds DEF w
<1>7. w.op \in {"wait", "write", "read", "copy"} /\ (Writing(w) => w.to \in DOMAIN actMemory)
  BY <1>1, <1>4, WorkShape DEF WorkOK, w
<1>8. /\ actMemory' = IF Writing(w) THEN [actMemory EXCEPT ![w.to] = w.of] ELSE actMemory
      /\ ~actWrong'
  <2>1. CASE w.op = "write"
    BY <2>1, <1>1, <1>2, <1>3 DEF Writing
  <2>2. CASE w.op = "copy"
    BY <2>2, <1>1, <1>2, <1>3, <1>6 DEF Writing, Reading
  <2>3. CASE w.op = "read"
    BY <2>3, <1>1, <1>2, <1>3, <1>6 DEF Writing, Reading
  <2>4. CASE w.op = "wait"
    BY <2>4, <1>1, <1>2, <1>3 DEF Writing
  <2>. QED
    BY <2>1, <2>2, <2>3, <2>4, <1>7
<1>9. DOMAIN actMemory' = DOMAIN actMemory /\ After(actDone, actMemory, actQueue, s, actMemory')
  BY <1>7, <1>8 DEF After, w
<1>10. WorkOK(actDone', actMemory', actQueue')
  BY <1>1, <1>2, <1>9, DoneView
<1>11. StreamsInv(actDone', actMemory', actQueue', Keeping, Flying, Live)
  BY <1>1, <1>3, <1>5, <1>9, <1>10, WorkStays, PlacesAreHomed
<1>12. UNCHANGED <<actSizes, actBatch, actPc, actLayer, actTag, current_group, offloaded_group_count,
                   tensor_tag_to_state, tensor_tag_to_buf, group_offload_mapping>>
  BY <1>2 DEF Act!handler
<1>13. Keeping' = Keeping /\ Flying' = Flying /\ Live' = Live /\ Act!Memory' = Act!Memory
  BY <1>12 DEF Keeping, Flying, Delayed, Live, Act!Groups, Act!Layers, Act!Offload, Act!Device, Act!Memory, Act!Window, Back
<1>14. HostInv'
  BY <1>1, <1>12 DEF HostInv, Forwards, Backwards, Ends, Going, Back, Pushed, Delayed,
                     Act!Window, Act!Groups, Act!Layers, Act!Offload
<1>. QED
  BY <1>1, <1>8, <1>9, <1>11, <1>13, <1>14 DEF ActInvariant

-----------------------------------------------------------------------------
(***************************************************************************)
(* Windows.                                                                *)
(***************************************************************************)
\* Multiples of a number that is not 0 are as far apart as what is multiplied.
LEMMA Multiples ==
  ASSUME NEW a \in Nat, a >= 1, NEW x \in Nat, NEW y \in Nat, x <= y
  PROVE  a * x \in Nat /\ a * y \in Nat /\ a * y >= a * x + (y - x)
<1>1. a * x \in Nat /\ a * y \in Nat
  OBVIOUS
<1>2. PICK b \in Nat : a = b + 1
  <2>1. a - 1 \in Nat /\ a = (a - 1) + 1
    OBVIOUS
  <2>. QED
    BY <2>1
<1>3. PICK z \in Nat : y = x + z
  <2>1. y - x \in Nat /\ y = x + (y - x)
    OBVIOUS
  <2>. QED
    BY <2>1
<1>4. a * y = a * x + b * z + z
  BY <1>2, <1>3
<1>5. b * z \in Nat
  OBVIOUS
<1>. QED
  BY <1>1, <1>3, <1>4, <1>5

\* The sizes of a model that is run.
LEMMA SizesAre ==
  ASSUME actSizes \in ActSizes
  PROVE  Act!Layers \in Nat /\ Act!Offload \in Nat /\ 1 <= Act!Offload /\ Act!Offload <= Act!Layers /\ Act!Layers < ActBlocks
         /\ ActBlocks \in Nat
BY ActSizesAre DEF Act!ActivationOffloadAssumption, Act!Layers, Act!Offload

\* The layers are some for every copied one, and a rest.
LEMMA Quotients ==
  ASSUME actSizes \in ActSizes
  PROVE  /\ Act!Layers \div Act!Offload \in Nat /\ Act!Layers \div Act!Offload >= 1
         /\ Act!Layers % Act!Offload \in Nat /\ Act!Layers % Act!Offload < Act!Offload
         /\ Act!Layers = (Act!Layers \div Act!Offload) * Act!Offload + (Act!Layers % Act!Offload)
<1>1. ASSUME NEW l \in Nat, NEW o \in Nat, 1 <= o, o <= l
      PROVE  l \div o \in Nat /\ l \div o >= 1 /\ l % o \in Nat /\ l % o < o
             /\ l = (l \div o) * o + (l % o)
  <2>1. l \div o \in Int /\ l % o \in Nat /\ l % o < o /\ l = (l \div o) * o + (l % o)
    BY <1>1
  <2>2. l \div o >= 1
    BY <1>1
  <2>. QED
    BY <2>1, <2>2
<1>. QED
  BY <1>1, SizesAre

\* Later groups have later windows, the last of which is that of the last layer.
LEMMA Windows ==
  ASSUME actSizes \in ActSizes
  PROVE  /\ \A i \in 0..(Act!Offload - 1) : Act!Window(i) \in i..(Act!Layers - 1)
         /\ \A i, j \in 0..(Act!Offload - 1) : i < j => Act!Window(i) < Act!Window(j)
         /\ Act!Window(Act!Offload - 1) = Act!Layers - 1
<1> DEFINE a == Act!Layers \div Act!Offload
           r == Act!Layers % Act!Offload
           L == Act!Layers
           O == Act!Offload
           Rest(i) == IF i < r THEN i + 1 ELSE r
<1>1. /\ a \in Nat /\ a >= 1 /\ r \in Nat /\ r < O /\ L = a * O + r /\ O \in Nat /\ L \in Nat /\ O >= 1
  BY SizesAre, Quotients
<1>2. \A i : Act!Window(i) = a * (i + 1) - 1 + Rest(i)
  BY DEF Act!Window
<1>. HIDE DEF a, r, L, O
<1>3. ASSUME NEW x \in 1..O, NEW y \in 1..O, x <= y
      PROVE  a * x \in Nat /\ a * y \in Nat /\ a * y >= a * x + (y - x)
  <2>1. x \in Nat /\ y \in Nat
    BY <1>1
  <2>. QED
    BY <2>1, <1>1, <1>3, Multiples
<1>4. a * 1 = a /\ a * O \in Nat
  BY <1>1
<1>5. ASSUME NEW i \in 0..(O - 1) PROVE Act!Window(i) \in i..(L - 1)
  <2>1. i + 1 \in 1..O /\ 1 \in 1..O /\ O \in 1..O /\ i \in Nat
    BY <1>1
  <2>2. a * (i + 1) \in Nat /\ a * (i + 1) >= a * 1 + i
    BY <2>1, <1>3
  <2>3. a * O >= a * (i + 1)
    BY <2>1, <1>1, <1>3, <1>4
  <2>4. Rest(i) \in 0..r
    BY <2>1, <1>1
  <2>. HIDE DEF Rest
  <2>. DEFINE m == a * (i + 1)
              n == a * O
              w == Rest(i)
  <2>5. m \in Nat /\ n \in Nat /\ w \in 0..r /\ m >= a + i /\ n >= m /\ L = n + r /\ Act!Window(i) = m - 1 + w
    BY <2>2, <2>3, <2>4, <1>1, <1>2, <1>4
  <2>. HIDE DEF m, n, w
  <2>. QED
    BY <2>1, <2>5, <1>1
<1>6. ASSUME NEW i \in 0..(O - 1), NEW j \in 0..(O - 1), i < j PROVE Act!Window(i) < Act!Window(j)
  <2>1. i + 1 \in 1..O /\ j + 1 \in 1..O /\ i + 1 <= j + 1 /\ i \in Nat /\ j \in Nat
    BY <1>1, <1>6
  <2>2. a * (i + 1) \in Nat /\ a * (j + 1) \in Nat /\ a * (j + 1) >= a * (i + 1) + ((j + 1) - (i + 1))
    BY <2>1, <1>3
  <2>3. Rest(i) \in Nat /\ Rest(j) \in Nat /\ Rest(i) <= Rest(j)
    BY <2>1, <1>1, <1>6
  <2>. HIDE DEF Rest
  <2>. DEFINE m == a * (i + 1)
              n == a * (j + 1)
              v == Rest(i)
              w == Rest(j)
  <2>4. m \in Nat /\ n \in Nat /\ v \in Nat /\ w \in Nat /\ n >= m + ((j + 1) - (i + 1)) /\ v <= w
        /\ Act!Window(i) = m - 1 + v /\ Act!Window(j) = n - 1 + w
    BY <2>2, <2>3, <1>2
  <2>. HIDE DEF m, n, v, w
  <2>. QED
    BY <2>1, <2>4, <1>6
<1>7. Act!Window(O - 1) = L - 1
  <2>1. Act!Window(O - 1) = a * ((O - 1) + 1) - 1 + Rest(O - 1)
    BY <1>2
  <2>2. Rest(O - 1) = r /\ (O - 1) + 1 = O
    BY <1>1
  <2>. HIDE DEF Rest
  <2>3. Act!Window(O - 1) = a * O - 1 + r
    BY <2>1, <2>2
  <2>. QED
    BY <2>3, <1>1, <1>4
<1>. QED
  BY <1>5, <1>6, <1>7 DEF L, O

\* If one layer is not copied, a group's window ends with the next layer.
LEMMA ShortWindows ==
  ASSUME actSizes \in ActSizes, Act!Offload = Act!Layers - 1, NEW i \in 0..(Act!Offload - 1)
  PROVE  Act!Window(i) = i + 1
<1> DEFINE D == Act!Window(Act!Offload - 1) - (Act!Offload - 1)
<1>1. /\ Act!Offload \in Nat /\ Act!Offload >= 1 /\ Act!Layers = Act!Offload + 1
  BY SizesAre
<1>2. CASE Act!Offload = 1
  <2>1. i = 0 /\ Act!Window(0) = Act!Layers - 1
    BY <1>1, <1>2, Windows
  <2>. QED
    BY <2>1, <1>1, <1>2
<1>3. CASE Act!Offload > 1
  <2>1. ASSUME NEW o \in Nat, o > 1 PROVE (o + 1) \div o = 1 /\ (o + 1) % o = 1
    BY <2>1
  <2>2. Act!Layers \div Act!Offload = 1 /\ Act!Layers % Act!Offload = 1
    BY <2>1, <1>1, <1>3
  <2>3. Act!Window(i) = 1 * (i + 1) - 1 + (IF i < 1 THEN i + 1 ELSE 1)
    BY <2>2 DEF Act!Window
  <2>. QED
    BY <2>3, <1>1
<1>. QED
  BY <1>1, <1>2, <1>3

-----------------------------------------------------------------------------
(***************************************************************************)
(* Memory is never short: a group has at most one block of a stream.       *)
(***************************************************************************)
Refers(g, b) == tensor_tag_to_state[g] = b \/ tensor_tag_to_buf[g] = b
OneBlock(s) ==
  \A g \in Act!Groups : \A b, c \in BlocksOf(s) : Refers(g, b) /\ Refers(g, c) => b = c

\* So there is always a block to give.
LEMMA SomeFree ==
  ASSUME actSizes \in ActSizes, NEW s \in Act!Streams, OneBlock(s)
  PROVE  Act!Free(s) # {}
<1>1. SUFFICES ASSUME Act!Free(s) = {} PROVE FALSE
  OBVIOUS
<1> DEFINE f == [n \in 1..ActBlocks |-> CHOOSE g \in Act!Groups : Refers(g, <<s, n>>)]
<1>2. Act!Layers \in Nat /\ ActBlocks \in Nat /\ Act!Layers < ActBlocks
  BY SizesAre
<1>3. ASSUME NEW n \in 1..ActBlocks PROVE f[n] \in Act!Groups /\ Refers(f[n], <<s, n>>)
  <2>1. <<s, n>> \in {s} \X (1..ActBlocks)
    OBVIOUS
  <2>2. \E g \in Act!Groups : Refers(g, <<s, n>>)
    BY <1>1, <2>1 DEF Act!Free, Refers
  <2>. QED
    BY <2>2
<1>4. f \in [1..ActBlocks -> Act!Groups]
  BY <1>3
<1>. HIDE DEF f
<1>5. IsFiniteSet(1..ActBlocks) /\ Cardinality(1..ActBlocks) = ActBlocks
  <2>1. 1 \in Int /\ ActBlocks \in Int /\ ActBlocks - 1 + 1 = ActBlocks /\ ~(1 > ActBlocks)
    BY <1>2
  <2>. QED
    BY <2>1, FS_Interval
<1>6. IsFiniteSet(Act!Groups) /\ Cardinality(Act!Groups) = Act!Layers
  <2>1. 0 \in Int /\ Act!Layers - 1 \in Int /\ (Act!Layers - 1) - 0 + 1 = Act!Layers
    BY <1>2
  <2>2. CASE 0 > Act!Layers - 1
    <3>1. Act!Groups = {} /\ Act!Layers = 0
      BY <2>2, <1>2 DEF Act!Groups
    <3>. QED
      BY <3>1, FS_EmptySet
  <2>3. CASE ~(0 > Act!Layers - 1)
    BY <2>1, <2>3, FS_Interval DEF Act!Groups
  <2>. QED
    BY <2>2, <2>3
<1>7. \E m, n \in 1..ActBlocks : m # n /\ f[m] = f[n]
  BY <1>2, <1>4, <1>5, <1>6, FS_PigeonHole
<1>8. PICK m \in 1..ActBlocks, n \in 1..ActBlocks : m # n /\ f[m] = f[n]
  BY <1>7
<1>9. <<s, m>> \in BlocksOf(s) /\ <<s, n>> \in BlocksOf(s) /\ f[m] \in Act!Groups
  BY <1>4 DEF BlocksOf
<1>10. <<s, m>> = <<s, n>>
  BY <1>3, <1>8, <1>9 DEF OneBlock
<1>. QED
  BY <1>8, <1>10

\* A block that is given is free.
LEMMA GivenIsFree ==
  ASSUME actSizes \in ActSizes, NEW s \in Act!Streams, OneBlock(s)
  PROVE  /\ Act!Given(s) \in BlocksOf(s)
         /\ \A g \in Act!Groups : tensor_tag_to_state[g] # Act!Given(s) /\ tensor_tag_to_buf[g] # Act!Given(s)
<1> DEFINE S == {b[2] : b \in Act!Free(s)}
<1>1. Act!Free(s) # {} /\ \A b \in Act!Free(s) : b[2] \in Nat
  BY SomeFree DEF Act!Free
<1>2. PICK m \in S : \A x \in S : m <= x
  <2>1. S \in SUBSET Nat /\ S # {}
    BY <1>1
  <2>. HIDE DEF S
  <2>. QED
    BY <2>1, Least
<1>3. \E b \in Act!Free(s) : \A c \in Act!Free(s) : b[2] <= c[2]
  BY <1>2
<1>4. Act!Given(s) \in Act!Free(s)
  BY <1>3 DEF Act!Given
<1>. QED
  BY <1>4 DEF Act!Free, BlocksOf

-----------------------------------------------------------------------------
(***************************************************************************)
(* The host.                                                               *)
(***************************************************************************)
\* The places of a stream are not of another, nor of the CPU, nor None.
LEMMA PlacesDiffer ==
  /\ \A b \in BlocksOf("compute") : b \in Act!Device /\ b \notin BlocksOf("h2d") /\ b # Act!None /\ b # Act!Copied
                                 /\ Home(b) = "compute"
  /\ \A b \in BlocksOf("h2d") : b \in Act!Device /\ b # Act!None /\ b # Act!Copied /\ Home(b) = "h2d"
  /\ \A b \in Act!Device : b # Act!None /\ b # Act!Copied /\ (\A g : b # Act!Cpu(g))
                       /\ b \in BlocksOf("compute") \cup BlocksOf("h2d")
  /\ Act!Copied # Act!None /\ Act!Copied \notin Act!Device /\ Act!None \notin Act!Device
  /\ \A g, h : Act!Cpu(g) = Act!Cpu(h) => g = h
<1>1. ASSUME NEW s \in {"compute", "h2d"}, NEW b \in BlocksOf(s)
      PROVE  b \in Act!Device /\ b # Act!None /\ b # Act!Copied /\ Home(b) = s /\ b[1] = s
  <2>1. PICK n \in 1..ActBlocks : b = <<s, n>>
    BY DEF BlocksOf
  <2>2. b[1] = s /\ s # "cpu" /\ Len(b) = 2
    BY <2>1
  <2>3. Len(Act!None) = 0 /\ Len(Act!Copied) = 1
    BY DEF Act!None, Act!Copied
  <2>4. b # Act!None /\ b # Act!Copied
    BY <2>2, <2>3
  <2>5. b \in Act!Device
    BY DEF BlocksOf, Act!Device
  <2>. QED
    BY <2>2, <2>4, <2>5 DEF Home
<1>2. ASSUME NEW b \in Act!Device PROVE b \in BlocksOf("compute") \cup BlocksOf("h2d")
  BY DEF Act!Device, BlocksOf
<1>3. ASSUME NEW b \in Act!Device, NEW g PROVE b # Act!Cpu(g)
  <2>1. b[1] \in {"compute", "h2d"} /\ Act!Cpu(g)[1] = "cpu"
    BY DEF Act!Device, Act!Cpu
  <2>. QED
    BY <2>1
<1>4. Act!Copied # Act!None
  <2>1. Len(Act!None) = 0 /\ Len(Act!Copied) = 1
    BY DEF Act!None, Act!Copied
  <2>. QED
    BY <2>1
<1>5. ASSUME NEW g, NEW h, Act!Cpu(g) = Act!Cpu(h) PROVE g = h
  <2>1. Act!Cpu(g)[2] = g /\ Act!Cpu(h)[2] = h
    BY DEF Act!Cpu
  <2>. QED
    BY <2>1, <1>5
<1>6. \A b \in BlocksOf("compute") : b \notin BlocksOf("h2d")
  <2>1. "compute" # "h2d"
    OBVIOUS
  <2>. QED
    BY <1>1, <2>1
<1>. QED
  BY <1>1, <1>2, <1>3, <1>4, <1>5, <1>6

\* A group has one block of the computation, and one of the copies in.
LEMMA OneBlockEach == HostInv => OneBlock("compute") /\ OneBlock("h2d")
<1>1. ASSUME HostInv, NEW g \in Act!Groups
      PROVE  \/ tensor_tag_to_buf[g] = Act!None
             \/ /\ tensor_tag_to_buf[g] \in BlocksOf("compute")
                /\ tensor_tag_to_state[g] \in {Act!Copied, tensor_tag_to_buf[g]}
  <2>1. CASE Going
    BY <2>1, <1>1 DEF HostInv, Forwards
  <2>2. CASE Back
    BY <2>2, <1>1 DEF HostInv, Backwards
  <2>3. CASE actPc = "done"
    BY <2>3, <1>1 DEF HostInv, Ends
  <2>. QED
    BY <2>1, <2>2, <2>3, <1>1 DEF HostInv, Going, Back
<1>2. ASSUME HostInv, NEW s \in {"compute", "h2d"}, NEW g \in Act!Groups, NEW b \in BlocksOf(s), NEW c \in BlocksOf(s),
             Refers(g, b), Refers(g, c)
      PROVE  b = c
  <2>1. b # Act!None /\ c # Act!None /\ b # Act!Copied /\ c # Act!Copied
    BY <1>2, PlacesDiffer
  <2>2. b \in {tensor_tag_to_state[g], tensor_tag_to_buf[g]}
        /\ c \in {tensor_tag_to_state[g], tensor_tag_to_buf[g]}
    BY <1>2 DEF Refers
  <2>. QED
    BY <2>1, <2>2, <1>1, <1>2
<1>. QED
  BY <1>2 DEF OneBlock

\* What is given is in memory and nothing refers to it.
LEMMA GivenIsNew ==
  ASSUME HostInv, NEW s \in {"compute", "h2d"}
  PROVE  /\ Act!Given(s) \in BlocksOf(s) /\ Act!Given(s) \in Act!Device
         /\ \A g \in Act!Groups : tensor_tag_to_state[g] # Act!Given(s) /\ tensor_tag_to_buf[g] # Act!Given(s)
         /\ Act!Given(s) \notin Keeping
         /\ \A h \in Live : h[1] # Act!Given(s)
<1>1. s \in Act!Streams /\ OneBlock(s) /\ actSizes \in ActSizes
  BY OneBlockEach DEF Act!Streams, HostInv
<1>2. /\ Act!Given(s) \in BlocksOf(s)
      /\ \A g \in Act!Groups : tensor_tag_to_state[g] # Act!Given(s) /\ tensor_tag_to_buf[g] # Act!Given(s)
  BY <1>1, GivenIsFree
<1>3. Act!Given(s) \in Act!Device
  BY <1>2, PlacesDiffer
<1>4. \A g : Act!Given(s) # Act!Cpu(g)
  BY <1>3, PlacesDiffer
<1>. QED
  BY <1>2, <1>3, <1>4 DEF Keeping, Live

\* Groups and micro-batches are numbers.
LEMMA HostTyped ==
  ASSUME HostInv
  PROVE  /\ Act!Layers \in Nat /\ Act!Offload \in Nat /\ 1 <= Act!Offload /\ Act!Offload <= Act!Layers /\ actLayer \in Act!Groups
         /\ actSizes \in ActSizes /\ Act!Groups = 0..(Act!Layers - 1) /\ Act!Groups \subseteq Nat /\ actBatch \in Nat
         /\ \A g \in 0..(Act!Offload - 1) : g \in Act!Groups /\ g \in Nat
         /\ \A g \in Act!Groups : <<actBatch, g>> \in Stored
<1>1. /\ Act!Layers \in Nat /\ Act!Offload \in Nat /\ 1 <= Act!Offload /\ Act!Offload <= Act!Layers /\ actLayer \in Act!Groups
      /\ actSizes \in ActSizes /\ Act!Groups = 0..(Act!Layers - 1) /\ actBatch \in Nat
  BY SizesAre DEF HostInv, Act!Groups
<1>. QED
  BY <1>1 DEF Stored

-----------------------------------------------------------------------------
\* A layer saves its block.
LEMMA PushHost ==
  ASSUME HostInv, Act!Push
  PROVE  /\ HostInv' /\ Act!Given("compute") \in BlocksOf("compute")
         /\ UNCHANGED <<actSizes, actBatch, actLayer, current_group, offloaded_group_count,
                        group_offload_mapping, actDone, actMemory, actWrong>>
         /\ actLayer \in Act!Groups /\ actPc = "forward" /\ actPc' = "commit forward"
         /\ tensor_tag_to_state[actLayer] = Act!None /\ tensor_tag_to_buf[actLayer] = Act!None
         /\ tensor_tag_to_state' = [tensor_tag_to_state EXCEPT ![actLayer] = Act!Given("compute")]
         /\ \A g \in Act!Groups :
              tensor_tag_to_buf'[g] = IF g # actLayer THEN tensor_tag_to_buf[g]
                                      ELSE IF actLayer < Act!Offload THEN Act!Given("compute") ELSE Act!None
         /\ actQueue' = Act!Put(actQueue, "compute", [op |-> "write", to |-> Act!Given("compute"),
                                            of |-> <<actBatch, actLayer>>])
<1>1. /\ actSizes \in ActSizes /\ actLayer \in Act!Groups /\ Act!Groups = 0..(Act!Layers - 1) /\ Act!Layers \in Nat
      /\ Act!Offload \in Nat /\ actBatch \in Nat \ {0}
      /\ DOMAIN tensor_tag_to_state = Act!Groups /\ DOMAIN tensor_tag_to_buf = Act!Groups
      /\ DOMAIN actTag = Act!Groups
  BY HostTyped DEF HostInv
<1>2. actPc = "forward" /\ Going /\ ~Back /\ Pushed = actLayer
  BY DEF Act!Push, Going, Back, Pushed
<1>3. /\ actBatch <= ActBatches /\ current_group = actLayer
      /\ offloaded_group_count \in 0..(Act!Offload - 1)
      /\ offloaded_group_count > 0 => Act!Window(offloaded_group_count - 1) < actLayer
      /\ Act!Window(offloaded_group_count) >= actLayer
      /\ group_offload_mapping = IF actLayer = 0 THEN {} ELSE 0..offloaded_group_count
      /\ \A g \in Act!Groups :
         IF g < actLayer
         THEN /\ IF Delayed(g) /\ g \in group_offload_mapping
                 THEN tensor_tag_to_state[g] = Act!Copied
                 ELSE tensor_tag_to_state[g] \in BlocksOf("compute")
              /\ IF g >= offloaded_group_count /\ g < Act!Offload
                 THEN /\ tensor_tag_to_buf[g] \in BlocksOf("compute")
                      /\ tensor_tag_to_state[g] \in {Act!Copied, tensor_tag_to_buf[g]}
                 ELSE tensor_tag_to_buf[g] = Act!None
              /\ actTag[g] = g
         ELSE tensor_tag_to_state[g] = Act!None /\ tensor_tag_to_buf[g] = Act!None
  BY <1>2 DEF HostInv, Forwards
<1>4. tensor_tag_to_state[actLayer] = Act!None /\ tensor_tag_to_buf[actLayer] = Act!None /\ ~(actLayer < actLayer)
  BY <1>1, <1>3
<1>. DEFINE b == Act!Given("compute")
<1>5. b \in BlocksOf("compute")
  BY GivenIsNew
<1>6. /\ UNCHANGED <<actSizes, actBatch, actLayer, current_group, offloaded_group_count,
                     group_offload_mapping, actDone, actMemory, actWrong>>
      /\ tensor_tag_to_state' = [tensor_tag_to_state EXCEPT ![actLayer] = b]
      /\ tensor_tag_to_buf' = IF actLayer < Act!Offload THEN [tensor_tag_to_buf EXCEPT ![actLayer] = b]
                              ELSE tensor_tag_to_buf
      /\ actQueue' = Act!Put(actQueue, "compute", [op |-> "write", to |-> b, of |-> <<actBatch, actLayer>>])
      /\ actTag' = [actTag EXCEPT ![actLayer] = actLayer]
      /\ actPc' = "commit forward"
  BY <1>1, <1>2, <1>3, <1>4 DEF Act!Push, Act!device
<1>. HIDE DEF b
<1>7. /\ DOMAIN tensor_tag_to_buf' = Act!Groups
      /\ \A g \in Act!Groups : tensor_tag_to_buf'[g] = IF g # actLayer THEN tensor_tag_to_buf[g]
                                                   ELSE IF actLayer < Act!Offload THEN b ELSE Act!None
  BY <1>1, <1>4, <1>6
<1>8. Going' /\ ~Back' /\ Pushed' = actLayer + 1 /\ Act!Groups' = Act!Groups /\ Act!Offload' = Act!Offload /\ Act!Layers' = Act!Layers
      /\ actPc' # "done"
  BY <1>6 DEF Going, Back, Pushed, Act!Groups, Act!Offload, Act!Layers
<1>9. \A i : Act!Window(i)' = Act!Window(i)
  BY <1>6 DEF Act!Window, Act!Layers, Act!Offload
<1>9a. \A g : Delayed(g)' = Delayed(g)
  BY <1>6 DEF Delayed, Act!Window, Act!Layers, Act!Offload
<1>10. ASSUME NEW g \in Act!Groups
       PROVE IF g < actLayer + 1
         THEN /\ IF Delayed(g) /\ g \in group_offload_mapping
                 THEN tensor_tag_to_state'[g] = Act!Copied
                 ELSE tensor_tag_to_state'[g] \in BlocksOf("compute")
              /\ IF g >= offloaded_group_count /\ g < Act!Offload
                 THEN /\ tensor_tag_to_buf'[g] \in BlocksOf("compute")
                      /\ tensor_tag_to_state'[g] \in {Act!Copied, tensor_tag_to_buf'[g]}
                 ELSE tensor_tag_to_buf'[g] = Act!None
              /\ actTag'[g] = g
         ELSE tensor_tag_to_state'[g] = Act!None /\ tensor_tag_to_buf'[g] = Act!None
  <2>1. g \in Nat /\ actLayer \in Nat /\ (g < actLayer + 1 <=> g < actLayer \/ g = actLayer)
    BY <1>1
  <2>2. CASE g = actLayer
    <3>1. tensor_tag_to_state'[g] = b /\ tensor_tag_to_buf'[g] = (IF actLayer < Act!Offload THEN b ELSE Act!None)
          /\ actTag'[g] = g
      BY <2>2, <1>1, <1>6, <1>7
    <3>2. ~(Delayed(actLayer) /\ actLayer \in group_offload_mapping)
      <4>1. SUFFICES ASSUME Delayed(actLayer), actLayer \in group_offload_mapping PROVE FALSE
        OBVIOUS
      <4>2. actLayer > 0 /\ actLayer \in 0..offloaded_group_count /\ Act!Window(actLayer - 1) >= actLayer
        BY <4>1, <2>1, <1>3 DEF Delayed
      <4>3. Act!Window(offloaded_group_count - 1) < actLayer /\ offloaded_group_count > 0
        BY <4>2, <1>3, <1>1
      <4>4. /\ actLayer - 1 \in 0..(Act!Offload - 1) /\ offloaded_group_count - 1 \in 0..(Act!Offload - 1)
            /\ actLayer - 1 <= offloaded_group_count - 1
        BY <4>2, <4>3, <1>1, <1>3
      <4>5. Act!Window(actLayer - 1) \in Nat /\ Act!Window(offloaded_group_count - 1) \in Nat
            /\ Act!Window(actLayer - 1) <= Act!Window(offloaded_group_count - 1)
        <5>1. \A i \in 0..(Act!Offload - 1) : Act!Window(i) \in Nat
          BY <1>1, Windows
        <5>2. CASE actLayer - 1 < offloaded_group_count - 1
          BY <5>1, <5>2, <4>4, <1>1, Windows
        <5>3. CASE actLayer - 1 = offloaded_group_count - 1
          BY <5>1, <5>3, <4>4
        <5>. QED
          BY <5>2, <5>3, <4>4
      <4>. QED
        BY <4>2, <4>3, <4>5, <2>1
    <3>3. actLayer >= offloaded_group_count
      <4>1. CASE offloaded_group_count > 0
        <5>1. offloaded_group_count - 1 \in 0..(Act!Offload - 1)
          BY <4>1, <1>1, <1>3
        <5>2. Act!Window(offloaded_group_count - 1) \in (offloaded_group_count - 1)..(Act!Layers - 1)
          BY <5>1, <1>1, Windows
        <5>. QED
          BY <5>2, <4>1, <1>3, <2>1
      <4>. QED
        BY <4>1, <1>3, <2>1
    <3>. QED
      BY <3>1, <3>2, <3>3, <2>1, <2>2, <1>5
  <2>3. CASE g # actLayer
    BY <2>1, <2>3, <1>1, <1>3, <1>6, <1>7
  <2>. QED
    BY <2>2, <2>3
<1>11. Forwards'
  BY <1>3, <1>6, <1>8, <1>9, <1>9a, <1>10 DEF Forwards, BlocksOf
<1>12. HostInv'
  BY <1>1, <1>6, <1>7, <1>8, <1>11 DEF HostInv, Backwards, Ends
<1>. QED
  BY <1>1, <1>2, <1>4, <1>5, <1>6, <1>7, <1>12 DEF b

\* A layer that saves its block keeps the invariant (tensor_push).
LEMMA PushStep ==
  ASSUME ActInvariant, Act!Push
  PROVE  ActInvariant'
<1>1. HostInv /\ DOMAIN actMemory = Act!Memory /\ ~actWrong /\ StreamsInv(actDone, actMemory, actQueue, Keeping, Flying, Live)
  BY DEF ActInvariant
<1>2. /\ HostInv' /\ Act!Given("compute") \in BlocksOf("compute")
      /\ UNCHANGED <<actSizes, actBatch, actLayer, current_group, offloaded_group_count,
                     group_offload_mapping, actDone, actMemory, actWrong>>
      /\ actLayer \in Act!Groups /\ actPc = "forward" /\ actPc' = "commit forward"
      /\ tensor_tag_to_state[actLayer] = Act!None /\ tensor_tag_to_buf[actLayer] = Act!None
      /\ tensor_tag_to_state' = [tensor_tag_to_state EXCEPT ![actLayer] = Act!Given("compute")]
      /\ \A g \in Act!Groups :
           tensor_tag_to_buf'[g] = IF g # actLayer THEN tensor_tag_to_buf[g]
                                   ELSE IF actLayer < Act!Offload THEN Act!Given("compute") ELSE Act!None
      /\ actQueue' = Act!Put(actQueue, "compute", [op |-> "write", to |-> Act!Given("compute"),
                                         of |-> <<actBatch, actLayer>>])
  BY <1>1, PushHost
<1> DEFINE b == Act!Given("compute")
           v == <<actBatch, actLayer>>
           w == [op |-> "write", to |-> b, of |-> v]
<1>3. /\ b \in Act!Device /\ b \notin Keeping /\ \A h \in Live : h[1] # b
  BY <1>1, GivenIsNew
<1>4. v \in Stored
  BY <1>1, <1>2, HostTyped
<1>5. b \in Act!Memory
  BY <1>3 DEF Act!Memory
<1>6. w \in WorkOf("compute") /\ w.op = "write" /\ w.to = b /\ w.of = v
  BY <1>2, <1>4 DEF WorkOf
<1>7. actQueue' = Act!Put(actQueue, "compute", w)
  BY <1>2
<1>. HIDE DEF w
<1>8. StreamsInv(actDone, actMemory, actQueue', Keeping, Flying, Placed(Live, b, v))
  BY <1>1, <1>3, <1>5, <1>6, <1>7, PutWrite, PlacesAreHomed
<1>9. Act!Groups' = Act!Groups /\ Act!Memory' = Act!Memory
  BY <1>2 DEF Act!Groups, Act!Layers, Act!Memory, Act!Device
<1>. HIDE DEF b
<1>10. Keeping \subseteq Keeping'
  <2>1. ASSUME NEW g \in Act!Groups, tensor_tag_to_buf[g] # Act!None
        PROVE  tensor_tag_to_buf'[g] = tensor_tag_to_buf[g]
    BY <2>1, <1>2
  <2>. QED
    BY <2>1, <1>9 DEF Keeping
<1>11. Flying \subseteq Flying'
  BY <1>2 DEF Flying, Back
<1>12. Live' \subseteq Placed(Live, b, v)
  <2>1. DOMAIN tensor_tag_to_state = Act!Groups
    BY <1>1 DEF HostInv
  <2>2. ASSUME NEW g \in Act!Groups
        PROVE  tensor_tag_to_state'[g] = IF g = actLayer THEN b ELSE tensor_tag_to_state[g]
    BY <2>1, <1>2 DEF b
  <2>3. Act!Device' = Act!Device /\ actBatch' = actBatch /\ \A g : Act!Cpu(g)' = Act!Cpu(g)
    BY <1>2 DEF Act!Device, Act!Cpu
  <2>4. b # Act!Copied
    BY <1>3, PlacesDiffer
  <2>5. ASSUME NEW g \in Act!Groups, tensor_tag_to_state'[g] \in Act!Device
        PROVE  <<tensor_tag_to_state'[g], <<actBatch, g>>>> \in Placed(Live, b, v)
    <3>1. CASE g = actLayer
      BY <3>1, <2>2 DEF Placed, v
    <3>2. CASE g # actLayer
      <4>1. <<tensor_tag_to_state[g], <<actBatch, g>>>> \in Live
        BY <3>2, <2>2, <2>5 DEF Live
      <4>. QED
        BY <4>1, <3>2, <2>2, <1>3 DEF Placed
    <3>. QED
      BY <3>1, <3>2
  <2>6. ASSUME NEW g \in Act!Groups, tensor_tag_to_state'[g] = Act!Copied
        PROVE  <<Act!Cpu(g), <<actBatch, g>>>> \in Placed(Live, b, v)
    <3>1. tensor_tag_to_state[g] = Act!Copied
      BY <2>2, <2>4, <2>6
    <3>2. <<Act!Cpu(g), <<actBatch, g>>>> \in Live
      BY <3>1 DEF Live
    <3>. QED
      BY <3>2, <1>3 DEF Placed
  <2>. QED
    BY <2>3, <2>5, <2>6, <1>9 DEF Live
<1>13. StreamsInv(actDone, actMemory, actQueue', Keeping', Flying', Live')
  BY <1>8, <1>10, <1>11, <1>12, KnownLess
<1>. QED
  BY <1>1, <1>2, <1>9, <1>13 DEF ActInvariant

-----------------------------------------------------------------------------
\* The copies of a commit, in terms of what the host does.
CommitTo(state, buf) ==
  /\ \A g \in Act!Groups :
       /\ state[g] = IF g \in Act!CopiesNow /\ tensor_tag_to_state[g] # Act!None THEN Act!Copied
                     ELSE tensor_tag_to_state[g]
       /\ buf[g] = IF Act!WindowEnds /\ g = offloaded_group_count THEN Act!None ELSE tensor_tag_to_buf[g]
  /\ DOMAIN state = Act!Groups /\ DOMAIN buf = Act!Groups

AtCommit == actPc = "commit forward"

\* What is so when a layer is over.
LEMMA CommitFacts ==
  ASSUME HostInv, AtCommit
  PROVE  /\ Going /\ ~Back /\ actLayer \in Nat /\ actLayer < Act!Layers /\ actBatch <= ActBatches
         /\ current_group = actLayer /\ offloaded_group_count \in 0..(Act!Offload - 1)
         /\ offloaded_group_count > 0 => Act!Window(offloaded_group_count - 1) < actLayer
         /\ Act!Window(offloaded_group_count) \in Nat /\ Act!Window(offloaded_group_count) >= actLayer
         /\ offloaded_group_count + 1 < Act!Offload =>
              Act!Window(offloaded_group_count + 1) \in Nat
              /\ Act!Window(offloaded_group_count) < Act!Window(offloaded_group_count + 1)
         /\ offloaded_group_count + 1 = Act!Offload => Act!Window(offloaded_group_count) = Act!Layers - 1
         /\ offloaded_group_count + 1 < Act!Offload => Act!Window(offloaded_group_count) < Act!Layers - 1
         /\ Act!Kickstarts => offloaded_group_count = 0 /\ 0 < actLayer + 1
         /\ group_offload_mapping = IF actLayer = 0 THEN {} ELSE 0..offloaded_group_count
         /\ Act!CopiesNow \subseteq 0..(Act!Offload - 1)
         /\ \A g \in Act!CopiesNow : g \notin group_offload_mapping
         /\ \A g \in Act!CopiesNow : g < actLayer + 1 => Delayed(g)
         /\ \A g \in Act!Groups :
              IF g < actLayer + 1
              THEN /\ IF Delayed(g) /\ g \in group_offload_mapping
                      THEN tensor_tag_to_state[g] = Act!Copied
                      ELSE tensor_tag_to_state[g] \in BlocksOf("compute")
                   /\ IF g >= offloaded_group_count /\ g < Act!Offload
                      THEN /\ tensor_tag_to_buf[g] \in BlocksOf("compute")
                           /\ tensor_tag_to_state[g] \in {Act!Copied, tensor_tag_to_buf[g]}
                      ELSE tensor_tag_to_buf[g] = Act!None
                   /\ actTag[g] = g
              ELSE tensor_tag_to_state[g] = Act!None /\ tensor_tag_to_buf[g] = Act!None
<1>0. actSizes \in ActSizes
  BY HostTyped
<1>1. /\ Act!Layers \in Nat /\ Act!Offload \in Nat /\ 1 <= Act!Offload /\ Act!Offload <= Act!Layers
      /\ actLayer \in Nat /\ actLayer < Act!Layers
  <2>1. actLayer \in 0..(Act!Layers - 1) /\ Act!Layers \in Nat
    BY HostTyped
  <2>2. actLayer \in Nat /\ actLayer < Act!Layers
    BY <2>1
  <2>. QED
    BY <2>1, <2>2, HostTyped
<1>2. Going /\ ~Back /\ Pushed = actLayer + 1
  BY DEF AtCommit, Going, Back, Pushed
<1>3. /\ actBatch <= ActBatches /\ current_group = actLayer
      /\ offloaded_group_count \in 0..(Act!Offload - 1)
      /\ offloaded_group_count > 0 => Act!Window(offloaded_group_count - 1) < actLayer
      /\ Act!Window(offloaded_group_count) >= actLayer
      /\ group_offload_mapping = IF actLayer = 0 THEN {} ELSE 0..offloaded_group_count
  BY <1>2 DEF HostInv, Forwards
<1>3a. current_group = actLayer
  BY <1>3
<1>3b. \A g \in Act!Groups :
         IF g < actLayer + 1
         THEN /\ IF Delayed(g) /\ g \in group_offload_mapping
                 THEN tensor_tag_to_state[g] = Act!Copied
                 ELSE tensor_tag_to_state[g] \in BlocksOf("compute")
              /\ IF g >= offloaded_group_count /\ g < Act!Offload
                 THEN /\ tensor_tag_to_buf[g] \in BlocksOf("compute")
                      /\ tensor_tag_to_state[g] \in {Act!Copied, tensor_tag_to_buf[g]}
                 ELSE tensor_tag_to_buf[g] = Act!None
              /\ actTag[g] = g
         ELSE tensor_tag_to_state[g] = Act!None /\ tensor_tag_to_buf[g] = Act!None
  BY <1>2 DEF HostInv, Forwards
<1> DEFINE o == offloaded_group_count
<1>4. /\ \A i \in 0..(Act!Offload - 1) : Act!Window(i) \in i..(Act!Layers - 1) /\ Act!Window(i) \in Nat
      /\ \A i, j \in 0..(Act!Offload - 1) : i < j => Act!Window(i) < Act!Window(j)
      /\ Act!Window(Act!Offload - 1) = Act!Layers - 1
  <2>1. \A i \in 0..(Act!Offload - 1) : i \in Nat
    BY <1>1
  <2>2. \A i \in 0..(Act!Offload - 1) : Act!Window(i) \in Nat
    <3>1. TAKE i \in 0..(Act!Offload - 1)
    <3>2. Act!Window(i) \in i..(Act!Layers - 1)
      BY <1>0, Windows
    <3>. QED
      BY <3>2, <2>1, <1>1
  <2>. QED
    BY <2>2, <1>0, Windows
<1>. HIDE DEF o
<1>5. o \in Nat /\ o < Act!Offload /\ o \in 0..(Act!Offload - 1)
  <2>1. o \in 0..(Act!Offload - 1)
    BY <1>3 DEF o
  <2>. QED
    BY <2>1, <1>1
<1>6. Act!Window(o) \in Nat
  BY <1>4, <1>5
<1>7. o + 1 < Act!Offload => Act!Window(o + 1) \in Nat /\ Act!Window(o) < Act!Window(o + 1) /\ Act!Window(o) < Act!Layers - 1
  <2>1. SUFFICES ASSUME o + 1 < Act!Offload
                 PROVE  Act!Window(o + 1) \in Nat /\ Act!Window(o) < Act!Window(o + 1) /\ Act!Window(o) < Act!Layers - 1
    OBVIOUS
  <2>2. o + 1 \in 0..(Act!Offload - 1) /\ o < o + 1
    BY <2>1, <1>1, <1>5
  <2>3. Act!Window(o + 1) \in Nat /\ Act!Window(o) < Act!Window(o + 1) /\ Act!Window(o + 1) \in (o + 1)..(Act!Layers - 1)
    BY <2>2, <1>4, <1>5
  <2>. QED
    BY <2>3, <1>1, <1>5, <1>6
<1>8. o + 1 = Act!Offload => Act!Window(o) = Act!Layers - 1
  <2>1. o + 1 = Act!Offload => o = Act!Offload - 1
    BY <1>1, <1>5
  <2>. QED
    BY <2>1, <1>4
<1>9. actLayer = 0 => o = 0
  <2>1. SUFFICES ASSUME actLayer = 0, o # 0 PROVE FALSE
    OBVIOUS
  <2>2. o - 1 \in 0..(Act!Offload - 1) /\ o > 0
    BY <2>1, <1>1, <1>5
  <2>3. Act!Window(o - 1) \in Nat /\ Act!Window(o - 1) < actLayer
    BY <2>2, <1>3, <1>4 DEF o
  <2>. QED
    BY <2>1, <2>3, <1>1
<1>10. ASSUME NEW g \in Act!CopiesNow
       PROVE  g \in 0..(Act!Offload - 1) /\ g \notin group_offload_mapping /\ (g < actLayer + 1 => Delayed(g))
  <2>1. /\ g \in 0..(Act!Offload - 1)
        /\ (actLayer = 0 /\ g = 0) \/ (Act!Window(o) = actLayer /\ g = o + 1)
    BY <1>3a DEF o, Act!CopiesNow, Act!Kickstarts, Act!WindowEnds
  <2>2. CASE actLayer = 0 /\ g = 0
    <3>1. group_offload_mapping = {} /\ g = 0 /\ 0 < Act!Offload
      BY <2>2, <1>1, <1>3
    <3>. QED
      BY <2>1, <3>1 DEF Delayed
  <2>3. CASE Act!Window(o) = actLayer /\ g = o + 1
    <3>1. g \notin group_offload_mapping
      <4>1. group_offload_mapping \subseteq 0..o
        BY <1>3 DEF o
      <4>2. g \notin 0..o
        BY <2>3, <1>5
      <4>. QED
        BY <4>1, <4>2
    <3>2. g < actLayer + 1 => Act!Window(g - 1) >= g
      <4>1. g - 1 = o /\ g \in Nat
        BY <2>3, <1>5
      <4>. QED
        BY <4>1, <2>3, <1>1, <1>6
    <3>3. g < Act!Offload
      BY <2>1, <1>1
    <3>. QED
      BY <2>1, <3>1, <3>2, <3>3 DEF Delayed
  <2>. QED
    BY <2>1, <2>2, <2>3
<1>11. Act!Kickstarts => o = 0 /\ 0 < actLayer + 1
  BY <1>1, <1>3a, <1>9 DEF Act!Kickstarts
<1>. QED
  BY <1>1, <1>2, <1>3, <1>3b, <1>6, <1>7, <1>8, <1>10, <1>11 DEF o

\* The work a commit gives.
KickQueue ==
  IF Act!Kickstarts THEN Act!Offloaded(Act!WaitStream(actQueue, "d2h", "compute"), 0) ELSE actQueue
BothQueue == Act!WaitStream(Act!WaitStream(KickQueue, "d2h", "compute"), "compute", "d2h")
CommitQueue ==
  IF ~Act!WindowEnds THEN KickQueue
  ELSE IF offloaded_group_count < Act!Offload - 1 THEN Act!Offloaded(BothQueue, offloaded_group_count + 1)
  ELSE BothQueue

\* What a commit is when nothing fails.
LEMMA CommitDoes ==
  ASSUME HostInv, Act!CommitForward
  PROVE  /\ AtCommit /\ \A g \in Act!CopiesNow : tensor_tag_to_state[g] # Act!Copied
         /\ actQueue' = CommitQueue
         /\ CommitTo(tensor_tag_to_state', tensor_tag_to_buf')
         /\ group_offload_mapping' = group_offload_mapping \cup Act!CopiesNow
         /\ offloaded_group_count' = offloaded_group_count + (IF Act!WindowEnds THEN 1 ELSE 0)
         /\ current_group' = current_group + 1
         /\ IF actLayer < Act!Layers - 1 THEN actLayer' = actLayer + 1 /\ actPc' = "forward"
            ELSE actLayer' = actLayer /\ actPc' = "commit backward"
         /\ UNCHANGED <<actSizes, actBatch, actTag, actDone, actMemory, actWrong>>
<1>1. AtCommit
  BY DEF Act!CommitForward, AtCommit
<1>2. ~(offloaded_group_count >= Act!Offload)
  <2>1. offloaded_group_count \in 0..(Act!Offload - 1) /\ Act!Offload \in Nat
    BY <1>1, CommitFacts, HostTyped
  <2>. QED
    BY <2>1
<1>3. ASSUME NEW g \in Act!CopiesNow PROVE tensor_tag_to_state[g] # Act!Copied
  <2>1. g \in Act!Groups /\ g \notin group_offload_mapping
    BY <1>1, CommitFacts, HostTyped
  <2>2. tensor_tag_to_state[g] \in BlocksOf("compute") \/ tensor_tag_to_state[g] = Act!None
    BY <1>1, <2>1, CommitFacts
  <2>. QED
    BY <2>2, PlacesDiffer
<1>4. /\ actQueue' = CommitQueue
      /\ tensor_tag_to_state' =
           [g \in Act!Groups |-> IF g \in Act!CopiesNow /\ tensor_tag_to_state[g] # Act!None THEN Act!Copied
                             ELSE tensor_tag_to_state[g]]
      /\ tensor_tag_to_buf' = IF Act!WindowEnds
                              THEN [tensor_tag_to_buf EXCEPT ![offloaded_group_count] = Act!None]
                              ELSE tensor_tag_to_buf
      /\ group_offload_mapping' = group_offload_mapping \cup Act!CopiesNow
      /\ offloaded_group_count' = offloaded_group_count + (IF Act!WindowEnds THEN 1 ELSE 0)
      /\ current_group' = current_group + 1
      /\ IF actLayer < Act!Layers - 1 THEN actLayer' = actLayer + 1 /\ actPc' = "forward"
         ELSE actPc' = "commit backward" /\ UNCHANGED actLayer
      /\ UNCHANGED <<actSizes, actBatch, actTag, Act!device>>
  <2>1. ~(offloaded_group_count >= Act!Offload \/ \E g \in Act!CopiesNow : tensor_tag_to_state[g] = Act!Copied)
    BY <1>2, <1>3
  <2>. QED
    BY <2>1, Zenon DEF Act!CommitForward, CommitQueue, BothQueue, KickQueue
<1>5. offloaded_group_count \in Act!Groups /\ DOMAIN tensor_tag_to_buf = Act!Groups
  BY <1>1, CommitFacts, HostTyped DEF HostInv
<1>6. CommitTo(tensor_tag_to_state', tensor_tag_to_buf')
  <2>1. \A g \in Act!Groups : tensor_tag_to_buf'[g] = IF Act!WindowEnds /\ g = offloaded_group_count THEN Act!None
                                                  ELSE tensor_tag_to_buf[g]
    BY <1>4, <1>5
  <2>2. DOMAIN tensor_tag_to_buf' = Act!Groups
    BY <1>4, <1>5
  <2>. QED
    BY <1>4, <2>1, <2>2 DEF CommitTo
<1>. QED
  BY <1>1, <1>3, <1>4, <1>6 DEF Act!device

\* What a group holds after a commit.
LEMMA CommitHolds ==
  ASSUME HostInv, AtCommit, NEW state, NEW buf, CommitTo(state, buf), NEW g \in Act!Groups,
         NEW mapping, mapping = group_offload_mapping \cup Act!CopiesNow,
         NEW count, count = offloaded_group_count + (IF Act!WindowEnds THEN 1 ELSE 0)
  PROVE  IF g < actLayer + 1
         THEN /\ IF Delayed(g) /\ g \in mapping THEN state[g] = Act!Copied
                 ELSE state[g] \in BlocksOf("compute")
              /\ IF g >= count /\ g < Act!Offload
                 THEN buf[g] \in BlocksOf("compute") /\ state[g] \in {Act!Copied, buf[g]}
                 ELSE buf[g] = Act!None
              /\ actTag[g] = g
         ELSE state[g] = Act!None /\ buf[g] = Act!None
<1>1. IF g < actLayer + 1
      THEN /\ IF Delayed(g) /\ g \in group_offload_mapping
              THEN tensor_tag_to_state[g] = Act!Copied
              ELSE tensor_tag_to_state[g] \in BlocksOf("compute")
           /\ IF g >= offloaded_group_count /\ g < Act!Offload
              THEN /\ tensor_tag_to_buf[g] \in BlocksOf("compute")
                   /\ tensor_tag_to_state[g] \in {Act!Copied, tensor_tag_to_buf[g]}
              ELSE tensor_tag_to_buf[g] = Act!None
           /\ actTag[g] = g
      ELSE tensor_tag_to_state[g] = Act!None /\ tensor_tag_to_buf[g] = Act!None
  BY CommitFacts
<1>2. /\ state[g] = IF g \in Act!CopiesNow /\ tensor_tag_to_state[g] # Act!None THEN Act!Copied
                     ELSE tensor_tag_to_state[g]
      /\ buf[g] = IF Act!WindowEnds /\ g = offloaded_group_count THEN Act!None ELSE tensor_tag_to_buf[g]
  BY DEF CommitTo
<1>3. g \in Act!CopiesNow => g \notin group_offload_mapping /\ (g < actLayer + 1 => Delayed(g))
  BY CommitFacts
<1>4. g >= count <=> g >= offloaded_group_count /\ ~(Act!WindowEnds /\ g = offloaded_group_count)
  <2>1. g \in Nat /\ offloaded_group_count \in Nat
    <3>1. offloaded_group_count \in 0..(Act!Offload - 1) /\ Act!Offload \in Nat
      BY CommitFacts, HostTyped
    <3>2. offloaded_group_count \in Nat
      BY <3>1
    <3>. QED
      BY <3>2, HostTyped
  <2>2. CASE Act!WindowEnds
    <3>1. count = offloaded_group_count + 1
      BY <2>2
    <3>2. g >= count <=> g >= offloaded_group_count /\ ~(g = offloaded_group_count)
      BY <2>1, <3>1
    <3>. QED
      BY <3>2, <2>2
  <2>3. CASE ~Act!WindowEnds
    <3>1. count = offloaded_group_count
      BY <2>1, <2>3
    <3>. QED
      BY <3>1, <2>3
  <2>. QED
    BY <2>2, <2>3
<1>5. \A b \in BlocksOf("compute") : b # Act!None /\ b # Act!Copied
  BY PlacesDiffer
<1>6. Act!None # Act!Copied
  BY PlacesDiffer
<1>. QED
  BY <1>1, <1>2, <1>3, <1>4, <1>5, <1>6

\* The counts after a commit, and the groups that have been copied.
LEMMA CommitCounts ==
  ASSUME HostInv, AtCommit,
         NEW count, count = offloaded_group_count + (IF Act!WindowEnds THEN 1 ELSE 0)
  PROVE  /\ count \in Nat /\ 0 <= count /\ count <= Act!Offload
         /\ actLayer < Act!Layers - 1 =>
              /\ count < Act!Offload /\ Act!Window(count) >= actLayer + 1
              /\ group_offload_mapping \cup Act!CopiesNow = 0..count
         /\ count > 0 => Act!Window(count - 1) < actLayer + 1
         /\ ~(actLayer < Act!Layers - 1) =>
              /\ actLayer + 1 = Act!Layers /\ count = Act!Offload
              /\ group_offload_mapping \cup Act!CopiesNow = 0..(Act!Offload - 1)
<1> DEFINE o == offloaded_group_count
           W == Act!Window(o)
<1>1. /\ Act!Layers \in Nat /\ Act!Offload \in Nat /\ 1 <= Act!Offload /\ actLayer \in Nat /\ actLayer < Act!Layers
      /\ o \in Nat /\ o < Act!Offload /\ W \in Nat /\ W >= actLayer
      /\ o > 0 => Act!Window(o - 1) < actLayer
      /\ o + 1 < Act!Offload => Act!Window(o + 1) \in Nat /\ W < Act!Window(o + 1) /\ W < Act!Layers - 1
      /\ o + 1 = Act!Offload => W = Act!Layers - 1
  <2>1. o \in 0..(Act!Offload - 1) /\ Act!Offload \in Nat
    BY CommitFacts, HostTyped
  <2>2. o \in Nat /\ o < Act!Offload
    BY <2>1
  <2>. QED
    BY <2>2, CommitFacts, HostTyped
<1>2. /\ Act!WindowEnds <=> W = actLayer
      /\ Act!Kickstarts <=> actLayer = 0
  BY CommitFacts DEF Act!WindowEnds, Act!Kickstarts
<1>3. actLayer = 0 => o = 0
  BY <1>2, CommitFacts
<1>4. o > 0 => o - 1 \in 0..(Act!Offload - 1) /\ Act!Window(o - 1) \in Nat
  <2>1. SUFFICES ASSUME o > 0 PROVE o - 1 \in 0..(Act!Offload - 1) /\ Act!Window(o - 1) \in Nat
    OBVIOUS
  <2>2. o - 1 \in 0..(Act!Offload - 1) /\ o - 1 \in Nat
    BY <2>1, <1>1
  <2>3. Act!Window(o - 1) \in (o - 1)..(Act!Layers - 1)
    BY <2>2, HostTyped, Windows
  <2>. QED
    BY <2>2, <2>3, <1>1
<1>5. \A g : g \in Act!CopiesNow <=> g \in 0..(Act!Offload - 1) /\ ((actLayer = 0 /\ g = 0) \/ (W = actLayer /\ g = o + 1))
  BY <1>2 DEF Act!CopiesNow
<1>6. group_offload_mapping = IF actLayer = 0 THEN {} ELSE 0..o
  BY CommitFacts
<1>. HIDE DEF o, W
<1>7. CASE W = actLayer
  <2>1. count = o + 1
    BY <1>2, <1>7 DEF o
  <2>2. count - 1 = o /\ Act!Window(count - 1) < actLayer + 1 /\ count <= Act!Offload /\ count \in Nat
    <3>1. count - 1 = o /\ count <= Act!Offload /\ count \in Nat
      BY <2>1, <1>1
    <3>. QED
      BY <3>1, <1>1, <1>7 DEF W
  <2>3. ASSUME actLayer < Act!Layers - 1
        PROVE  /\ count < Act!Offload /\ Act!Window(count) >= actLayer + 1
               /\ group_offload_mapping \cup Act!CopiesNow = 0..count
    <3>1. o + 1 < Act!Offload
      BY <2>3, <1>1, <1>7
    <3>2. count < Act!Offload /\ Act!Window(count) >= actLayer + 1
      <4>1. Act!Window(count) \in Nat /\ W < Act!Window(count)
        BY <2>1, <3>1, <1>1
      <4>. QED
        BY <2>1, <3>1, <4>1, <1>1, <1>7
    <3>3. \A g : g \in Act!CopiesNow <=> ((actLayer = 0 /\ g = 0) \/ g = o + 1)
      <4>1. 0 \in 0..(Act!Offload - 1) /\ o + 1 \in 0..(Act!Offload - 1)
        BY <3>1, <1>1
      <4>. QED
        BY <4>1, <1>5, <1>7
    <3>4. CASE actLayer = 0
      <4>1. o = 0 /\ count = 1 /\ 0..count = {0, 1} /\ o + 1 = 1
        BY <3>4, <2>1, <1>3
      <4>2. Act!CopiesNow = {0, 1}
        BY <3>3, <3>4, <4>1
      <4>3. group_offload_mapping = {}
        BY <3>4, <1>6
      <4>. QED
        BY <3>2, <4>1, <4>2, <4>3
    <3>5. CASE actLayer # 0
      <4>1. 0..count = (0..o) \cup {o + 1}
        BY <2>1, <1>1
      <4>2. Act!CopiesNow = {o + 1}
        BY <3>3, <3>5
      <4>. QED
        BY <3>2, <3>5, <4>1, <4>2, <1>6
    <3>. QED
      BY <3>4, <3>5
  <2>4. ASSUME ~(actLayer < Act!Layers - 1)
        PROVE  /\ actLayer + 1 = Act!Layers /\ count = Act!Offload
               /\ group_offload_mapping \cup Act!CopiesNow = 0..(Act!Offload - 1)
    <3>1. actLayer + 1 = Act!Layers /\ o + 1 = Act!Offload
      BY <2>4, <1>1, <1>7
    <3>2. o + 1 \notin 0..(Act!Offload - 1) /\ 0 \in 0..(Act!Offload - 1) /\ 0..(Act!Offload - 1) = 0..o /\ count = Act!Offload
      BY <3>1, <2>1, <1>1
    <3>3. CASE actLayer = 0
      <4>1. o = 0 /\ 0..o = {0}
        BY <3>3, <1>3
      <4>2. Act!CopiesNow = {0}
        BY <3>2, <3>3, <1>5
      <4>. QED
        BY <3>1, <3>2, <3>3, <4>1, <4>2, <1>6
    <3>4. CASE actLayer # 0
      <4>1. Act!CopiesNow = {}
        BY <3>2, <3>4, <1>5
      <4>. QED
        BY <3>1, <3>2, <3>4, <4>1, <1>6
    <3>. QED
      BY <3>3, <3>4
  <2>5. 0 <= count
    BY <2>2
  <2>. QED
    BY <2>2, <2>3, <2>4, <2>5
<1>8. CASE W # actLayer
  <2>1. count = o
    <3>1. count = o + 0
      BY <1>2, <1>8 DEF o
    <3>. QED
      BY <3>1, <1>1
  <2>2. W >= actLayer + 1 /\ actLayer < Act!Layers - 1
    <3>1. W >= actLayer + 1
      BY <1>1, <1>8
    <3>2. o + 1 < Act!Offload \/ o + 1 = Act!Offload
      BY <1>1
    <3>3. actLayer < Act!Layers - 1
      <4>1. o + 1 < Act!Offload => W < Act!Layers - 1
        BY <1>1
      <4>2. o + 1 = Act!Offload => W = Act!Layers - 1
        BY <1>1
      <4>. QED
        BY <4>1, <4>2, <3>1, <3>2, <1>1
    <3>. QED
      BY <3>1, <3>3
  <2>3. group_offload_mapping \cup Act!CopiesNow = 0..count
    <3>1. 0 \in 0..(Act!Offload - 1)
      BY <1>1
    <3>2. CASE actLayer = 0
      <4>1. Act!CopiesNow = {0} /\ o = 0 /\ 0..o = {0}
        BY <3>1, <3>2, <1>3, <1>5, <1>8
      <4>. QED
        BY <3>2, <4>1, <2>1, <1>6
    <3>3. CASE actLayer # 0
      <4>1. Act!CopiesNow = {}
        BY <3>3, <1>5, <1>8
      <4>. QED
        BY <3>3, <4>1, <2>1, <1>6
    <3>. QED
      BY <3>2, <3>3
  <2>4. count > 0 => Act!Window(count - 1) < actLayer + 1
    <3>1. SUFFICES ASSUME o > 0 PROVE Act!Window(o - 1) < actLayer + 1
      BY <2>1
    <3>2. Act!Window(o - 1) \in Nat /\ Act!Window(o - 1) < actLayer
      BY <3>1, <1>1, <1>4
    <3>. QED
      BY <3>2, <1>1
  <2>5. Act!Window(count) >= actLayer + 1 /\ count < Act!Offload /\ count \in Nat /\ 0 <= count
    BY <2>1, <2>2, <1>1 DEF W
  <2>. QED
    BY <2>2, <2>3, <2>4, <2>5, <1>1
<1>. QED
  BY <1>7, <1>8

\* The end of a layer, on the host (on_group_commit_forward).
LEMMA CommitHost ==
  ASSUME HostInv, Act!CommitForward
  PROVE  HostInv'
<1> DEFINE count == offloaded_group_count + (IF Act!WindowEnds THEN 1 ELSE 0)
           mapping == group_offload_mapping \cup Act!CopiesNow
<1>1. /\ AtCommit
      /\ CommitTo(tensor_tag_to_state', tensor_tag_to_buf')
      /\ group_offload_mapping' = mapping /\ offloaded_group_count' = count
      /\ current_group' = current_group + 1
      /\ UNCHANGED <<actSizes, actBatch, actTag>>
  BY CommitDoes
<1>2. IF actLayer < Act!Layers - 1 THEN actLayer' = actLayer + 1 /\ actPc' = "forward"
      ELSE actLayer' = actLayer /\ actPc' = "commit backward"
  BY CommitDoes
<1>3. /\ count \in Nat /\ 0 <= count /\ count <= Act!Offload
      /\ actLayer < Act!Layers - 1 => count < Act!Offload /\ Act!Window(count) >= actLayer + 1 /\ mapping = 0..count
      /\ count > 0 => Act!Window(count - 1) < actLayer + 1
      /\ ~(actLayer < Act!Layers - 1) => actLayer + 1 = Act!Layers /\ count = Act!Offload /\ mapping = 0..(Act!Offload - 1)
  BY <1>1, CommitCounts
<1>. HIDE DEF count
<1>4. \A g \in Act!Groups :
         IF g < actLayer + 1
         THEN /\ IF Delayed(g) /\ g \in mapping THEN tensor_tag_to_state'[g] = Act!Copied
                 ELSE tensor_tag_to_state'[g] \in BlocksOf("compute")
              /\ IF g >= count /\ g < Act!Offload
                 THEN tensor_tag_to_buf'[g] \in BlocksOf("compute")
                      /\ tensor_tag_to_state'[g] \in {Act!Copied, tensor_tag_to_buf'[g]}
                 ELSE tensor_tag_to_buf'[g] = Act!None
              /\ actTag[g] = g
         ELSE tensor_tag_to_state'[g] = Act!None /\ tensor_tag_to_buf'[g] = Act!None
  BY <1>1, CommitHolds DEF count
<1>. HIDE DEF mapping
<1>5. /\ Act!Layers \in Nat /\ Act!Offload \in Nat /\ 1 <= Act!Offload /\ Act!Offload <= Act!Layers /\ actLayer \in Nat
      /\ actLayer < Act!Layers
  BY <1>1, HostTyped, CommitFacts
<1>5a. Act!Groups = 0..(Act!Layers - 1)
  BY HostTyped
<1>6. actBatch <= ActBatches /\ current_group = actLayer
  BY <1>1, CommitFacts
<1>7. /\ Act!Groups' = Act!Groups /\ Act!Offload' = Act!Offload /\ Act!Layers' = Act!Layers
      /\ (\A i : Act!Window(i)' = Act!Window(i)) /\ (\A g : Delayed(g)' = Delayed(g))
      /\ BlocksOf("compute")' = BlocksOf("compute") /\ BlocksOf("h2d")' = BlocksOf("h2d")
  BY <1>1 DEF Delayed, Act!Window, Act!Groups, Act!Layers, Act!Offload, BlocksOf
<1>8. /\ actSizes \in ActSizes /\ actBatch \in Nat \ {0} /\ DOMAIN actTag = Act!Groups
  BY DEF HostInv
<1>9. DOMAIN tensor_tag_to_state' = Act!Groups /\ DOMAIN tensor_tag_to_buf' = Act!Groups
  BY <1>1 DEF CommitTo
<1>10. CASE actLayer < Act!Layers - 1
  <2>1. actLayer' = actLayer + 1 /\ actPc' = "forward"
    BY <1>2, <1>10
  <2>2. Going' /\ ~Back' /\ actPc' # "done" /\ Pushed' = actLayer'
    BY <2>1 DEF Going, Back, Pushed
  <2>3. actLayer' \in Act!Groups' /\ actLayer' # 0 /\ current_group' = actLayer'
    <3>1. actLayer + 1 \in 0..(Act!Layers - 1) /\ actLayer + 1 # 0
      BY <1>5, <1>10
    <3>2. actLayer' = actLayer + 1
      BY <2>1
    <3>. QED
      BY <3>1, <3>2, <1>1, <1>5a, <1>6, <1>7
  <2>4. actLayer + 1 = actLayer'
    BY <2>1
  <2>5. count \in 0..(Act!Offload - 1) /\ Act!Window(count) >= actLayer + 1 /\ mapping = 0..count
        /\ (count > 0 => Act!Window(count - 1) < actLayer + 1)
    <3>1. count \in 0..(Act!Offload - 1)
      BY <1>3, <1>5, <1>10
    <3>. QED
      BY <3>1, <1>3, <1>10
  <2>6. Forwards'
    BY <2>2, <2>3, <2>4, <2>5, <1>1, <1>4, <1>6, <1>7 DEF Forwards
  <2>7. Backwards' /\ Ends'
    BY <2>2 DEF Backwards, Ends
  <2>8. actPc' \in {"forward", "commit forward", "commit backward", "backward", "done"}
    BY <2>1
  <2>. QED
    BY <2>3, <2>6, <2>7, <2>8, <1>1, <1>7, <1>8, <1>9 DEF HostInv
<1>11. CASE ~(actLayer < Act!Layers - 1)
  <2>1. actLayer' = actLayer /\ actPc' = "commit backward"
    BY <1>2, <1>11
  <2>2. ~Going' /\ Back' /\ actPc' # "done" /\ actPc' # "backward"
    BY <2>1 DEF Going, Back
  <2>3. actLayer' \in Act!Groups' /\ current_group' = actLayer' + 1 /\ current_group' = Act!Layers /\ current_group' # 0
    <3>1. actLayer \in 0..(Act!Layers - 1) /\ actLayer + 1 = Act!Layers /\ actLayer + 1 # 0
      BY <1>3, <1>5, <1>11
    <3>2. actLayer' = actLayer
      BY <2>1
    <3>. QED
      BY <3>1, <3>2, <1>1, <1>5a, <1>6, <1>7
  <2>4. count \in 1..Act!Offload /\ ~(count < Act!Offload) /\ mapping = 0..(Act!Offload - 1)
        /\ (count > 1 => Act!Window(count - 1) < Act!Layers)
    <3>1. count \in 1..Act!Offload /\ ~(count < Act!Offload)
      BY <1>3, <1>5, <1>11
    <3>2. count > 1 => count > 0
      BY <1>3
    <3>3. actLayer + 1 = Act!Layers
      BY <1>3, <1>11
    <3>. QED
      BY <3>1, <3>2, <3>3, <1>3, <1>11
  <2>5. mapping = {g \in 0..(Act!Offload - 1) : Act!Window(g) < Act!Layers}
    <3>1. ASSUME NEW g \in 0..(Act!Offload - 1) PROVE Act!Window(g) < Act!Layers
      <4>1. Act!Window(g) \in g..(Act!Layers - 1) /\ g \in Nat
        BY <1>8, Windows, HostTyped
      <4>. QED
        BY <4>1, <1>5
    <3>. QED
      BY <3>1, <2>4
  <2>6. ASSUME NEW g \in Act!Groups
        PROVE  /\ tensor_tag_to_buf'[g] = Act!None
               /\ ~(g > actLayer)
               /\ actTag[g] = g
               /\ IF ~Delayed(g) THEN tensor_tag_to_state'[g] \in BlocksOf("compute")
                  ELSE Act!Window(g) < Act!Layers /\ tensor_tag_to_state'[g] = Act!Copied
    <3>1. g < actLayer + 1 /\ ~(g > actLayer)
      <4>1. g \in 0..(Act!Layers - 1) /\ actLayer + 1 = Act!Layers
        BY <1>3, <1>5a, <1>11
      <4>. QED
        BY <4>1, <1>5
    <3>2. ~(g >= count /\ g < Act!Offload)
      <4>1. g \in Nat /\ count = Act!Offload
        BY <1>3, <1>11, HostTyped
      <4>. QED
        BY <4>1, <1>5
    <3>3. Delayed(g) => g \in mapping /\ Act!Window(g) < Act!Layers
      <4>1. SUFFICES ASSUME Delayed(g) PROVE g \in 0..(Act!Offload - 1) /\ Act!Window(g) < Act!Layers
        BY <2>4
      <4>2. g \in Nat /\ g < Act!Offload
        BY <4>1, HostTyped DEF Delayed
      <4>3. g \in 0..(Act!Offload - 1)
        BY <4>2, <1>5
      <4>. QED
        BY <4>3, <2>4, <2>5
    <3>. QED
      BY <3>1, <3>2, <3>3, <1>4
  <2>7. Backwards'
    BY <2>1, <2>2, <2>3, <2>4, <2>5, <2>6, <1>1, <1>6, <1>7 DEF Backwards
  <2>8. Forwards' /\ Ends'
    BY <2>2 DEF Forwards, Ends
  <2>9. actPc' \in {"forward", "commit forward", "commit backward", "backward", "done"}
    BY <2>1
  <2>. QED
    BY <2>3, <2>7, <2>8, <2>9, <1>1, <1>7, <1>8, <1>9 DEF HostInv
<1>. QED
  BY <1>10, <1>11

-----------------------------------------------------------------------------
\* A stream of copies that waits for the computation may be given copies.
LEMMA WaitFirst ==
  ASSUME NEW mem, NEW q, NEW kept, NEW flying, NEW live,
         StreamsInv(actDone, mem, q, kept, flying, live), Homed(live),
         NEW s \in {"d2h", "h2d"}, NEW o \in {"d2h", "h2d"}, s # o,
         o = "d2h" => kept = {}, o = "h2d" => flying = {}
  PROVE  /\ StreamsInv(actDone, mem, Act!WaitStream(q, s, "compute"), kept, flying, live)
         /\ Follows(actDone, Act!WaitStream(q, s, "compute"), s, o, Issued(actDone, q, "compute"))
<1>1. WorkOK(actDone, mem, q) /\ Settled(actDone, q, kept) /\ Arrived(actDone, q, flying)
  BY DEF StreamsInv
<1>2. s \in Act!Streams /\ "compute" \in Act!Streams
  BY DEF Act!Streams
<1>3. Act!WaitStream(q, s, "compute")
        = Act!Put(q, s, [op |-> "wait", on |-> "compute", for |-> Issued(actDone, q, "compute")])
  BY DEF Act!WaitStream, Issued
<1>4. [op |-> "wait", on |-> "compute", for |-> Issued(actDone, q, "compute")] \in WaitWork
  BY <1>1, <1>2, WaitIsWork
<1>5. StreamsInv(actDone, mem, Act!WaitStream(q, s, "compute"), kept, flying, live)
  BY <1>2, <1>3, <1>4, PutWait
<1>6. (o = "d2h" => Settled(actDone, q, {})) /\ (o = "h2d" => Arrived(actDone, q, {}))
  BY <1>1
<1>7. Follows(actDone, Act!WaitStream(q, s, "compute"), s, o, Issued(actDone, q, "compute"))
  BY <1>1, <1>3, <1>6, FollowStarts
<1>. QED
  BY <1>5, <1>7

\* The computation waits for the copies: then they are over for what comes later.
LEMMA WaitThen ==
  ASSUME NEW mem, NEW q, NEW kept, NEW flying, NEW live,
         StreamsInv(actDone, mem, q, kept, flying, live), Homed(live), NEW t \in {"d2h", "h2d"}
  PROVE  /\ StreamsInv(actDone, mem, Act!WaitStream(q, "compute", t),
                       IF t = "d2h" THEN {} ELSE kept, IF t = "h2d" THEN {} ELSE flying, live)
         /\ \A s, o \in {"d2h", "h2d"} : \A m :
              Follows(actDone, q, s, o, m) => Follows(actDone, Act!WaitStream(q, "compute", t), s, o, m)
<1> DEFINE w == [op |-> "wait", on |-> t, for |-> Issued(actDone, q, t)]
<1>1. WorkOK(actDone, mem, q)
  BY DEF StreamsInv
<1>2. t \in Act!Streams /\ "compute" \in Act!Streams
  BY DEF Act!Streams
<1>3. Act!WaitStream(q, "compute", t) = Act!Put(q, "compute", w)
  BY DEF Act!WaitStream, Issued
<1>4. w \in WaitWork
  BY <1>1, <1>2, WaitIsWork
<1>5. /\ t = "d2h" => Settled(actDone, Act!Put(q, "compute", w), {})
      /\ t = "h2d" => Arrived(actDone, Act!Put(q, "compute", w), {})
  BY <1>1, WaitSettles
<1>. HIDE DEF w
<1>6. StreamsInv(actDone, mem, Act!Put(q, "compute", w), kept, flying, live)
  BY <1>2, <1>4, PutWait
<1>7. StreamsInv(actDone, mem, Act!Put(q, "compute", w),
                 IF t = "d2h" THEN {} ELSE kept, IF t = "h2d" THEN {} ELSE flying, live)
  BY <1>5, <1>6 DEF StreamsInv
<1>8. ASSUME NEW s \in {"d2h", "h2d"}, NEW o \in {"d2h", "h2d"}, NEW m, Follows(actDone, q, s, o, m)
      PROVE  Follows(actDone, Act!Put(q, "compute", w), s, o, m)
  BY <1>1, <1>4, <1>8, FollowStays
<1>. QED
  BY <1>3, <1>7, <1>8

\* What is known after a group is copied out.
OutTo(live, g) ==
  IF tensor_tag_to_state[g] = Act!None THEN live ELSE Placed(live, Act!Cpu(g), <<actBatch, g>>)

\* A block that is copied out has its copy in the end.
LEMMA CopyOut ==
  ASSUME NEW q, NEW kept, NEW flying, NEW live,
         StreamsInv(actDone, actMemory, q, kept, flying, live), Homed(live),
         DOMAIN actMemory = Act!Memory, NEW g \in Act!Groups, g \in Nat, <<actBatch, g>> \in Stored,
         tensor_tag_to_state[g] # Act!None =>
           /\ tensor_tag_to_state[g] \in BlocksOf("compute") \cap kept
           /\ <<tensor_tag_to_state[g], <<actBatch, g>>>> \in live,
         NEW m, Follows(actDone, q, "d2h", "h2d", m)
  PROVE  /\ StreamsInv(actDone, actMemory, Act!Offloaded(q, g), kept, flying, OutTo(live, g))
         /\ Homed(OutTo(live, g))
<1>1. CASE tensor_tag_to_state[g] = Act!None
  BY <1>1 DEF Act!Offloaded, OutTo
<1>2. CASE tensor_tag_to_state[g] # Act!None
  <2> DEFINE w == [op |-> "copy", from |-> tensor_tag_to_state[g], to |-> Act!Cpu(g),
                   of |-> <<actBatch, g>>]
  <2>1. tensor_tag_to_state[g] \in BlocksOf("compute") /\ Act!Cpu(g) \in CpuPlace /\ Act!Cpu(g) \in Act!Memory
    BY <1>2 DEF Act!Cpu, CpuPlace, Act!Memory
  <2>2. w \in WorkOf("d2h")
    BY <2>1 DEF WorkOf
  <2>3. w.op = "copy" /\ w.from = tensor_tag_to_state[g] /\ w.to = Act!Cpu(g) /\ w.of = <<actBatch, g>>
    OBVIOUS
  <2>4. Act!Offloaded(q, g) = Act!Put(q, "d2h", w) /\ OutTo(live, g) = Placed(live, Act!Cpu(g), <<actBatch, g>>)
    BY <1>2 DEF Act!Offloaded, OutTo
  <2>. HIDE DEF w
  <2>5. <<w.from, w.of>> \in live /\ w.from \in kept /\ w.to \in DOMAIN actMemory
    BY <1>2, <2>1, <2>3
  <2>6. /\ StreamsInv(actDone, actMemory, Act!Put(q, "d2h", w), kept, flying, Placed(live, w.to, w.of))
        /\ Homed(Placed(live, w.to, w.of))
    BY <2>2, <2>3, <2>5, PutCopy
  <2>. QED
    BY <2>3, <2>4, <2>6
<1>. QED
  BY <1>1, <1>2

\* The blocks that are not copied when their window ends are kept, and known.
LEMMA CopiesKnown ==
  ASSUME HostInv, AtCommit, NEW g \in Act!CopiesNow, tensor_tag_to_state[g] # Act!None
  PROVE  /\ g \in Act!Groups /\ g \in Nat /\ <<actBatch, g>> \in Stored
         /\ tensor_tag_to_state[g] \in BlocksOf("compute")
         /\ tensor_tag_to_buf[g] = tensor_tag_to_state[g]
         /\ tensor_tag_to_state[g] \in Keeping
         /\ <<tensor_tag_to_state[g], <<actBatch, g>>>> \in Live
<1>1. g \in 0..(Act!Offload - 1) /\ g \notin group_offload_mapping
  BY CommitFacts
<1>2. g \in Act!Groups /\ g \in Nat /\ <<actBatch, g>> \in Stored
  BY <1>1, HostTyped
<1>3. g >= offloaded_group_count /\ g < Act!Offload
  <2>1. offloaded_group_count \in Nat /\ Act!Offload \in Nat
    <3>1. offloaded_group_count \in 0..(Act!Offload - 1) /\ Act!Offload \in Nat
      BY CommitFacts, HostTyped
    <3>. QED
      BY <3>1
  <2>2. g < Act!Offload
    BY <1>1, <2>1
  <2>3. (g = 0 /\ Act!Kickstarts) \/ g = offloaded_group_count + 1
    BY DEF Act!CopiesNow
  <2>4. Act!Kickstarts => offloaded_group_count = 0
    BY CommitFacts
  <2>5. g = 0 => g >= 0
    BY <1>2
  <2>6. g = offloaded_group_count + 1 => g >= offloaded_group_count
    BY <1>2, <2>1
  <2>. QED
    BY <2>2, <2>3, <2>4, <2>5, <2>6
<1>4. g < actLayer + 1
  BY <1>2, CommitFacts
<1>5. /\ tensor_tag_to_state[g] \in BlocksOf("compute")
      /\ tensor_tag_to_state[g] \in {Act!Copied, tensor_tag_to_buf[g]}
  BY <1>1, <1>2, <1>3, <1>4, CommitFacts
<1>6. tensor_tag_to_state[g] = tensor_tag_to_buf[g] /\ tensor_tag_to_state[g] \in Act!Device
      /\ tensor_tag_to_buf[g] # Act!None
  BY <1>5, PlacesDiffer
<1>. QED
  BY <1>2, <1>5, <1>6 DEF Keeping, Live

\* What is known after the copies of a commit.
KickLive == IF Act!Kickstarts THEN OutTo(Live, 0) ELSE Live
CommitLive ==
  IF Act!WindowEnds /\ offloaded_group_count < Act!Offload - 1
  THEN OutTo(KickLive, offloaded_group_count + 1) ELSE KickLive

\* What was there before a copy out is there after it.
LEMMA OutKeeps ==
  ASSUME NEW live, NEW g
  PROVE  /\ \A h \in live : h[1] # Act!Cpu(g) => h \in OutTo(live, g)
         /\ tensor_tag_to_state[g] # Act!None => <<Act!Cpu(g), <<actBatch, g>>>> \in OutTo(live, g)
BY DEF OutTo, Placed

\* The end of a layer, in the streams: waits, and copies out of what is there.
LEMMA CommitStreams ==
  ASSUME HostInv, AtCommit, DOMAIN actMemory = Act!Memory,
         StreamsInv(actDone, actMemory, actQueue, Keeping, {}, Live),
         NEW kept, Act!WindowEnds \/ Keeping \subseteq kept,
         \A g \in Act!Groups : g # offloaded_group_count /\ tensor_tag_to_buf[g] # Act!None =>
                             tensor_tag_to_buf[g] \in kept
  PROVE  StreamsInv(actDone, actMemory, CommitQueue, kept, {}, CommitLive)
<1>1. /\ offloaded_group_count \in Nat /\ Act!Offload \in Nat /\ 1 <= Act!Offload
  <2>1. offloaded_group_count \in 0..(Act!Offload - 1) /\ Act!Offload \in Nat
    BY CommitFacts, HostTyped
  <2>. QED
    BY <2>1, HostTyped
<1>2. StreamsInv(actDone, actMemory, KickQueue, Keeping, {}, KickLive) /\ Homed(KickLive)
  <2>1. CASE ~Act!Kickstarts
    BY <2>1, PlacesAreHomed DEF KickQueue, KickLive
  <2>2. CASE Act!Kickstarts
    <3>1. 0 \in Act!CopiesNow
      <4>1. 0 \in 0..(Act!Offload - 1)
        BY <1>1
      <4>. QED
        BY <4>1, <2>2 DEF Act!CopiesNow
    <3>2. /\ StreamsInv(actDone, actMemory, Act!WaitStream(actQueue, "d2h", "compute"), Keeping, {}, Live)
          /\ Follows(actDone, Act!WaitStream(actQueue, "d2h", "compute"), "d2h", "h2d", Issued(actDone, actQueue, "compute"))
      BY PlacesAreHomed, WaitFirst
    <3>3. 0 \in 0..(Act!Offload - 1)
      BY <1>1
    <3>4. 0 \in Act!Groups /\ 0 \in Nat /\ <<actBatch, 0>> \in Stored
      BY <3>3, HostTyped
    <3>5. tensor_tag_to_state[0] # Act!None =>
            /\ tensor_tag_to_state[0] \in BlocksOf("compute") \cap Keeping
            /\ <<tensor_tag_to_state[0], <<actBatch, 0>>>> \in Live
      BY <3>1, CopiesKnown
    <3>. QED
      BY <3>2, <3>4, <3>5, <2>2, PlacesAreHomed, CopyOut DEF KickQueue, KickLive
  <2>. QED
    BY <2>1, <2>2
<1>3. CASE ~Act!WindowEnds
  <2>1. Keeping \subseteq kept /\ CommitQueue = KickQueue /\ CommitLive = KickLive
    BY <1>3 DEF CommitQueue, CommitLive
  <2>. QED
    BY <1>2, <2>1, KnownLess
<1>4. CASE Act!WindowEnds
  <2> DEFINE q1 == Act!WaitStream(KickQueue, "d2h", "compute")
             m == Issued(actDone, KickQueue, "compute")
  <2>1. StreamsInv(actDone, actMemory, q1, Keeping, {}, KickLive) /\ Follows(actDone, q1, "d2h", "h2d", m)
    BY <1>2, WaitFirst
  <2>2. BothQueue = Act!WaitStream(q1, "compute", "d2h")
    BY DEF BothQueue
  <2>. HIDE DEF q1, m
  <2>3. StreamsInv(actDone, actMemory, BothQueue, {}, {}, KickLive)
    BY <2>1, <2>2, <1>2, WaitThen
  <2>4. Follows(actDone, BothQueue, "d2h", "h2d", m)
    BY <2>1, <2>2, <1>2, WaitThen
  <2>5. StreamsInv(actDone, actMemory, BothQueue, kept, {}, KickLive)
    BY <2>3, KnownLess
  <2>6. CASE ~(offloaded_group_count < Act!Offload - 1)
    BY <2>5, <2>6, <1>4 DEF CommitQueue, CommitLive
  <2>7. CASE offloaded_group_count < Act!Offload - 1
    <3> DEFINE g == offloaded_group_count + 1
    <3>1. CommitQueue = Act!Offloaded(BothQueue, g) /\ CommitLive = OutTo(KickLive, g)
      BY <2>7, <1>4 DEF CommitQueue, CommitLive
    <3>2. g \in 0..(Act!Offload - 1) /\ g # offloaded_group_count
      BY <2>7, <1>1
    <3>3. g \in Act!CopiesNow
      BY <3>2, <1>4 DEF Act!CopiesNow
    <3>. HIDE DEF g
    <3>4. g \in Act!Groups /\ g \in Nat /\ <<actBatch, g>> \in Stored
      BY <3>2, HostTyped
    <3>5. ASSUME tensor_tag_to_state[g] # Act!None
          PROVE  /\ tensor_tag_to_state[g] \in BlocksOf("compute") \cap kept
                 /\ <<tensor_tag_to_state[g], <<actBatch, g>>>> \in KickLive
      <4>1. /\ tensor_tag_to_state[g] \in BlocksOf("compute")
            /\ tensor_tag_to_buf[g] = tensor_tag_to_state[g]
            /\ <<tensor_tag_to_state[g], <<actBatch, g>>>> \in Live
        BY <3>3, <3>5, CopiesKnown
      <4>2. tensor_tag_to_state[g] \in kept
        BY <4>1, <3>2, <3>4, <3>5
      <4>3. tensor_tag_to_state[g] # Act!Cpu(0)
        BY <4>1, PlacesDiffer
      <4>4. <<tensor_tag_to_state[g], <<actBatch, g>>>> \in KickLive
        BY <4>1, <4>3, OutKeeps DEF KickLive
      <4>. QED
        BY <4>1, <4>2, <4>4
    <3>6. StreamsInv(actDone, actMemory, Act!Offloaded(BothQueue, g), kept, {}, OutTo(KickLive, g))
      BY <2>4, <2>5, <3>4, <3>5, <1>2, CopyOut
    <3>. QED
      BY <3>1, <3>6
  <2>. QED
    BY <2>6, <2>7
<1>. QED
  BY <1>3, <1>4

\* The end of a layer keeps the invariant.
LEMMA CommitStep ==
  ASSUME ActInvariant, Act!CommitForward
  PROVE  ActInvariant'
<1>1. HostInv /\ DOMAIN actMemory = Act!Memory /\ ~actWrong /\ StreamsInv(actDone, actMemory, actQueue, Keeping, Flying, Live)
  BY DEF ActInvariant
<1>2. /\ AtCommit /\ \A g \in Act!CopiesNow : tensor_tag_to_state[g] # Act!Copied
      /\ actQueue' = CommitQueue
      /\ CommitTo(tensor_tag_to_state', tensor_tag_to_buf')
      /\ current_group' = current_group + 1
      /\ UNCHANGED <<actSizes, actBatch, actTag, actDone, actMemory, actWrong>>
  BY <1>1, CommitDoes
<1>3. HostInv'
  BY <1>1, CommitHost
<1>4. Flying = {}
  <2>1. ~Back
    BY <1>1, <1>2, CommitFacts
  <2>. QED
    BY <2>1 DEF Flying
<1>5. /\ Act!Groups' = Act!Groups /\ Act!Memory' = Act!Memory /\ Act!Device' = Act!Device /\ \A g : Act!Cpu(g)' = Act!Cpu(g)
  BY <1>2 DEF Act!Groups, Act!Layers, Act!Memory, Act!Device, Act!Cpu
<1>6. \A g \in Act!Groups :
         /\ tensor_tag_to_state'[g] = IF g \in Act!CopiesNow /\ tensor_tag_to_state[g] # Act!None THEN Act!Copied
                                      ELSE tensor_tag_to_state[g]
         /\ tensor_tag_to_buf'[g] = IF Act!WindowEnds /\ g = offloaded_group_count THEN Act!None
                                    ELSE tensor_tag_to_buf[g]
  BY <1>2 DEF CommitTo
<1>7. /\ Act!WindowEnds \/ Keeping \subseteq Keeping'
      /\ \A g \in Act!Groups : g # offloaded_group_count /\ tensor_tag_to_buf[g] # Act!None =>
                             tensor_tag_to_buf[g] \in Keeping'
  BY <1>5, <1>6 DEF Keeping
<1>8. StreamsInv(actDone, actMemory, actQueue', Keeping', {}, CommitLive)
  BY <1>1, <1>2, <1>4, <1>7, CommitStreams
<1>9. Live' \subseteq CommitLive
  <2>1. ASSUME NEW h \in Live, \A g \in Act!CopiesNow : h[1] # Act!Cpu(g)
        PROVE  h \in CommitLive
    <3>1. Act!Kickstarts => 0 \in Act!CopiesNow
      <4>1. 0 \in 0..(Act!Offload - 1)
        <5>1. Act!Offload \in Nat /\ 1 <= Act!Offload
          BY <1>1, HostTyped
        <5>. QED
          BY <5>1
      <4>. QED
        BY <4>1 DEF Act!CopiesNow
    <3>2. h \in KickLive
      BY <2>1, <3>1, OutKeeps DEF KickLive
    <3>3. Act!WindowEnds /\ offloaded_group_count < Act!Offload - 1 => offloaded_group_count + 1 \in Act!CopiesNow
      <4>1. offloaded_group_count < Act!Offload - 1 => offloaded_group_count + 1 \in 0..(Act!Offload - 1)
        <5>1. offloaded_group_count \in 0..(Act!Offload - 1) /\ Act!Offload \in Nat
          BY <1>1, <1>2, CommitFacts, HostTyped
        <5>. QED
          BY <5>1
      <4>. QED
        BY <4>1 DEF Act!CopiesNow
    <3>. QED
      BY <2>1, <3>2, <3>3, OutKeeps DEF CommitLive
  <2>2. ASSUME NEW g \in Act!CopiesNow, tensor_tag_to_state[g] # Act!None
        PROVE  <<Act!Cpu(g), <<actBatch, g>>>> \in CommitLive
    <3>1. offloaded_group_count \in Nat /\ Act!Offload \in Nat
      <4>1. offloaded_group_count \in 0..(Act!Offload - 1) /\ Act!Offload \in Nat
        BY <1>1, <1>2, CommitFacts, HostTyped
      <4>. QED
        BY <4>1
    <3>2. CASE Act!WindowEnds /\ g = offloaded_group_count + 1
      <4>1. offloaded_group_count < Act!Offload - 1
        <5>1. offloaded_group_count + 1 \in 0..(Act!Offload - 1)
          BY <3>2 DEF Act!CopiesNow
        <5>. QED
          BY <5>1, <3>1
      <4>. QED
        BY <4>1, <3>2, <2>2, OutKeeps DEF CommitLive
    <3>3. CASE ~(Act!WindowEnds /\ g = offloaded_group_count + 1)
      <4>1. Act!Kickstarts /\ g = 0
        BY <3>3 DEF Act!CopiesNow
      <4>2. <<Act!Cpu(g), <<actBatch, g>>>> \in KickLive
        BY <4>1, <2>2, OutKeeps DEF KickLive
      <4>3. 0 # offloaded_group_count + 1
        BY <3>1
      <4>4. Act!Cpu(g) # Act!Cpu(offloaded_group_count + 1)
        BY <4>1, <4>3, PlacesDiffer
      <4>. QED
        BY <4>2, <4>4, OutKeeps DEF CommitLive
    <3>. QED
      BY <3>2, <3>3
  <2>3. ASSUME NEW g \in Act!Groups, tensor_tag_to_state'[g] \in Act!Device
        PROVE  <<tensor_tag_to_state'[g], <<actBatch, g>>>> \in CommitLive
    <3>1. tensor_tag_to_state'[g] = tensor_tag_to_state[g]
      BY <2>3, <1>6, PlacesDiffer
    <3>2. <<tensor_tag_to_state[g], <<actBatch, g>>>> \in Live
      BY <3>1, <2>3 DEF Live
    <3>3. \A k : tensor_tag_to_state[g] # Act!Cpu(k)
      BY <3>1, <2>3, PlacesDiffer
    <3>. QED
      BY <3>1, <3>2, <3>3, <2>1
  <2>4. ASSUME NEW g \in Act!Groups, tensor_tag_to_state'[g] = Act!Copied
        PROVE  <<Act!Cpu(g), <<actBatch, g>>>> \in CommitLive
    <3>1. CASE g \in Act!CopiesNow /\ tensor_tag_to_state[g] # Act!None
      BY <3>1, <2>2
    <3>2. CASE ~(g \in Act!CopiesNow /\ tensor_tag_to_state[g] # Act!None)
      <4>1. tensor_tag_to_state[g] = Act!Copied
        BY <3>2, <2>4, <1>6
      <4>2. <<Act!Cpu(g), <<actBatch, g>>>> \in Live /\ g \notin Act!CopiesNow
        BY <4>1, <1>2 DEF Live
      <4>3. \A k \in Act!CopiesNow : Act!Cpu(g) # Act!Cpu(k)
        BY <4>2, PlacesDiffer
      <4>. QED
        BY <4>2, <4>3, <2>1
    <3>. QED
      BY <3>1, <3>2
  <2>5. actBatch' = actBatch
    BY <1>2
  <2>. QED
    BY <2>3, <2>4, <2>5, <1>5 DEF Live
<1>10. StreamsInv(actDone, actMemory, actQueue', Keeping', Flying', Live')
  BY <1>8, <1>9, KnownLess
<1>. QED
  BY <1>1, <1>2, <1>3, <1>5, <1>10 DEF ActInvariant

-----------------------------------------------------------------------------
AtBack == actPc = "commit backward"
Reloading == offloaded_group_count - 1
Reloads == Act!Window(Reloading) = current_group - 1
BackCount ==
  IF actLayer = 0 THEN 0 ELSE IF Reloads THEN Act!Counted(offloaded_group_count) ELSE offloaded_group_count

\* What is so before the backward pass of a layer.
LEMMA BackFacts ==
  ASSUME HostInv, AtBack
  PROVE  /\ Back /\ ~Going /\ actLayer \in Nat /\ actLayer < Act!Layers /\ actBatch <= ActBatches
         /\ current_group = actLayer + 1 /\ current_group - 1 = actLayer
         /\ offloaded_group_count \in Nat /\ 1 <= offloaded_group_count
         /\ offloaded_group_count <= Act!Offload
         /\ Reloading \in 0..(Act!Offload - 1) /\ Reloading \in Act!Groups
         /\ offloaded_group_count < Act!Offload => Act!Window(offloaded_group_count) >= actLayer + 1
         /\ offloaded_group_count > 1 => Act!Window(Reloading) < actLayer + 1
         /\ group_offload_mapping = {g \in 0..(Act!Offload - 1) : Act!Window(g) < actLayer + 1}
         /\ \A g \in Act!Groups :
              /\ tensor_tag_to_buf[g] = Act!None
              /\ IF g > actLayer THEN tensor_tag_to_state[g] = Act!None
                 ELSE /\ actTag[g] = g
                      /\ IF ~Delayed(g) THEN tensor_tag_to_state[g] \in BlocksOf("compute")
                         ELSE IF Act!Window(g) < actLayer + 1 THEN tensor_tag_to_state[g] = Act!Copied
                         ELSE tensor_tag_to_state[g] \in BlocksOf("h2d")
<1>1. Back /\ ~Going /\ actPc # "backward"
  BY DEF AtBack, Back, Going
<1>2. actLayer \in Nat /\ actLayer < Act!Layers /\ Act!Layers \in Nat /\ Act!Offload \in Nat /\ Act!Offload <= Act!Layers
  <2>1. actLayer \in 0..(Act!Layers - 1) /\ Act!Layers \in Nat
    BY HostTyped
  <2>2. actLayer \in Nat /\ actLayer < Act!Layers
    BY <2>1
  <2>. QED
    BY <2>1, <2>2, HostTyped
<1>3. actBatch <= ActBatches /\ current_group = actLayer + 1
  BY <1>1 DEF HostInv, Backwards
<1>4. current_group # 0 /\ current_group - 1 = actLayer
  BY <1>2, <1>3
<1>5. /\ offloaded_group_count \in 1..Act!Offload
      /\ offloaded_group_count < Act!Offload => Act!Window(offloaded_group_count) >= current_group
      /\ offloaded_group_count > 1 => Act!Window(offloaded_group_count - 1) < current_group
      /\ group_offload_mapping = {g \in 0..(Act!Offload - 1) : Act!Window(g) < current_group}
  BY <1>1, <1>4 DEF HostInv, Backwards
<1>6. offloaded_group_count \in Nat /\ 1 <= offloaded_group_count /\ offloaded_group_count <= Act!Offload
      /\ Reloading \in 0..(Act!Offload - 1)
  <2>1. offloaded_group_count \in 1..Act!Offload
    BY <1>5
  <2>. QED
    BY <2>1, <1>2 DEF Reloading
<1>7. \A g \in Act!Groups :
         /\ tensor_tag_to_buf[g] = Act!None
         /\ IF g > actLayer THEN tensor_tag_to_state[g] = Act!None
            ELSE /\ actTag[g] = g
                 /\ IF ~Delayed(g) THEN tensor_tag_to_state[g] \in BlocksOf("compute")
                    ELSE IF Act!Window(g) < current_group THEN tensor_tag_to_state[g] = Act!Copied
                    ELSE tensor_tag_to_state[g] \in BlocksOf("h2d")
  BY <1>1 DEF HostInv, Backwards
<1>8. Reloading \in Act!Groups
  BY <1>6, HostTyped
<1>. QED
  BY <1>1, <1>2, <1>3, <1>4, <1>5, <1>6, <1>7, <1>8 DEF Reloading

\* The counts after the commit; one group at most has its window there.
LEMMA BackCounts ==
  ASSUME HostInv, AtBack
  PROVE  /\ actLayer # 0 =>
              /\ BackCount \in 1..Act!Offload
              /\ BackCount < Act!Offload => Act!Window(BackCount) >= actLayer
              /\ BackCount > 1 => Act!Window(BackCount - 1) < actLayer
         /\ \A g \in 0..(Act!Offload - 1) : Act!Window(g) = actLayer <=> Reloads /\ g = Reloading
         /\ \A g \in 0..(Act!Offload - 1) : Act!Window(g) \in Nat /\ g <= Act!Window(g)
<1> DEFINE o == offloaded_group_count
           r == Reloading
<1>1. /\ actLayer \in Nat /\ actLayer < Act!Layers /\ Act!Layers \in Nat /\ Act!Offload \in Nat
      /\ o \in Nat /\ 1 <= o /\ o <= Act!Offload
      /\ o < Act!Offload => Act!Window(o) >= actLayer + 1
      /\ r = o - 1
  BY BackFacts, HostTyped DEF Reloading
<1>2. o > 1 => Act!Window(r) < actLayer + 1
  BY BackFacts
<1>3. /\ \A i \in 0..(Act!Offload - 1) : Act!Window(i) \in Nat /\ i \in Nat /\ i <= Act!Window(i)
      /\ \A i, j \in 0..(Act!Offload - 1) : i < j => Act!Window(i) < Act!Window(j)
  <2>1. ASSUME NEW i \in 0..(Act!Offload - 1) PROVE Act!Window(i) \in Nat /\ i \in Nat /\ i <= Act!Window(i)
    <3>1. Act!Window(i) \in i..(Act!Layers - 1) /\ i \in Nat
      BY Windows, HostTyped
    <3>. QED
      BY <3>1, <1>1
  <2>. QED
    BY <2>1, Windows, HostTyped
<1>4. Reloads <=> Act!Window(r) = actLayer
  BY BackFacts DEF Reloads
<1>. HIDE DEF o, r
<1>5. r \in 0..(Act!Offload - 1) /\ r \in Nat
  BY <1>1
<1>6. Act!Window(r) \in Nat
  BY <1>3, <1>5
<1>7. ASSUME NEW g \in 0..(Act!Offload - 1), Act!Window(g) = actLayer PROVE g = r
  <2>1. g \in Nat /\ g < Act!Offload
    <3>1. g \in Nat
      BY <1>3
    <3>. QED
      BY <3>1, <1>1
  <2>2. ASSUME g > r PROVE FALSE
    <3>1. o < Act!Offload /\ o \in 0..(Act!Offload - 1) /\ (g = o \/ o < g)
      BY <2>1, <2>2, <1>1
    <3>2. Act!Window(o) \in Nat /\ Act!Window(o) >= actLayer + 1
      BY <3>1, <1>1, <1>3
    <3>3. g = o \/ Act!Window(o) < Act!Window(g)
      BY <3>1, <1>3
    <3>. QED
      BY <3>2, <3>3, <1>1, <1>7
  <2>3. ASSUME g < r PROVE FALSE
    <3>1. o > 1
      BY <2>1, <2>3, <1>1
    <3>2. Act!Window(g) < Act!Window(r) /\ Act!Window(r) < actLayer + 1
      BY <2>3, <3>1, <1>2, <1>3, <1>5
    <3>. QED
      BY <3>2, <1>1, <1>6, <1>7
  <2>. QED
    BY <2>1, <2>2, <2>3, <1>5
<1>8. \A g \in 0..(Act!Offload - 1) : Act!Window(g) = actLayer <=> Reloads /\ g = r
  BY <1>4, <1>5, <1>7
<1>9. ASSUME actLayer # 0
      PROVE  /\ BackCount \in 1..Act!Offload
             /\ BackCount < Act!Offload => Act!Window(BackCount) >= actLayer
             /\ BackCount > 1 => Act!Window(BackCount - 1) < actLayer
  <2>1. CASE ~Reloads
    <3>1. BackCount = o
      BY <2>1, <1>9 DEF BackCount, o
    <3>2. o \in 1..Act!Offload
      BY <1>1
    <3>3. o < Act!Offload => Act!Window(o) >= actLayer
      <4>1. SUFFICES ASSUME o < Act!Offload PROVE Act!Window(o) >= actLayer
        OBVIOUS
      <4>2. o \in 0..(Act!Offload - 1)
        BY <4>1, <1>1
      <4>3. Act!Window(o) \in Nat /\ Act!Window(o) >= actLayer + 1
        BY <4>1, <4>2, <1>1, <1>3
      <4>. QED
        BY <4>3, <1>1
    <3>4. o > 1 => Act!Window(o - 1) < actLayer
      <4>1. SUFFICES ASSUME o > 1 PROVE Act!Window(r) < actLayer
        BY <1>1
      <4>2. Act!Window(r) < actLayer + 1 /\ Act!Window(r) # actLayer
        BY <4>1, <2>1, <1>2, <1>4
      <4>. QED
        BY <4>2, <1>1, <1>6
    <3>. QED
      BY <3>1, <3>2, <3>3, <3>4
  <2>2. CASE Reloads
    <3>1. BackCount = IF o > 1 THEN o - 1 ELSE o
      BY <2>2, <1>9 DEF BackCount, Act!Counted, o
    <3>2. Act!Window(r) = actLayer
      BY <2>2, <1>4
    <3>3. CASE o > 1
      <4>1. BackCount = r /\ r \in 1..Act!Offload
        BY <3>1, <3>3, <1>1
      <4>2. Act!Window(r) >= actLayer
        BY <3>2, <1>1
      <4>3. r > 1 => Act!Window(r - 1) < actLayer
        <5>1. SUFFICES ASSUME r > 1 PROVE Act!Window(r - 1) < actLayer
          OBVIOUS
        <5>2. r - 1 \in 0..(Act!Offload - 1) /\ r - 1 < r
          BY <5>1, <1>1
        <5>. QED
          BY <5>2, <3>2, <1>3, <1>5
      <4>. QED
        BY <4>1, <4>2, <4>3
    <3>4. CASE ~(o > 1)
      <4>1. BackCount = 1 /\ 1 \in 1..Act!Offload /\ r = 0 /\ ~(1 > 1)
        BY <3>1, <3>4, <1>1
      <4>2. 1 < Act!Offload => Act!Window(1) >= actLayer
        <5>1. SUFFICES ASSUME 1 < Act!Offload PROVE Act!Window(1) >= actLayer
          OBVIOUS
        <5>2. 1 \in 0..(Act!Offload - 1) /\ 0 \in 0..(Act!Offload - 1) /\ 0 < 1
          BY <5>1, <1>1
        <5>3. Act!Window(1) \in Nat /\ Act!Window(0) < Act!Window(1) /\ Act!Window(0) = actLayer
          BY <5>2, <4>1, <3>2, <1>3
        <5>. QED
          BY <5>3, <1>1
      <4>. QED
        BY <4>1, <4>2
    <3>. QED
      BY <3>3, <3>4
  <2>. QED
    BY <2>1, <2>2
<1>. QED
  BY <1>3, <1>8, <1>9 DEF r

\* The work the commit gives, and what it is when nothing fails.
BackBoth == Act!WaitStream(Act!WaitStream(actQueue, "h2d", "compute"), "compute", "h2d")
BackReload == IF Reloads THEN Act!Reloaded(BackBoth, Reloading) ELSE actQueue
BackQueue ==
  IF current_group - 1 = 0 THEN Act!WaitStream(BackReload, "compute", "h2d") ELSE BackReload
BackTo(state) ==
  state = IF Reloads /\ tensor_tag_to_state[Reloading] = Act!Copied
          THEN [tensor_tag_to_state EXCEPT ![Reloading] = Act!Given("h2d")]
          ELSE tensor_tag_to_state

\* What the handler does before the backward pass of a layer.
LEMMA BackDoes ==
  ASSUME HostInv, Act!CommitBackward
  PROVE  /\ AtBack /\ actPc' = "backward" /\ actQueue' = BackQueue /\ BackTo(tensor_tag_to_state')
         /\ group_offload_mapping' = group_offload_mapping \ (IF Reloads THEN {Reloading} ELSE {})
         /\ offloaded_group_count' = BackCount /\ current_group' = actLayer
         /\ UNCHANGED <<actSizes, actBatch, actLayer, actTag, tensor_tag_to_buf, actDone, actMemory, actWrong>>
<1>1. AtBack
  BY DEF Act!CommitBackward, AtBack
<1>2. ~(current_group - 1 < 0) /\ current_group - 1 = actLayer /\ ~(Reloading < 0)
  <2>1. actLayer \in Nat /\ current_group - 1 = actLayer /\ offloaded_group_count \in Nat /\ 1 <= offloaded_group_count
    BY <1>1, BackFacts
  <2>. QED
    BY <2>1 DEF Reloading
<1>3. ~(Reloads /\ Reloading \notin group_offload_mapping)
  <2>1. SUFFICES ASSUME Reloads PROVE Reloading \in group_offload_mapping
    OBVIOUS
  <2>2. Act!Window(Reloading) = actLayer /\ Reloading \in 0..(Act!Offload - 1)
    BY <1>1, <2>1, BackCounts, BackFacts
  <2>3. actLayer < actLayer + 1
    <3>1. actLayer \in Nat
      BY <1>1, BackFacts
    <3>. QED
      BY <3>1
  <2>. QED
    BY <1>1, <2>2, <2>3, BackFacts
<1>4. /\ actQueue' = BackQueue
      /\ tensor_tag_to_state' =
           IF Reloads /\ tensor_tag_to_state[Reloading] = Act!Copied
           THEN [tensor_tag_to_state EXCEPT ![Reloading] = Act!Given("h2d")]
           ELSE tensor_tag_to_state
      /\ group_offload_mapping' = group_offload_mapping \ (IF Reloads THEN {Reloading} ELSE {})
      /\ offloaded_group_count' =
           (IF current_group - 1 = 0 THEN 0
            ELSE IF Reloads THEN Act!Counted(offloaded_group_count) ELSE offloaded_group_count)
      /\ current_group' = current_group - 1
      /\ actPc' = "backward"
      /\ UNCHANGED <<actSizes, actBatch, actLayer, actTag, tensor_tag_to_buf, Act!device>>
  <2>1. ~(current_group - 1 < 0 \/ Reloading < 0 \/ (Reloads /\ Reloading \notin group_offload_mapping))
    BY <1>2, <1>3
  <2>. QED
    BY <2>1, Zenon DEF Act!CommitBackward, BackQueue, BackReload, BackBoth, Reloads, Reloading
<1>5. offloaded_group_count' = BackCount
  BY <1>2, <1>4 DEF BackCount
<1>. QED
  BY <1>1, <1>2, <1>4, <1>5 DEF BackTo, Act!device

\* What a group holds after the commit.
LEMMA BackHolds ==
  ASSUME HostInv, AtBack, NEW state, BackTo(state)
  PROVE  /\ DOMAIN state = Act!Groups
         /\ \A g \in Act!Groups :
              IF g > actLayer THEN state[g] = Act!None
              ELSE IF ~Delayed(g) THEN state[g] \in BlocksOf("compute")
              ELSE IF Act!Window(g) < actLayer THEN state[g] = Act!Copied ELSE state[g] \in BlocksOf("h2d")
         /\ \A g \in Act!Groups :
              \/ state[g] = tensor_tag_to_state[g]
              \/ g = Reloading /\ Reloads /\ tensor_tag_to_state[g] = Act!Copied /\ state[g] = Act!Given("h2d")
<1>1. DOMAIN tensor_tag_to_state = Act!Groups /\ Reloading \in Act!Groups
  BY BackFacts DEF HostInv
<1>2. \A g \in Act!Groups :
         IF g > actLayer THEN tensor_tag_to_state[g] = Act!None
         ELSE IF ~Delayed(g) THEN tensor_tag_to_state[g] \in BlocksOf("compute")
         ELSE IF Act!Window(g) < actLayer + 1 THEN tensor_tag_to_state[g] = Act!Copied
         ELSE tensor_tag_to_state[g] \in BlocksOf("h2d")
  BY BackFacts
<1>3. Act!Given("h2d") \in BlocksOf("h2d")
  BY GivenIsNew
<1>4. /\ DOMAIN state = Act!Groups
      /\ \A g \in Act!Groups :
           state[g] = IF g = Reloading /\ Reloads /\ tensor_tag_to_state[g] = Act!Copied THEN Act!Given("h2d")
                      ELSE tensor_tag_to_state[g]
  BY <1>1 DEF BackTo
<1>5. ASSUME NEW g \in Act!Groups
      PROVE  IF g > actLayer THEN state[g] = Act!None
             ELSE IF ~Delayed(g) THEN state[g] \in BlocksOf("compute")
             ELSE IF Act!Window(g) < actLayer THEN state[g] = Act!Copied ELSE state[g] \in BlocksOf("h2d")
  <2>1. tensor_tag_to_state[g] = Act!Copied => ~(g > actLayer) /\ Delayed(g)
    BY <1>2, PlacesDiffer
  <2>2. ASSUME Delayed(g)
        PROVE  /\ Act!Window(g) = actLayer <=> Reloads /\ g = Reloading
               /\ Act!Window(g) < actLayer + 1 <=> Act!Window(g) < actLayer \/ Act!Window(g) = actLayer
               /\ Act!Window(g) = actLayer => ~(Act!Window(g) < actLayer)
    <3>1. g \in 0..(Act!Offload - 1)
      <4>1. g \in Nat /\ g < Act!Offload /\ Act!Offload \in Nat
        BY <2>2, HostTyped DEF Delayed
      <4>. QED
        BY <4>1
    <3>2. Act!Window(g) \in Nat /\ actLayer \in Nat
      BY <3>1, BackCounts, BackFacts
    <3>3. /\ Act!Window(g) < actLayer + 1 <=> Act!Window(g) < actLayer \/ Act!Window(g) = actLayer
          /\ Act!Window(g) = actLayer => ~(Act!Window(g) < actLayer)
      BY <3>2
    <3>. QED
      BY <3>1, <3>3, BackCounts
  <2>. QED
    BY <2>1, <2>2, <1>2, <1>3, <1>4
<1>. QED
  BY <1>4, <1>5

\* The start of a backward layer, on the host (on_group_commit_backward).
LEMMA BackHost ==
  ASSUME HostInv, Act!CommitBackward
  PROVE  HostInv'
<1>1. /\ AtBack /\ actPc' = "backward" /\ BackTo(tensor_tag_to_state')
      /\ group_offload_mapping' = group_offload_mapping \ (IF Reloads THEN {Reloading} ELSE {})
      /\ offloaded_group_count' = BackCount /\ current_group' = actLayer
      /\ UNCHANGED <<actSizes, actBatch, actLayer, actTag, tensor_tag_to_buf>>
  BY BackDoes
<1>2. Back' /\ ~Going' /\ actPc' # "done"
  BY <1>1 DEF Back, Going
<1>3. /\ Act!Groups' = Act!Groups /\ Act!Offload' = Act!Offload /\ Act!Layers' = Act!Layers
      /\ (\A i : Act!Window(i)' = Act!Window(i)) /\ (\A g : Delayed(g)' = Delayed(g))
      /\ BlocksOf("compute")' = BlocksOf("compute") /\ BlocksOf("h2d")' = BlocksOf("h2d")
  BY <1>1 DEF Delayed, Act!Window, Act!Groups, Act!Layers, Act!Offload, BlocksOf
<1>4. /\ actSizes \in ActSizes /\ actBatch \in Nat \ {0} /\ DOMAIN actTag = Act!Groups /\ actLayer \in Act!Groups
      /\ DOMAIN tensor_tag_to_buf = Act!Groups
  BY DEF HostInv
<1>5. /\ DOMAIN tensor_tag_to_state' = Act!Groups
      /\ \A g \in Act!Groups :
           IF g > actLayer THEN tensor_tag_to_state'[g] = Act!None
           ELSE IF ~Delayed(g) THEN tensor_tag_to_state'[g] \in BlocksOf("compute")
           ELSE IF Act!Window(g) < actLayer THEN tensor_tag_to_state'[g] = Act!Copied
           ELSE tensor_tag_to_state'[g] \in BlocksOf("h2d")
  BY <1>1, BackHolds
<1>6. group_offload_mapping' = {g \in 0..(Act!Offload - 1) : Act!Window(g) < actLayer}
  <2>1. group_offload_mapping = {g \in 0..(Act!Offload - 1) : Act!Window(g) < actLayer + 1}
    BY <1>1, BackFacts
  <2>2. ASSUME NEW g \in 0..(Act!Offload - 1)
        PROVE  Act!Window(g) < actLayer <=> Act!Window(g) < actLayer + 1 /\ ~(Reloads /\ g = Reloading)
    <3>1. Act!Window(g) \in Nat /\ actLayer \in Nat
      BY <1>1, BackCounts, BackFacts
    <3>2. Act!Window(g) < actLayer <=> Act!Window(g) < actLayer + 1 /\ ~(Act!Window(g) = actLayer)
      BY <3>1
    <3>. QED
      BY <3>2, <1>1, BackCounts
  <2>. QED
    BY <2>1, <2>2, <1>1
<1>7. \A g \in Act!Groups : tensor_tag_to_buf[g] = Act!None /\ (~(g > actLayer) => actTag[g] = g)
  BY <1>1, BackFacts
<1>8. IF actLayer = 0 THEN BackCount = 0
      ELSE /\ BackCount \in 1..Act!Offload
           /\ BackCount < Act!Offload => Act!Window(BackCount) >= actLayer
           /\ BackCount > 1 => Act!Window(BackCount - 1) < actLayer
  <2>1. actLayer = 0 => BackCount = 0
    BY DEF BackCount
  <2>. QED
    BY <2>1, <1>1, BackCounts
<1>9. actBatch <= ActBatches
  BY <1>1, BackFacts
<1>10. Backwards'
  <2>1. current_group' = (IF actPc' = "backward" THEN actLayer' ELSE actLayer' + 1)
    BY <1>1
  <2>2. IF current_group' = 0 THEN offloaded_group_count' = 0
       ELSE /\ offloaded_group_count' \in 1..Act!Offload
            /\ offloaded_group_count' < Act!Offload => Act!Window(offloaded_group_count') >= current_group'
            /\ offloaded_group_count' > 1 => Act!Window(offloaded_group_count' - 1) < current_group'
    BY <1>1, <1>8
  <2>3. group_offload_mapping' = {g \in 0..(Act!Offload - 1) : Act!Window(g) < current_group'}
    BY <1>1, <1>6
  <2>4. \A g \in Act!Groups :
         /\ tensor_tag_to_buf'[g] = Act!None
         /\ IF g > actLayer' THEN tensor_tag_to_state'[g] = Act!None
            ELSE /\ actTag'[g] = g
                 /\ IF ~Delayed(g) THEN tensor_tag_to_state'[g] \in BlocksOf("compute")
                    ELSE IF Act!Window(g) < current_group' THEN tensor_tag_to_state'[g] = Act!Copied
                    ELSE tensor_tag_to_state'[g] \in BlocksOf("h2d")
    BY <1>1, <1>5, <1>7
  <2>5. actBatch' <= ActBatches
    BY <1>1, <1>9
  <2>. QED
    BY <2>1, <2>2, <2>3, <2>4, <2>5, <1>3 DEF Backwards
<1>11. Forwards' /\ Ends'
  BY <1>2 DEF Forwards, Ends
<1>12. actPc' \in {"forward", "commit forward", "commit backward", "backward", "done"}
  BY <1>1
<1>. QED
  BY <1>1, <1>3, <1>4, <1>5, <1>10, <1>11, <1>12 DEF HostInv

\* What is known, and what is under way, after the commit.
BackCopies == Reloads /\ tensor_tag_to_state[Reloading] = Act!Copied
BackLive ==
  IF BackCopies THEN Placed(Live, Act!Given("h2d"), <<actBatch, Reloading>>) ELSE Live
BackFlying ==
  IF ~Reloads THEN Flying ELSE IF BackCopies THEN {<<actBatch, Reloading>>} ELSE {}

\* The start of a backward layer, in the streams: a copy in, and waits.
LEMMA BackStreams ==
  ASSUME HostInv, AtBack, DOMAIN actMemory = Act!Memory,
         StreamsInv(actDone, actMemory, actQueue, {}, Flying, Live)
  PROVE  /\ StreamsInv(actDone, actMemory, BackReload, {}, BackFlying, BackLive) /\ Homed(BackLive)
<1> DEFINE q1 == Act!WaitStream(actQueue, "h2d", "compute")
           m == Issued(actDone, actQueue, "compute")
<1>1. StreamsInv(actDone, actMemory, q1, {}, Flying, Live) /\ Follows(actDone, q1, "h2d", "d2h", m)
  BY PlacesAreHomed, WaitFirst
<1>2. BackBoth = Act!WaitStream(q1, "compute", "h2d")
  BY DEF BackBoth
<1>. HIDE DEF q1, m
<1>3. StreamsInv(actDone, actMemory, BackBoth, {}, {}, Live)
  BY <1>1, <1>2, PlacesAreHomed, WaitThen
<1>4. Follows(actDone, BackBoth, "h2d", "d2h", m)
  BY <1>1, <1>2, PlacesAreHomed, WaitThen
<1>5. CASE ~Reloads
  BY <1>5, PlacesAreHomed DEF BackReload, BackFlying, BackLive, BackCopies
<1>6. CASE Reloads /\ tensor_tag_to_state[Reloading] # Act!Copied
  BY <1>3, <1>6, PlacesAreHomed DEF BackReload, BackFlying, BackLive, BackCopies, Act!Reloaded
<1>7. CASE Reloads /\ tensor_tag_to_state[Reloading] = Act!Copied
  <2> DEFINE r == Reloading
             b == Act!Given("h2d")
             v == <<actBatch, r>>
             w == [op |-> "copy", from |-> Act!Cpu(r), to |-> b, of |-> v]
  <2>1. r \in Act!Groups /\ r \in Nat /\ v \in Stored
    <3>1. r \in Act!Groups
      BY BackFacts
    <3>. QED
      BY <3>1, HostTyped
  <2>2. b \in BlocksOf("h2d") /\ b \in Act!Device
    BY GivenIsNew
  <2>3. Act!Cpu(r) \in CpuPlace
    BY <2>1 DEF Act!Cpu, CpuPlace
  <2>4. w \in WorkOf("h2d")
    BY <2>1, <2>2, <2>3 DEF WorkOf
  <2>5. w.op = "copy" /\ w.from = Act!Cpu(r) /\ w.to = b /\ w.of = v
    OBVIOUS
  <2>6. BackReload = Act!Put(BackBoth, "h2d", w) /\ BackLive = Placed(Live, b, v) /\ BackFlying = {v}
    BY <1>7 DEF BackReload, Act!Reloaded, BackLive, BackFlying, BackCopies
  <2>. HIDE DEF w
  <2>7. <<Act!Cpu(r), v>> \in Live
    BY <1>7, <2>1 DEF Live
  <2>. HIDE DEF r, b, v
  <2>8. <<w.from, w.of>> \in Live /\ w.of \in {v} /\ w.to \in DOMAIN actMemory
    BY <2>2, <2>5, <2>7 DEF Act!Memory
  <2>9. StreamsInv(actDone, actMemory, BackBoth, {}, {v}, Live)
    BY <1>3, KnownLess
  <2>10. /\ StreamsInv(actDone, actMemory, Act!Put(BackBoth, "h2d", w), {}, {v}, Placed(Live, w.to, w.of))
         /\ Homed(Placed(Live, w.to, w.of))
    BY <1>4, <2>4, <2>5, <2>8, <2>9, PlacesAreHomed, PutCopy
  <2>. QED
    BY <2>5, <2>6, <2>10
<1>. QED
  BY <1>5, <1>6, <1>7

\* The start of a backward layer keeps the invariant.
LEMMA BackStep ==
  ASSUME ActInvariant, Act!CommitBackward
  PROVE  ActInvariant'
<1>1. HostInv /\ DOMAIN actMemory = Act!Memory /\ ~actWrong /\ StreamsInv(actDone, actMemory, actQueue, Keeping, Flying, Live)
  BY DEF ActInvariant
<1>2. /\ AtBack /\ actPc' = "backward" /\ actQueue' = BackQueue /\ BackTo(tensor_tag_to_state')
      /\ current_group' = actLayer
      /\ UNCHANGED <<actSizes, actBatch, actLayer, actTag, tensor_tag_to_buf, actDone, actMemory, actWrong>>
  BY <1>1, BackDoes
<1>3. HostInv'
  BY <1>1, BackHost
<1>4. Keeping = {}
  BY <1>1, <1>2, BackFacts DEF Keeping
<1>5. StreamsInv(actDone, actMemory, BackReload, {}, BackFlying, BackLive) /\ Homed(BackLive)
  BY <1>1, <1>2, <1>4, BackStreams
<1>6. /\ Act!Groups' = Act!Groups /\ Act!Memory' = Act!Memory /\ Act!Device' = Act!Device /\ Act!Offload' = Act!Offload
      /\ (\A i : Act!Window(i)' = Act!Window(i)) /\ (\A g : Delayed(g)' = Delayed(g))
      /\ \A g : Act!Cpu(g)' = Act!Cpu(g)
  BY <1>2 DEF Act!Groups, Act!Layers, Act!Offload, Act!Memory, Act!Device, Act!Cpu, Act!Window, Delayed
<1>7. Keeping' = {}
  BY <1>2, <1>4, <1>6 DEF Keeping
<1>8. current_group = actLayer + 1 /\ current_group - 1 = actLayer /\ actLayer \in Nat /\ Back /\ Back'
  BY <1>1, <1>2, BackFacts DEF Back
<1>9. StreamsInv(actDone, actMemory, actQueue', {}, IF actLayer = 0 THEN {} ELSE BackFlying, BackLive)
  <2>1. CASE actLayer = 0
    <3>1. actQueue' = Act!WaitStream(BackReload, "compute", "h2d")
      BY <2>1, <1>2, <1>8 DEF BackQueue
    <3>. QED
      BY <2>1, <3>1, <1>5, WaitThen
  <2>2. CASE actLayer # 0
    BY <2>2, <1>2, <1>5, <1>8 DEF BackQueue
  <2>. QED
    BY <2>1, <2>2
<1>10. Flying' = {<<actBatch, g>> : g \in {z \in 0..(Act!Offload - 1) :
                     /\ 0 < actLayer /\ actLayer <= Act!Window(z) /\ (z > 0 => Act!Window(z - 1) < actLayer)
                     /\ Delayed(z)}}
  BY <1>2, <1>6, <1>8 DEF Flying
<1>11. ASSUME actLayer # 0 PROVE BackFlying \subseteq Flying'
  <2>1. 0 < actLayer
    BY <1>8, <1>11
  <2>2. CASE ~Reloads
    <3>1. ASSUME NEW z \in 0..(Act!Offload - 1), current_group <= Act!Window(z),
                 z > 0 => Act!Window(z - 1) < current_group
          PROVE  actLayer <= Act!Window(z) /\ (z > 0 => Act!Window(z - 1) < actLayer)
      <4>1. Act!Window(z) \in Nat
        BY <1>1, <1>2, BackCounts
      <4>2. actLayer <= Act!Window(z)
        BY <3>1, <4>1, <1>8
      <4>3. ASSUME z > 0 PROVE Act!Window(z - 1) < actLayer
        <5>1. z - 1 \in 0..(Act!Offload - 1)
          <6>1. z \in Nat /\ Act!Offload \in Nat
            BY <1>1, HostTyped
          <6>. QED
            BY <6>1, <4>3
        <5>2. Act!Window(z - 1) \in Nat /\ Act!Window(z - 1) # actLayer
          BY <5>1, <2>2, <1>1, <1>2, BackCounts
        <5>3. Act!Window(z - 1) < actLayer + 1
          BY <3>1, <4>3, <1>8
        <5>. QED
          BY <5>2, <5>3, <1>8
      <4>. QED
        BY <4>2, <4>3
    <3>2. BackFlying = {<<actBatch, g>> : g \in {z \in 0..(Act!Offload - 1) :
                     /\ 0 < current_group /\ current_group <= Act!Window(z)
                     /\ (z > 0 => Act!Window(z - 1) < current_group) /\ Delayed(z)}}
      BY <2>2, <1>8 DEF BackFlying, Flying
    <3>. QED
      BY <2>1, <3>1, <3>2, <1>10
  <2>3. CASE BackCopies
    <3>1. BackFlying = {<<actBatch, Reloading>>} /\ Reloads
      BY <2>3 DEF BackFlying, BackCopies
    <3>2. /\ Reloading \in 0..(Act!Offload - 1) /\ Reloading \in Act!Groups /\ Act!Window(Reloading) = actLayer
          /\ Act!Window(Reloading) \in Nat
      BY <3>1, <1>1, <1>2, BackFacts, BackCounts
    <3>3. actLayer <= Act!Window(Reloading)
      BY <3>2, <1>8
    <3>4. ASSUME Reloading > 0 PROVE Act!Window(Reloading - 1) < actLayer
      <4>1. Reloading \in Nat /\ Act!Offload \in Nat
        BY <3>2, <1>1, HostTyped
      <4>2. Reloading - 1 \in 0..(Act!Offload - 1) /\ Reloading - 1 < Reloading
        BY <3>2, <3>4, <4>1
      <4>. QED
        BY <3>2, <4>2, <1>1, Windows, HostTyped
    <3>5. Delayed(Reloading)
      <4>1. tensor_tag_to_state[Reloading] = Act!Copied
        BY <2>3 DEF BackCopies
      <4>. QED
        BY <4>1, <3>2, <1>1, <1>2, BackFacts, PlacesDiffer
    <3>. QED
      BY <2>1, <3>1, <3>2, <3>3, <3>4, <3>5, <1>10
  <2>4. CASE Reloads /\ ~BackCopies
    BY <2>4 DEF BackFlying
  <2>. QED
    BY <2>2, <2>3, <2>4
<1>12. (IF actLayer = 0 THEN {} ELSE BackFlying) \subseteq Flying'
  BY <1>11
<1>13. Live' \subseteq BackLive
  <2>1. /\ \A g \in Act!Groups :
             \/ tensor_tag_to_state'[g] = tensor_tag_to_state[g]
             \/ g = Reloading /\ BackCopies /\ tensor_tag_to_state'[g] = Act!Given("h2d")
    BY <1>1, <1>2, BackHolds DEF BackCopies
  <2>2. Act!Given("h2d") \in Act!Device /\ \A h \in Live : h[1] # Act!Given("h2d")
    BY <1>1, GivenIsNew
  <2>3. Live \subseteq BackLive
    BY <2>2 DEF BackLive, Placed
  <2>4. Act!Given("h2d") # Act!Copied
    BY <2>2, PlacesDiffer
  <2>5. ASSUME NEW g \in Act!Groups, tensor_tag_to_state'[g] \in Act!Device
        PROVE  <<tensor_tag_to_state'[g], <<actBatch, g>>>> \in BackLive
    <3>1. CASE tensor_tag_to_state'[g] = tensor_tag_to_state[g]
      <4>1. <<tensor_tag_to_state[g], <<actBatch, g>>>> \in Live
        BY <3>1, <2>5 DEF Live
      <4>. QED
        BY <4>1, <3>1, <2>3
    <3>2. CASE g = Reloading /\ BackCopies /\ tensor_tag_to_state'[g] = Act!Given("h2d")
      BY <3>2 DEF BackLive, Placed
    <3>. QED
      BY <3>1, <3>2, <2>1
  <2>6. ASSUME NEW g \in Act!Groups, tensor_tag_to_state'[g] = Act!Copied
        PROVE  <<Act!Cpu(g), <<actBatch, g>>>> \in BackLive
    <3>1. tensor_tag_to_state[g] = Act!Copied
      BY <2>1, <2>4, <2>6
    <3>2. <<Act!Cpu(g), <<actBatch, g>>>> \in Live
      BY <3>1 DEF Live
    <3>. QED
      BY <3>2, <2>3
  <2>. HIDE DEF Live
  <2>7. actBatch' = actBatch
    BY <1>2
  <2>. QED
    BY <2>5, <2>6, <2>7, <1>6 DEF Live
<1>14. StreamsInv(actDone, actMemory, actQueue', Keeping', Flying', Live')
  BY <1>7, <1>9, <1>12, <1>13, KnownLess
<1>. QED
  BY <1>1, <1>2, <1>3, <1>6, <1>14 DEF ActInvariant

-----------------------------------------------------------------------------
\* A layer's backward pass has its block, and it is not under way.
LEMMA PopDoes ==
  ASSUME HostInv, Act!Pop
  PROVE  /\ Back /\ ~Going /\ actLayer \in Nat /\ actLayer \in Act!Groups /\ actTag[actLayer] = actLayer /\ current_group = actLayer
         /\ actPc = "backward" /\ actBatch <= ActBatches
         /\ tensor_tag_to_state[actLayer] \in BlocksOf("compute") \cup BlocksOf("h2d")
         /\ <<actBatch, actLayer>> \notin Flying
         /\ actLayer = 0 => Flying = {}
         /\ actQueue' = Act!Put(actQueue, "compute", [op |-> "read", from |-> tensor_tag_to_state[actLayer],
                                            of |-> <<actBatch, actLayer>>])
         /\ tensor_tag_to_state' = [tensor_tag_to_state EXCEPT ![actLayer] = Act!None]
         /\ DOMAIN tensor_tag_to_buf' = Act!Groups /\ \A g \in Act!Groups : tensor_tag_to_buf'[g] = Act!None
         /\ IF actLayer > 0
            THEN actLayer' = actLayer - 1 /\ actPc' = "commit backward" /\ UNCHANGED actBatch
            ELSE /\ actBatch' = actBatch + 1 /\ UNCHANGED actLayer
                 /\ actPc' = (IF actBatch < ActBatches THEN "forward" ELSE "done")
         /\ UNCHANGED <<actSizes, actTag, current_group, offloaded_group_count,
                        group_offload_mapping, actDone, actMemory, actWrong>>
<1>1. actPc = "backward" /\ Back /\ ~Going
  BY DEF Act!Pop, Back, Going
<1>2. actLayer \in Nat /\ actLayer \in Act!Groups /\ Act!Offload \in Nat
  <2>1. actLayer \in Act!Groups /\ Act!Groups \subseteq Nat
    BY HostTyped
  <2>. QED
    BY <2>1, HostTyped
<1>3. actBatch <= ActBatches /\ current_group = actLayer
  BY <1>1 DEF HostInv, Backwards
<1>4. \A g \in Act!Groups :
         /\ tensor_tag_to_buf[g] = Act!None
         /\ IF g > actLayer THEN tensor_tag_to_state[g] = Act!None
            ELSE /\ actTag[g] = g
                 /\ IF ~Delayed(g) THEN tensor_tag_to_state[g] \in BlocksOf("compute")
                    ELSE IF Act!Window(g) < current_group THEN tensor_tag_to_state[g] = Act!Copied
                    ELSE tensor_tag_to_state[g] \in BlocksOf("h2d")
  BY <1>1 DEF HostInv, Backwards
<1>5. ~(actLayer > actLayer)
  BY <1>2
<1>6. Delayed(actLayer) => ~(Act!Window(actLayer) < actLayer)
  <2>1. SUFFICES ASSUME Delayed(actLayer) PROVE ~(Act!Window(actLayer) < actLayer)
    OBVIOUS
  <2>2. actLayer < Act!Offload
    BY <2>1 DEF Delayed
  <2>3. actLayer \in 0..(Act!Offload - 1) /\ Act!Layers \in Nat
    BY <2>2, <1>2, HostTyped
  <2>4. Act!Window(actLayer) \in actLayer..(Act!Layers - 1)
    BY <2>3, Windows, HostTyped
  <2>. QED
    BY <2>3, <2>4, <1>2
<1>7. actTag[actLayer] = actLayer /\ tensor_tag_to_state[actLayer] \in BlocksOf("compute") \cup BlocksOf("h2d")
  BY <1>2, <1>3, <1>4, <1>5, <1>6
<1>8. tensor_tag_to_state[actLayer] # Act!None /\ tensor_tag_to_state[actLayer] # Act!Copied
  BY <1>7, PlacesDiffer
<1>9. actLayer = 0 => Flying = {}
  <2>1. actLayer = 0 => ~(0 < current_group)
    BY <1>3
  <2>. QED
    BY <2>1 DEF Flying
<1>10. <<actBatch, actLayer>> \notin Flying
  <2>1. SUFFICES ASSUME <<actBatch, actLayer>> \in Flying PROVE FALSE
    OBVIOUS
  <2>2. PICK z \in 0..(Act!Offload - 1) :
          /\ <<actBatch, z>> = <<actBatch, actLayer>> /\ (z > 0 => Act!Window(z - 1) < current_group) /\ Delayed(z)
          /\ 0 < current_group
    BY <2>1 DEF Flying
  <2>3. z = actLayer
    BY <2>2
  <2>4. actLayer > 0 /\ Delayed(actLayer) /\ Act!Window(actLayer - 1) < actLayer
    BY <2>2, <2>3, <1>2, <1>3
  <2>5. Act!Window(actLayer - 1) >= actLayer
    BY <2>4 DEF Delayed
  <2>6. actLayer - 1 \in 0..(Act!Offload - 1) /\ Act!Layers \in Nat
    <3>1. actLayer < Act!Offload
      BY <2>4 DEF Delayed
    <3>. QED
      BY <3>1, <2>4, <1>2, HostTyped
  <2>7. Act!Window(actLayer - 1) \in (actLayer - 1)..(Act!Layers - 1)
    BY <2>6, Windows, HostTyped
  <2>8. Act!Window(actLayer - 1) \in Int
    BY <2>6, <2>7
  <2>. QED
    BY <2>4, <2>5, <2>8, <1>2
<1>11. /\ actQueue' = Act!Put(actQueue, "compute", [op |-> "read", from |-> tensor_tag_to_state[actLayer],
                                          of |-> <<actBatch, actLayer>>])
       /\ tensor_tag_to_state' = [tensor_tag_to_state EXCEPT ![actLayer] = Act!None]
       /\ tensor_tag_to_buf' = [tensor_tag_to_buf EXCEPT ![actLayer] = Act!None]
       /\ IF actLayer > 0
          THEN actLayer' = actLayer - 1 /\ actPc' = "commit backward" /\ UNCHANGED actBatch
          ELSE /\ actBatch' = actBatch + 1 /\ UNCHANGED actLayer
               /\ actPc' = (IF actBatch < ActBatches THEN "forward" ELSE "done")
       /\ UNCHANGED <<actSizes, actTag, current_group, offloaded_group_count, group_offload_mapping, Act!device>>
  <2>1. tensor_tag_to_state[actTag[actLayer]] \notin {Act!None, Act!Copied}
    BY <1>7, <1>8
  <2>. QED
    BY <2>1, <1>7 DEF Act!Pop
<1>12. DOMAIN tensor_tag_to_buf' = Act!Groups /\ \A g \in Act!Groups : tensor_tag_to_buf'[g] = Act!None
  <2>1. DOMAIN tensor_tag_to_buf = Act!Groups
    BY DEF HostInv
  <2>. QED
    BY <2>1, <1>4, <1>11
<1>. QED
  BY <1>1, <1>2, <1>3, <1>7, <1>9, <1>10, <1>11, <1>12 DEF Act!device

\* A layer that asks for its block, on the host (tensor_pop).
LEMMA PopHost ==
  ASSUME HostInv, Act!Pop
  PROVE  HostInv'
<1>1. /\ Back /\ actLayer \in Nat /\ actLayer \in Act!Groups /\ current_group = actLayer
      /\ actBatch <= ActBatches
      /\ tensor_tag_to_state' = [tensor_tag_to_state EXCEPT ![actLayer] = Act!None]
      /\ DOMAIN tensor_tag_to_buf' = Act!Groups /\ \A g \in Act!Groups : tensor_tag_to_buf'[g] = Act!None
      /\ UNCHANGED <<actSizes, actTag, current_group, offloaded_group_count, group_offload_mapping>>
  BY PopDoes
<1>2. IF actLayer > 0
      THEN actLayer' = actLayer - 1 /\ actPc' = "commit backward" /\ UNCHANGED actBatch
      ELSE /\ actBatch' = actBatch + 1 /\ UNCHANGED actLayer
           /\ actPc' = (IF actBatch < ActBatches THEN "forward" ELSE "done")
  BY PopDoes
<1>3. /\ Act!Groups' = Act!Groups /\ Act!Offload' = Act!Offload /\ Act!Layers' = Act!Layers
      /\ (\A i : Act!Window(i)' = Act!Window(i)) /\ (\A g : Delayed(g)' = Delayed(g))
      /\ BlocksOf("compute")' = BlocksOf("compute") /\ BlocksOf("h2d")' = BlocksOf("h2d")
  BY <1>1 DEF Delayed, Act!Window, Act!Groups, Act!Layers, Act!Offload, BlocksOf
<1>4. /\ actSizes \in ActSizes /\ actBatch \in Nat \ {0} /\ DOMAIN actTag = Act!Groups
      /\ DOMAIN tensor_tag_to_state = Act!Groups
  BY DEF HostInv
<1>5. /\ IF current_group = 0 THEN offloaded_group_count = 0
         ELSE /\ offloaded_group_count \in 1..Act!Offload
              /\ offloaded_group_count < Act!Offload => Act!Window(offloaded_group_count) >= current_group
              /\ offloaded_group_count > 1 => Act!Window(offloaded_group_count - 1) < current_group
      /\ group_offload_mapping = {g \in 0..(Act!Offload - 1) : Act!Window(g) < current_group}
      /\ \A g \in Act!Groups :
           IF g > actLayer THEN tensor_tag_to_state[g] = Act!None
           ELSE /\ actTag[g] = g
                /\ IF ~Delayed(g) THEN tensor_tag_to_state[g] \in BlocksOf("compute")
                   ELSE IF Act!Window(g) < current_group THEN tensor_tag_to_state[g] = Act!Copied
                   ELSE tensor_tag_to_state[g] \in BlocksOf("h2d")
  BY <1>1 DEF HostInv, Backwards
<1>6. /\ DOMAIN tensor_tag_to_state' = Act!Groups
      /\ \A g \in Act!Groups : tensor_tag_to_state'[g] = IF g = actLayer THEN Act!None ELSE tensor_tag_to_state[g]
  BY <1>1, <1>4
<1>7. Act!Groups = 0..(Act!Layers - 1) /\ Act!Layers \in Nat /\ Act!Offload \in Nat /\ 1 <= Act!Offload
  BY HostTyped
<1>8. CASE actLayer > 0
  <2>1. actLayer' = actLayer - 1 /\ actPc' = "commit backward" /\ actBatch' = actBatch
    BY <1>2, <1>8
  <2>2. Back' /\ ~Going' /\ actPc' # "done" /\ actPc' # "backward"
    BY <2>1 DEF Back, Going
  <2>3. actLayer' \in Act!Groups /\ current_group' = actLayer' + 1
    <3>1. actLayer - 1 \in 0..(Act!Layers - 1) /\ actLayer = (actLayer - 1) + 1
      BY <1>1, <1>7, <1>8
    <3>2. actLayer' = actLayer - 1
      BY <2>1
    <3>. QED
      BY <3>1, <3>2, <1>1, <1>7
  <2>4. \A g \in Act!Groups :
         IF g > actLayer' THEN tensor_tag_to_state'[g] = Act!None
         ELSE /\ actTag[g] = g
              /\ IF ~Delayed(g) THEN tensor_tag_to_state'[g] \in BlocksOf("compute")
                 ELSE IF Act!Window(g) < current_group THEN tensor_tag_to_state'[g] = Act!Copied
                 ELSE tensor_tag_to_state'[g] \in BlocksOf("h2d")
    <3>1. ASSUME NEW g \in Act!Groups
          PROVE  /\ g > actLayer' => g = actLayer \/ g > actLayer
                 /\ ~(g > actLayer') => g # actLayer /\ ~(g > actLayer)
      <4>1. actLayer' = actLayer - 1
        BY <2>1
      <4>2. g \in Nat
        BY HostTyped
      <4>. QED
        BY <4>1, <4>2, <1>1
    <3>. QED
      BY <3>1, <1>5, <1>6
  <2>5. Backwards'
    BY <2>1, <2>2, <2>3, <2>4, <1>1, <1>3, <1>5 DEF Backwards
  <2>6. Forwards' /\ Ends'
    BY <2>2 DEF Forwards, Ends
  <2>7. actPc' \in {"forward", "commit forward", "commit backward", "backward", "done"}
    BY <2>1
  <2>. QED
    BY <2>1, <2>3, <2>5, <2>6, <2>7, <1>1, <1>3, <1>4, <1>6 DEF HostInv
<1>9. CASE ~(actLayer > 0)
  <2>1. actLayer = 0
    BY <1>1, <1>9
  <2>2. actBatch' = actBatch + 1 /\ actLayer' = 0 /\ actPc' = (IF actBatch < ActBatches THEN "forward" ELSE "done")
    BY <2>1, <1>2, <1>9
  <2>3. ~Back' /\ actPc' # "commit forward"
    BY <2>2 DEF Back
  <2>4. current_group' = 0 /\ offloaded_group_count' = 0
    BY <2>1, <1>1, <1>5
  <2>5. \A g \in 0..(Act!Offload - 1) : Act!Window(g) \in Nat
    <3>1. ASSUME NEW g \in 0..(Act!Offload - 1) PROVE Act!Window(g) \in Nat
      <4>1. Act!Window(g) \in g..(Act!Layers - 1) /\ g \in Nat
        BY Windows, HostTyped
      <4>. QED
        BY <4>1, <1>7
    <3>. QED
      BY <3>1
  <2>6. group_offload_mapping' = {}
    <3>1. \A g \in 0..(Act!Offload - 1) : ~(Act!Window(g) < 0)
      BY <2>5
    <3>2. group_offload_mapping = {g \in 0..(Act!Offload - 1) : Act!Window(g) < 0}
      BY <2>1, <1>1, <1>5
    <3>. QED
      BY <3>1, <3>2, <1>1
  <2>7. \A g \in Act!Groups : tensor_tag_to_state'[g] = Act!None /\ tensor_tag_to_buf'[g] = Act!None
    <3>1. ASSUME NEW g \in Act!Groups PROVE g = actLayer \/ g > actLayer
      <4>1. g \in Nat
        BY HostTyped
      <4>. QED
        BY <4>1, <2>1
    <3>. QED
      BY <3>1, <1>1, <1>5, <1>6
  <2>8. actBatch \in Nat /\ ActBatches \in Nat /\ actBatch + 1 \in Nat \ {0}
        /\ (actBatch < ActBatches => actBatch + 1 <= ActBatches) /\ (~(actBatch < ActBatches) => actBatch + 1 = ActBatches + 1)
    BY <1>1, <1>4, ActSizesAre DEF Act!ActivationOffloadAssumption
  <2>9. ASSUME NEW g \in Act!Groups PROVE ~(g < 0)
    <3>1. g \in Nat
      BY HostTyped
    <3>. QED
      BY <3>1
  <2>10. 0 \in 0..(Act!Offload - 1) /\ ~(0 > 0)
    BY <1>7
  <2>11. Act!Window(0) >= 0
    <3>1. Act!Window(0) \in Nat
      BY <2>5, <2>10
    <3>. QED
      BY <3>1
  <2>12. Forwards'
    <3>1. SUFFICES ASSUME Going' PROVE Forwards'
      BY DEF Forwards
    <3>2. actBatch' <= ActBatches /\ Pushed' = 0
      <4>1. actBatch < ActBatches
        BY <3>1, <2>2 DEF Going
      <4>2. Pushed' = actLayer'
        BY <2>3 DEF Pushed
      <4>. QED
        BY <4>1, <4>2, <2>2, <2>8
    <3>. QED
      BY <3>2, <2>2, <2>4, <2>6, <2>7, <2>9, <2>10, <2>11, <1>3 DEF Forwards
  <2>13. Backwards'
    BY <2>3 DEF Backwards
  <2>14. Ends'
    <3>1. SUFFICES ASSUME actPc' = "done" PROVE Ends'
      BY DEF Ends
    <3>2. actBatch' = ActBatches + 1
      BY <3>1, <2>2, <2>8
    <3>. QED
      BY <3>2, <2>4, <2>6, <2>7, <1>3 DEF Ends
  <2>15. actPc' \in {"forward", "commit forward", "commit backward", "backward", "done"}
    BY <2>2
  <2>16. actLayer' \in Act!Groups /\ actBatch' \in Nat \ {0}
    BY <2>1, <2>2, <2>8, <1>1
  <2>. QED
    BY <2>12, <2>13, <2>14, <2>15, <2>16, <1>1, <1>3, <1>4, <1>6 DEF HostInv
<1>. QED
  BY <1>8, <1>9

\* A layer that asks for its block keeps the invariant: the block is what it saved.
LEMMA PopStep ==
  ASSUME ActInvariant, Act!Pop
  PROVE  ActInvariant'
<1>1. HostInv /\ DOMAIN actMemory = Act!Memory /\ ~actWrong /\ StreamsInv(actDone, actMemory, actQueue, Keeping, Flying, Live)
  BY DEF ActInvariant
<1>2. /\ Back /\ actLayer \in Act!Groups /\ actLayer \in Nat
      /\ tensor_tag_to_state[actLayer] \in BlocksOf("compute") \cup BlocksOf("h2d")
      /\ <<actBatch, actLayer>> \notin Flying
      /\ actQueue' = Act!Put(actQueue, "compute", [op |-> "read", from |-> tensor_tag_to_state[actLayer],
                                         of |-> <<actBatch, actLayer>>])
      /\ tensor_tag_to_state' = [tensor_tag_to_state EXCEPT ![actLayer] = Act!None]
      /\ \A g \in Act!Groups : tensor_tag_to_buf'[g] = Act!None
      /\ UNCHANGED <<actSizes, current_group, actDone, actMemory, actWrong>>
  BY <1>1, PopDoes
<1>3. HostInv'
  BY <1>1, PopHost
<1> DEFINE b == tensor_tag_to_state[actLayer]
           v == <<actBatch, actLayer>>
           w == [op |-> "read", from |-> b, of |-> v]
<1>4. b \in Act!Device /\ v \in Stored
  BY <1>1, <1>2, PlacesDiffer, HostTyped
<1>5. w \in WorkOf("compute") /\ w.op = "read" /\ w.from = b /\ w.of = v
  BY <1>2, <1>4 DEF WorkOf
<1>6. <<b, v>> \in Live
  BY <1>2, <1>4 DEF Live
<1>7. actQueue' = Act!Put(actQueue, "compute", w)
  BY <1>2
<1>. HIDE DEF w, b
<1>8. StreamsInv(actDone, actMemory, actQueue', Keeping, Flying, Live)
  BY <1>1, <1>2, <1>5, <1>6, <1>7, PlacesAreHomed, PutRead DEF v
<1>9. /\ Act!Groups' = Act!Groups /\ Act!Memory' = Act!Memory /\ Act!Device' = Act!Device /\ Act!Offload' = Act!Offload
      /\ (\A i : Act!Window(i)' = Act!Window(i)) /\ (\A g : Delayed(g)' = Delayed(g))
      /\ \A g : Act!Cpu(g)' = Act!Cpu(g)
  BY <1>2 DEF Act!Groups, Act!Layers, Act!Offload, Act!Memory, Act!Device, Act!Cpu, Act!Window, Delayed
<1>10. Keeping \subseteq Keeping'
  <2>1. Keeping = {}
    <3>1. \A g \in Act!Groups : tensor_tag_to_buf[g] = Act!None
      BY <1>1, <1>2 DEF HostInv, Backwards
    <3>. QED
      BY <3>1 DEF Keeping
  <2>. QED
    BY <2>1
<1>11. Flying \subseteq Flying'
  <2>1. CASE actLayer > 0
    <3>1. actBatch' = actBatch /\ Back'
      BY <2>1, <1>1, PopDoes DEF Back
    <3>. QED
      BY <3>1, <1>2, <1>9 DEF Flying
  <2>2. CASE ~(actLayer > 0)
    <3>1. actLayer = 0
      BY <2>2, <1>2
    <3>. QED
      BY <3>1, <1>1, PopDoes
  <2>. QED
    BY <2>1, <2>2
<1>12. Live' \subseteq Live
  <2>1. \A g \in Act!Groups : tensor_tag_to_state'[g] = IF g = actLayer THEN Act!None ELSE tensor_tag_to_state[g]
    <3>1. DOMAIN tensor_tag_to_state = Act!Groups
      BY <1>1 DEF HostInv
    <3>. QED
      BY <3>1, <1>2
  <2>2. CASE actLayer > 0
    <3>1. actBatch' = actBatch
      BY <2>2, <1>1, PopDoes
    <3>. QED
      BY <3>1, <2>1, <1>9, PlacesDiffer DEF Live
  <2>3. CASE ~(actLayer > 0)
    <3>1. \A g \in Act!Groups : tensor_tag_to_state'[g] = Act!None
      <4>1. ASSUME NEW g \in Act!Groups PROVE g = actLayer \/ g > actLayer
        <5>1. g \in Nat
          BY <1>1, HostTyped
        <5>. QED
          BY <5>1, <2>3, <1>2
      <4>2. \A g \in Act!Groups : g > actLayer => tensor_tag_to_state[g] = Act!None
        BY <1>1, <1>2 DEF HostInv, Backwards
      <4>. QED
        BY <4>1, <4>2, <2>1
    <3>. QED
      BY <3>1, <1>9, PlacesDiffer DEF Live
  <2>. QED
    BY <2>2, <2>3
<1>13. StreamsInv(actDone, actMemory, actQueue', Keeping', Flying', Live')
  BY <1>8, <1>10, <1>11, <1>12, KnownLess
<1>. QED
  BY <1>1, <1>2, <1>3, <1>9, <1>13 DEF ActInvariant

-----------------------------------------------------------------------------
\* Nothing is known, and nothing given, at first.
LEMMA ActInit == Act!Init => ActInvariant
<1>1. SUFFICES ASSUME Act!Init PROVE ActInvariant
  OBVIOUS
<1>2. actSizes \in ActSizes
  BY <1>1 DEF Act!Init
<1>3. Act!Layers \in Nat /\ Act!Offload \in Nat /\ 1 <= Act!Offload /\ Act!Offload <= Act!Layers
  BY <1>2, SizesAre
<1>4. 0 \in Act!Groups /\ 0 \in 0..(Act!Offload - 1)
  BY <1>3 DEF Act!Groups
<1>5. /\ actPc = "forward" /\ actLayer = 0 /\ actBatch = 1 /\ current_group = 0 /\ offloaded_group_count = 0
      /\ group_offload_mapping = {} /\ actWrong = FALSE
      /\ actTag = [l \in Act!Groups |-> 0]
      /\ tensor_tag_to_state = [g \in Act!Groups |-> Act!None]
      /\ tensor_tag_to_buf = [g \in Act!Groups |-> Act!None]
      /\ actQueue = [s \in Act!Streams |-> <<>>] /\ actDone = [s \in Act!Streams |-> 0]
      /\ actMemory = [c \in Act!Memory |-> Act!None]
  BY <1>1 DEF Act!Init
<1>6. Going /\ ~Back /\ actPc # "done" /\ Pushed = 0
  BY <1>5 DEF Going, Back, Pushed
<1>7. Act!Window(0) >= 0
  <2>1. Act!Window(0) \in 0..(Act!Layers - 1)
    BY <1>2, <1>4, Windows
  <2>. QED
    BY <2>1, <1>3
<1>8. 1 <= ActBatches
  BY ActSizesAre DEF Act!ActivationOffloadAssumption
<1>9. \A g \in Act!Groups : ~(g < 0)
  <2>1. ASSUME NEW g \in 0..(Act!Layers - 1) PROVE ~(g < 0)
    BY <1>3
  <2>. QED
    BY <2>1 DEF Act!Groups
<1>10. Forwards
  BY <1>4, <1>5, <1>6, <1>7, <1>8, <1>9 DEF Forwards
<1>11. HostInv
  BY <1>2, <1>4, <1>5, <1>6, <1>10 DEF HostInv, Backwards, Ends
<1>12. Keeping = {} /\ Flying = {} /\ Live = {}
  BY <1>5, <1>6, PlacesDiffer DEF Keeping, Flying, Live
<1>13. ASSUME NEW s \in Act!Streams
       PROVE  /\ Pending(actDone, actQueue, s) = {} /\ actQueue[s] \in Seq(WorkOf(s))
  <2>1. actQueue[s] = <<>> /\ actDone[s] = 0
    BY <1>5
  <2>2. Issued(actDone, actQueue, s) = 0
    BY <2>1 DEF Issued
  <2>. QED
    BY <2>1, <2>2 DEF Pending
<1>14. WorkOK(actDone, actMemory, actQueue)
  BY <1>5, <1>13 DEF WorkOK
<1>15. "d2h" \in Act!Streams /\ "h2d" \in Act!Streams
  BY DEF Act!Streams
<1>16. StreamsInv(actDone, actMemory, actQueue, {}, {}, {})
  BY <1>13, <1>14, <1>15 DEF StreamsInv, FindsAll, Settled, Arrived, HoldsAll
<1>. QED
  BY <1>5, <1>11, <1>12, <1>16 DEF ActInvariant

\* The invariant is one of the state of the offload alone.
LEMMA ActStays == ActInvariant /\ UNCHANGED Act!vars => ActInvariant'
<1>1. SUFFICES ASSUME ActInvariant, UNCHANGED Act!vars PROVE ActInvariant'
  OBVIOUS
<1>2. UNCHANGED <<actSizes, actBatch, actPc, actLayer, actTag, current_group, offloaded_group_count,
                  tensor_tag_to_state, tensor_tag_to_buf, group_offload_mapping, actQueue, actDone,
                  actMemory, actWrong>>
  BY <1>1 DEF Act!vars, Act!handler, Act!device
<1>3. Keeping' = Keeping /\ Flying' = Flying /\ Live' = Live /\ Act!Memory' = Act!Memory
  BY <1>2 DEF Keeping, Flying, Delayed, Live, Act!Groups, Act!Layers, Act!Offload, Act!Device, Act!Memory, Act!Window, Back
<1>4. HostInv /\ DOMAIN actMemory = Act!Memory /\ ~actWrong /\ StreamsInv(actDone, actMemory, actQueue, Keeping, Flying, Live)
  BY <1>1 DEF ActInvariant
<1>5. HostInv'
  BY <1>2, <1>4 DEF HostInv, Forwards, Backwards, Ends, Going, Back, Pushed, Delayed,
                    Act!Window, Act!Groups, Act!Layers, Act!Offload
<1>. QED
  BY <1>2, <1>3, <1>4, <1>5 DEF ActInvariant

\* Every step of the host and of the streams keeps it.
LEMMA ActStep == ActInvariant /\ Act!Next => ActInvariant'
<1>1. ASSUME ActInvariant, Act!Push PROVE ActInvariant'
  BY <1>1, PushStep
<1>2. ASSUME ActInvariant, Act!CommitForward PROVE ActInvariant'
  BY <1>2, CommitStep
<1>3. ASSUME ActInvariant, Act!CommitBackward PROVE ActInvariant'
  BY <1>3, BackStep
<1>4. ASSUME ActInvariant, Act!Pop PROVE ActInvariant'
  BY <1>4, PopStep
<1>5. ASSUME ActInvariant, NEW s \in Act!Streams, Act!Work(s) PROVE ActInvariant'
  BY <1>5, WorkStep
<1>. QED
  BY <1>1, <1>2, <1>3, <1>4, <1>5 DEF Act!Next, Act!Host

-----------------------------------------------------------------------------
\* With one layer that is not copied there is a block of two layers at most.
LEMMA OnTheDevice ==
  ASSUME HostInv, Act!Offload = Act!Layers - 1, NEW g \in Act!OnDevice
  PROVE  g \in {actLayer - 1, actLayer}
<1>1. /\ g \in Act!Groups /\ (tensor_tag_to_state[g] \in Act!Device \/ tensor_tag_to_buf[g] \in Act!Device)
  BY DEF Act!OnDevice
<1>2. /\ actLayer \in Nat /\ actLayer < Act!Layers /\ Act!Layers \in Nat /\ Act!Offload \in Nat /\ 1 <= Act!Offload
      /\ Act!Offload = Act!Layers - 1 /\ g \in Nat /\ g < Act!Layers
  <2>1. /\ actLayer \in 0..(Act!Layers - 1) /\ g \in 0..(Act!Layers - 1)
        /\ Act!Layers \in Nat /\ Act!Offload \in Nat /\ 1 <= Act!Offload
    BY <1>1, HostTyped
  <2>. QED
    BY <2>1
<1>3. \A i \in 0..(Act!Offload - 1) : Act!Window(i) = i + 1
  BY ShortWindows DEF HostInv
<1>4. Delayed(g) <=> g < Act!Offload
  <2>1. g < Act!Offload /\ g > 0 => Act!Window(g - 1) >= g
    <3>1. SUFFICES ASSUME g < Act!Offload, g > 0 PROVE Act!Window(g - 1) >= g
      OBVIOUS
    <3>2. g - 1 \in 0..(Act!Offload - 1) /\ (g - 1) + 1 = g
      BY <3>1, <1>2
    <3>3. Act!Window(g - 1) = g
      BY <3>2, <1>3
    <3>. QED
      BY <3>3, <1>2
  <2>. QED
    BY <2>1 DEF Delayed
<1>5. CASE Going
  <2>1. /\ offloaded_group_count \in 0..(Act!Offload - 1)
        /\ Act!Window(offloaded_group_count) >= actLayer
        /\ group_offload_mapping = IF actLayer = 0 THEN {} ELSE 0..offloaded_group_count
        /\ IF g < Pushed
           THEN /\ IF Delayed(g) /\ g \in group_offload_mapping
                   THEN tensor_tag_to_state[g] = Act!Copied
                   ELSE tensor_tag_to_state[g] \in BlocksOf("compute")
                /\ IF g >= offloaded_group_count /\ g < Act!Offload
                   THEN /\ tensor_tag_to_buf[g] \in BlocksOf("compute")
                        /\ tensor_tag_to_state[g] \in {Act!Copied, tensor_tag_to_buf[g]}
                   ELSE tensor_tag_to_buf[g] = Act!None
           ELSE tensor_tag_to_state[g] = Act!None /\ tensor_tag_to_buf[g] = Act!None
    BY <1>1, <1>5 DEF HostInv, Forwards
  <2>2. Act!None \notin Act!Device /\ Act!Copied \notin Act!Device
    BY PlacesDiffer
  <2>3. g < Pushed
    BY <1>1, <2>1, <2>2
  <2>4. g < actLayer + 1
    <3>1. Pushed = actLayer \/ Pushed = actLayer + 1
      BY DEF Pushed
    <3>. QED
      BY <3>1, <2>3, <1>2
  <2>5. offloaded_group_count \in Nat /\ offloaded_group_count + 1 >= actLayer
    <3>1. offloaded_group_count \in Nat
      BY <2>1, <1>2
    <3>2. Act!Window(offloaded_group_count) = offloaded_group_count + 1
      BY <2>1, <1>3
    <3>. QED
      BY <3>1, <3>2, <2>1
  <2>6. CASE g >= offloaded_group_count
    BY <2>4, <2>5, <2>6, <1>2
  <2>7. CASE ~(g >= offloaded_group_count)
    <3>1. tensor_tag_to_buf[g] = Act!None /\ tensor_tag_to_state[g] # Act!Copied
      BY <2>1, <2>2, <2>3, <2>7, <1>1
    <3>2. ~(Delayed(g) /\ g \in group_offload_mapping)
      BY <2>1, <2>3, <3>1
    <3>3. g < Act!Offload /\ g \in 0..offloaded_group_count
      <4>1. offloaded_group_count < Act!Offload
        BY <2>1, <1>2
      <4>. QED
        BY <4>1, <2>5, <2>7, <1>2
    <3>4. actLayer = 0
      BY <3>2, <3>3, <2>1, <1>4
    <3>. QED
      BY <3>4, <2>4, <1>2
  <2>. QED
    BY <2>6, <2>7
<1>6. CASE Back
  <2>1. /\ current_group = (IF actPc = "backward" THEN actLayer ELSE actLayer + 1)
        /\ tensor_tag_to_buf[g] = Act!None
        /\ IF g > actLayer THEN tensor_tag_to_state[g] = Act!None
           ELSE IF ~Delayed(g) THEN tensor_tag_to_state[g] \in BlocksOf("compute")
           ELSE IF Act!Window(g) < current_group THEN tensor_tag_to_state[g] = Act!Copied
           ELSE tensor_tag_to_state[g] \in BlocksOf("h2d")
    BY <1>1, <1>6 DEF HostInv, Backwards
  <2>2. Act!None \notin Act!Device /\ Act!Copied \notin Act!Device
    BY PlacesDiffer
  <2>3. current_group = actLayer \/ current_group = actLayer + 1
    BY <2>1
  <2>4. ~(g > actLayer) /\ (Delayed(g) => ~(Act!Window(g) < current_group))
    BY <2>1, <2>2, <1>1
  <2>5. CASE g < Act!Offload
    <3>1. g \in 0..(Act!Offload - 1)
      BY <2>5, <1>2
    <3>2. Act!Window(g) = g + 1 /\ ~(Act!Window(g) < current_group)
      BY <3>1, <2>4, <2>5, <1>3, <1>4
    <3>3. ~(g + 1 < current_group)
      BY <3>2
    <3>. QED
      BY <3>3, <2>3, <2>4, <1>2
  <2>6. CASE ~(g < Act!Offload)
    BY <2>4, <2>6, <1>2
  <2>. QED
    BY <2>5, <2>6
<1>7. CASE actPc = "done"
  <2>1. tensor_tag_to_state[g] = Act!None /\ tensor_tag_to_buf[g] = Act!None
    BY <1>1, <1>7 DEF HostInv, Ends
  <2>. QED
    BY <2>1, <1>1, PlacesDiffer
<1>. QED
  BY <1>5, <1>6, <1>7 DEF HostInv, Going, Back

\* What the runs check of the offload.
LEMMA ActIsRight == ActInvariant => Act!TypeOK /\ Act!ReadsOwn /\ Act!NothingLeft /\ Act!TwoGroups
<1>1. SUFFICES ASSUME HostInv, ~actWrong PROVE Act!TypeOK /\ Act!ReadsOwn /\ Act!NothingLeft /\ Act!TwoGroups
  BY DEF ActInvariant
<1>2. /\ Act!Layers \in Nat /\ Act!Offload \in Nat /\ 1 <= Act!Offload /\ Act!Offload <= Act!Layers /\ actLayer \in Act!Groups
      /\ actSizes \in ActSizes /\ Act!Groups = 0..(Act!Layers - 1)
  BY <1>1, HostTyped
<1>3. \A g \in Act!Groups :
        /\ tensor_tag_to_state[g] \in Act!Device \cup {Act!None, Act!Copied}
        /\ tensor_tag_to_buf[g] \in Act!Device \cup {Act!None}
  <2>1. CASE Going
    BY <2>1, <1>1, PlacesDiffer DEF HostInv, Forwards
  <2>2. CASE Back
    BY <2>2, <1>1, PlacesDiffer DEF HostInv, Backwards
  <2>3. CASE actPc = "done"
    BY <2>3, <1>1 DEF HostInv, Ends
  <2>. QED
    BY <2>1, <2>2, <2>3, <1>1 DEF HostInv, Going, Back
<1>4. actBatch \in 1..(ActBatches + 1)
  <2>1. actBatch \in Nat \ {0} /\ ActBatches \in Nat
    BY <1>1, ActSizesAre DEF HostInv, Act!ActivationOffloadAssumption
  <2>2. actBatch <= ActBatches \/ actBatch = ActBatches + 1
    BY <1>1 DEF HostInv, Forwards, Backwards, Ends, Going, Back
  <2>. QED
    BY <2>1, <2>2
<1>5. actLayer \in Nat /\ actLayer <= Act!Layers - 1
  BY <1>2
<1>6. /\ current_group \in 0..Act!Layers /\ offloaded_group_count \in 0..Act!Offload
      /\ group_offload_mapping \subseteq 0..(Act!Offload - 1)
  <2>1. CASE Going
    <3>1. /\ current_group = actLayer /\ offloaded_group_count \in 0..(Act!Offload - 1)
          /\ group_offload_mapping = {} \/ group_offload_mapping = 0..offloaded_group_count
      BY <2>1, <1>1 DEF HostInv, Forwards
    <3>2. offloaded_group_count \in Nat /\ offloaded_group_count <= Act!Offload - 1
      BY <3>1, <1>2
    <3>3. 0..offloaded_group_count \subseteq 0..(Act!Offload - 1) /\ offloaded_group_count \in 0..Act!Offload
      BY <3>2, <1>2
    <3>4. current_group \in 0..Act!Layers
      BY <3>1, <1>2, <1>5
    <3>. QED
      BY <3>1, <3>3, <3>4
  <2>2. CASE Back
    <3>1. /\ current_group = (IF actPc = "backward" THEN actLayer ELSE actLayer + 1)
          /\ offloaded_group_count = 0 \/ offloaded_group_count \in 1..Act!Offload
          /\ group_offload_mapping = {g \in 0..(Act!Offload - 1) : Act!Window(g) < current_group}
      BY <2>2, <1>1 DEF HostInv, Backwards
    <3>2. current_group = actLayer \/ current_group = actLayer + 1
      BY <3>1
    <3>3. current_group \in 0..Act!Layers
      BY <3>2, <1>2, <1>5
    <3>4. offloaded_group_count \in 0..Act!Offload
      <4>1. offloaded_group_count = 0 \/ offloaded_group_count \in 1..Act!Offload
        BY <3>1
      <4>. QED
        BY <4>1, <1>2
    <3>. QED
      BY <3>1, <3>3, <3>4
  <2>3. CASE actPc = "done"
    <3>1. current_group = 0 /\ offloaded_group_count = 0 /\ group_offload_mapping = {}
      BY <2>3, <1>1 DEF HostInv, Ends
    <3>. QED
      BY <3>1, <1>2
  <2>. QED
    BY <2>1, <2>2, <2>3, <1>1 DEF HostInv, Going, Back
<1>7. Act!TypeOK
  BY <1>1, <1>2, <1>3, <1>4, <1>6 DEF Act!TypeOK, HostInv
<1>8. actPc # "failed"
  BY <1>1 DEF HostInv
<1>9. ASSUME (actPc = "forward" /\ actLayer = 0) \/ actPc = "done"
      PROVE  /\ current_group = 0 /\ offloaded_group_count = 0 /\ group_offload_mapping = {}
             /\ \A g \in Act!Groups : tensor_tag_to_state[g] = Act!None /\ tensor_tag_to_buf[g] = Act!None
  <2>1. CASE actPc = "done"
    BY <2>1, <1>1 DEF HostInv, Ends
  <2>2. CASE actPc = "forward" /\ actLayer = 0
    <3>1. Going /\ Pushed = 0
      BY <2>2 DEF Going, Pushed
    <3>2. \A g \in Act!Groups : ~(g < 0)
      <4>1. ASSUME NEW g \in 0..(Act!Layers - 1) PROVE ~(g < 0)
        BY <1>2
      <4>. QED
        BY <4>1, <1>2
    <3>3. \A g \in Act!Groups : tensor_tag_to_state[g] = Act!None /\ tensor_tag_to_buf[g] = Act!None
      BY <3>1, <3>2, <1>1 DEF HostInv, Forwards
    <3>4. /\ current_group = 0 /\ group_offload_mapping = {}
          /\ offloaded_group_count \in 0..(Act!Offload - 1)
          /\ offloaded_group_count > 0 => Act!Window(offloaded_group_count - 1) < 0
      <4>1. actLayer = 0
        BY <2>2
      <4>. QED
        BY <4>1, <3>1, <1>1 DEF HostInv, Forwards
    <3>5. offloaded_group_count = 0
      <4>1. offloaded_group_count \in Nat
        BY <3>4, <1>2
      <4>2. ASSUME offloaded_group_count > 0 PROVE FALSE
        <5>1. offloaded_group_count - 1 \in 0..(Act!Offload - 1) /\ offloaded_group_count - 1 \in Nat
          BY <3>4, <4>1, <4>2, <1>2
        <5>2. Act!Window(offloaded_group_count - 1) \in (offloaded_group_count - 1)..(Act!Layers - 1)
          BY <5>1, <1>2, Windows
        <5>3. Act!Window(offloaded_group_count - 1) \in Nat
          BY <5>1, <5>2, <1>2
        <5>. QED
          BY <5>3, <4>2, <3>4
      <4>. QED
        BY <4>1, <4>2
    <3>. QED
      BY <3>3, <3>4, <3>5
  <2>. QED
    BY <2>1, <2>2, <1>9
<1>10. Act!NothingLeft
  BY <1>8, <1>9 DEF Act!NothingLeft
<1>11. Act!TwoGroups
  <2>1. SUFFICES ASSUME Act!Offload = Act!Layers - 1, NEW a \in Act!OnDevice, NEW b \in Act!OnDevice, NEW c \in Act!OnDevice
                 PROVE  a = b \/ b = c \/ a = c
    BY DEF Act!TwoGroups
  <2>2. a \in {actLayer - 1, actLayer} /\ b \in {actLayer - 1, actLayer} /\ c \in {actLayer - 1, actLayer}
    BY <2>1, <1>1, OnTheDevice
  <2>. QED
    BY <2>2
<1>. QED
  BY <1>1, <1>7, <1>10, <1>11 DEF Act!ReadsOwn

-----------------------------------------------------------------------------
(***************************************************************************)
(* The rollout.                                                            *)
(***************************************************************************)
\* The invariant of every part that moves.
RolloutInv ==
  /\ IndInv
  /\ part = "servers" => LoopInv
  /\ part = "rate" => RateInv
  /\ part = "offload" => ActInvariant

\* A step is one of the part that moves, and the others rest.
LEMMA OneMoves ==
  ASSUME [RolloutNext]_rolloutVars
  PROVE  /\ part' = part /\ [Next]_vars
         /\ part = "servers" => Servers!Next \/ UNCHANGED loopVars
         /\ part = "rate" => Rate!Next \/ UNCHANGED rateVars
         /\ part = "offload" => Act!Next \/ UNCHANGED actVars
BY DEF RolloutNext, rolloutVars, LoopOnly, WorkOnly, FullOnly, ReqOnly, ActOnly,
       ConvOnly, RateOnly

\* The rollout starts in it.
LEMMA RolloutStarts == RolloutInit => RolloutInv
<1> SUFFICES ASSUME RolloutInit PROVE RolloutInv
  OBVIOUS
<1>1. IndInv
  BY InitInv DEF RolloutInit
<1>2. part = "servers" => LoopInv
  BY LoopInit DEF RolloutInit
<1>3. part = "rate" => RateInv
  BY RateInit DEF RolloutInit
<1>4. part = "offload" => ActInvariant
  BY ActInit DEF RolloutInit
<1> QED
  BY <1>1, <1>2, <1>3, <1>4 DEF RolloutInv

\* And every step keeps it.
LEMMA RolloutGoesOn == RolloutInv /\ [RolloutNext]_rolloutVars => RolloutInv'
<1> SUFFICES ASSUME RolloutInv, [RolloutNext]_rolloutVars PROVE RolloutInv'
  OBVIOUS
<1>1. part' = part /\ [Next]_vars
  BY OneMoves
<1>2. IndInv'
  BY <1>1, StepInv DEF RolloutInv
<1>3. ASSUME part = "servers" PROVE LoopInv'
  BY <1>3, OneMoves, LoopStep, LoopStays DEF RolloutInv
<1>4. ASSUME part = "rate" PROVE RateInv'
  BY <1>4, OneMoves, RateStep, RateStays DEF RolloutInv
<1>5. ASSUME part = "offload" PROVE ActInvariant'
  <2>1. UNCHANGED actVars => UNCHANGED Act!vars
    BY DEF actVars, Act!vars, Act!handler, Act!device
  <2> QED
    BY <2>1, <1>5, OneMoves, ActStep, ActStays DEF RolloutInv
<1> QED
  BY <1>1, <1>2, <1>3, <1>4, <1>5 DEF RolloutInv

\* What the runs check of the resources.
LEMMA RolloutIsRight == RolloutInv => ResourcesRight /\ WorkerRight
<1> SUFFICES ASSUME RolloutInv PROVE ResourcesRight /\ WorkerRight
  OBVIOUS
<1>1. TypeOK /\ WorkerRight
  BY InvIsRight DEF RolloutInv, IndInv
<1>2. part = "servers" =>
        Servers!Sticky /\ Servers!EvenlySpread /\ Servers!AwakeWhileAsked
  BY LoopIsRight DEF RolloutInv
<1>3. part = "rate" => Rate!TypeOK /\ Rate!WithinRate
  BY RateIsRight DEF RolloutInv
<1>4. part = "offload" =>
        Act!TypeOK /\ Act!ReadsOwn /\ Act!NothingLeft /\ Act!TwoGroups
  BY ActIsRight DEF RolloutInv
<1> QED
  BY <1>1, <1>2, <1>3, <1>4 DEF ResourcesRight

\* Whatever the sizes, the speed of the streams and the order of the steps: a
\* conversation of a worker whose cache has room for its share of the batch stays
\* with one server, the servers are asked evenly and only while they are awake
\* (AsyncLLMServerManager); no more calls than the limit are at the sandbox
\* (TokenBucketWorker); and the backward pass of a layer reads what its forward
\* pass has saved, no assertion of the handler fails, nothing is left for the next
\* micro-batch, and two groups at most are on the device (activation_offload.py).
THEOREM ResourcesStay == RolloutSpec => []ResourcesRight
<1>1. RolloutSpec => []RolloutInv
  BY RolloutStarts, RolloutGoesOn, PTL DEF RolloutSpec
<1> QED
  BY <1>1, RolloutIsRight, PTL
=============================================================================
