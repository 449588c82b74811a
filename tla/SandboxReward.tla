---------------------------- MODULE SandboxReward ---------------------------
(***************************************************************************)
(* Scoring a batch of responses with Sandbox Fusion: the prime reward      *)
(* manager (verl/workers/reward_manager/prime.py) gives every response to  *)
(* a process pool and waits for each with a timeout; a process sends every *)
(* test case of its response to the sandbox in a thread of its own         *)
(* (verl/utils/reward_score/sandbox_fusion).  A semaphore in a manager     *)
(* process limits the calls of all of them together.                       *)
(*                                                                         *)
(* The sandbox is external: per test case it has an answer, and a call may *)
(* end in a gateway timeout or another error instead.  At the end of a     *)
(* batch the processes of the pool are killed, whatever they are doing.    *)
(***************************************************************************)
EXTENDS Integers, FiniteSetsExt, Functions, FiniteSetTheorems, WellFoundedInduction, TLAPS

CONSTANTS
  Responses,           \* responses of a batch
  Cases,          \* test cases of a response, 1..n
  Answers,        \* answers the sandbox can have for a case
  Processes,      \* num_processes
  MaxConcurrent,  \* sandbox_fusion.max_concurrent
  MaxRetries,     \* MAX_RETRIES
  Considered,     \* test cases that count for a continuous score
  Batches         \* bound: batches scored

ASSUME SandboxRewardAssumption ==
  /\ IsFiniteSet(Responses) /\ Responses # {}
  /\ IsFiniteSet(Cases) /\ Cases = 1..Cardinality(Cases) /\ Cases # {}
  /\ Answers # {}
  /\ {Processes, MaxConcurrent, MaxRetries, Considered} \subseteq Nat \ {0}
  /\ Batches \in Nat

VARIABLES
  batch,    \* batches begun
  scoring,  \* a batch is being scored
  truth,    \* what the sandbox would answer for a case
  row,      \* where a response is
  case,     \* where a case is: "off", "waits", "calls", or its verdict
  tries,    \* calls made for a case
  permits,  \* value of the semaphore
  orphans,  \* acquisitions of dead processes that the manager still waits in
  failed,   \* cases for which a call has failed
  score     \* test cases passed of those considered; 0 for a response without

cases == <<case, tries, failed>>
vars == <<batch, scoring, truth, row, cases, permits, orphans, score>>

All(x) == [r \in Responses |-> [c \in Cases |-> x]]

Init ==
  /\ batch = 0 /\ scoring = FALSE
  /\ truth \in [Responses -> [Cases -> Answers]] /\ truth = All(CHOOSE a \in Answers : TRUE)
  /\ row = [r \in Responses |-> "off"]
  /\ case = All("off") /\ tries = All(0) /\ failed = All(FALSE)
  /\ permits = MaxConcurrent /\ orphans = 0
  /\ score = [r \in Responses |-> 0]

(***************************************************************************)
(* What the client makes of an answer (_process_single_case).              *)
(***************************************************************************)
CompileError == "-4"
RunError == "-2"
TimeLimit == "-3"
ApiError == "-1"
Verdicts == {"True", "False", CompileError, RunError, TimeLimit, ApiError}

CompileFails(a) ==
  a.compile \in {"Error", "TimeLimitExceeded"} \/ (a.compile = "Finished" /\ a.compiled # 0)

RunFails(a) ==
  a.run \in {"Error", "TimeLimitExceeded"} \/ (a.run = "Finished" /\ a.exit # 0)

Verdict(a) ==
  CASE a.status = "Failed" /\ CompileFails(a) -> CompileError
    [] a.status = "Failed" /\ ~CompileFails(a) /\ RunFails(a) ->
         IF a.run = "TimeLimitExceeded" THEN TimeLimit ELSE RunError
    [] a.status = "Success" /\ a.run = "Finished" -> IF a.same THEN "True" ELSE "False"
    [] OTHER -> ApiError

\* Mutation: the compile error that is found last counts.
CompileErrorAtLast(found) == Max(found)

\* first_compile_error_index
CompileErrorAt(found) == Min(found)

\* The verdicts of a response when all cases are done: every case after a
\* compile error has one too.
Verdicted(done) ==
  LET found == {c \in Cases : done[c] = CompileError}
  IN  [c \in Cases |->
         IF found # {} /\ c > CompileErrorAt(found) THEN CompileError ELSE done[c]]

\* compute_score, times the number of cases considered.
Passed(done) == Quantify(Cases, LAMBDA c : c <= Considered /\ Verdicted(done)[c] = "True")

(***************************************************************************)
(* A batch.                                                                *)
(***************************************************************************)
Begin ==
  /\ ~scoring /\ batch < Batches
  /\ batch' = batch + 1 /\ scoring' = TRUE
  /\ truth' \in [Responses -> [Cases -> Answers]]
  /\ row' = [r \in Responses |-> "queued"]
  /\ case' = All("off") /\ tries' = All(0) /\ failed' = All(FALSE)
  /\ score' = [r \in Responses |-> 0]
  /\ UNCHANGED <<permits, orphans>>

Busy == {r \in Responses : row[r] \in {"runs", "late"}}

\* A process takes a response and starts a thread for each of its cases.
Take(r) ==
  /\ row[r] \in {"queued", "stale"} /\ Cardinality(Busy) < Processes
  /\ row' = [row EXCEPT ![r] = IF @ = "queued" THEN "runs" ELSE "late"]
  /\ case' = [case EXCEPT ![r] = [c \in Cases |-> "waits"]]
  /\ UNCHANGED <<batch, scoring, truth, tries, failed, permits, orphans, score>>

Acquire(r, c) ==
  /\ case[r][c] = "waits" /\ permits > 0
  /\ permits' = permits - 1
  /\ case' = [case EXCEPT ![r][c] = "calls"]
  /\ tries' = [tries EXCEPT ![r][c] = 1]
  /\ UNCHANGED <<batch, scoring, truth, row, failed, orphans, score>>

\* The call is over, and the permit given back.
Done(r, c, verdict) ==
  /\ case' = [case EXCEPT ![r][c] = verdict]
  /\ permits' = permits + 1

Answered(r, c) ==
  /\ case[r][c] = "calls"
  /\ Done(r, c, Verdict(truth[r][c]))
  /\ UNCHANGED <<batch, scoring, truth, row, tries, failed, orphans, score>>

\* Mutation: the permit is given back for the pause.
GatewayTimeoutReleases(r, c) ==
  /\ case[r][c] = "calls" /\ tries[r][c] < MaxRetries
  /\ tries' = [tries EXCEPT ![r][c] = @ + 1]
  /\ permits' = permits + 1
  /\ UNCHANGED <<batch, scoring, truth, row, case, failed, orphans, score>>

\* 504: the call is repeated after a pause, under the same permit.
GatewayTimeout(r, c) ==
  /\ case[r][c] = "calls" /\ tries[r][c] < MaxRetries
  /\ tries' = [tries EXCEPT ![r][c] = @ + 1]
  /\ UNCHANGED <<batch, scoring, truth, row, case, failed, permits, orphans, score>>

\* Any other error, or the last gateway timeout.
CallFails(r, c) ==
  /\ case[r][c] = "calls"
  /\ Done(r, c, ApiError)
  /\ failed' = [failed EXCEPT ![r][c] = TRUE]
  /\ UNCHANGED <<batch, scoring, truth, row, tries, orphans, score>>

\* Mutation: the score of a response that was given up is kept.
FinishLate(r) ==
  /\ row[r] \in {"runs", "late"} /\ \A c \in Cases : case[r][c] \in Verdicts
  /\ row' = [row EXCEPT ![r] = IF @ = "runs" THEN "scored" ELSE "failed"]
  /\ score' = [score EXCEPT ![r] = Passed(case[r])]
  /\ UNCHANGED <<batch, scoring, truth, cases, permits, orphans>>

\* All cases are done: the score goes back, unless nobody waits for it.
Finish(r) ==
  /\ row[r] \in {"runs", "late"} /\ \A c \in Cases : case[r][c] \in Verdicts
  /\ row' = [row EXCEPT ![r] = IF @ = "runs" THEN "scored" ELSE "failed"]
  /\ score' = [score EXCEPT ![r] = IF row[r] = "runs" THEN Passed(case[r]) ELSE 0]
  /\ UNCHANGED <<batch, scoring, truth, cases, permits, orphans>>

\* Mutation: the time of a response begins with its process.
TimesOutRunning(r) ==
  /\ row[r] = "runs"
  /\ row' = [row EXCEPT ![r] = "late"]
  /\ UNCHANGED <<batch, scoring, truth, cases, permits, orphans, score>>

\* asyncio.wait_for: a response in the queue is cancelled, or too near its head
\* for that ("stale"); one that is worked on goes on without being waited for.
TimesOut(r) ==
  /\ row[r] \in {"queued", "runs"}
  /\ \E then \in IF row[r] = "queued" THEN {"failed", "stale"} ELSE {"late"} :
       row' = [row EXCEPT ![r] = then]
  /\ UNCHANGED <<batch, scoring, truth, cases, permits, orphans, score>>

\* The processes of the pool are gone.  Calls they were in give no permit back;
\* for those that waited for one, the manager goes on waiting.
Gone ==
  /\ case' = [r \in Responses |-> [c \in Cases |->
       IF case[r][c] \in {"waits", "calls"} THEN "off" ELSE case[r][c]]]
  /\ orphans' = orphans
       + Cardinality({p \in Responses \X Cases : case[p[1]][p[2]] = "waits"})
  /\ UNCHANGED permits

\* A process dies: the pool is broken, every response that is not done fails.
Breaks ==
  /\ Busy # {}
  /\ row' = [r \in Responses |-> IF row[r] = "scored" THEN "scored" ELSE "failed"]
  /\ Gone
  /\ UNCHANGED <<batch, scoring, truth, tries, failed, score>>

\* Every response is done or given up: the processes are killed.
End ==
  /\ scoring /\ \A r \in Responses : row[r] \in {"scored", "failed", "late", "stale"}
  /\ scoring' = FALSE
  /\ row' = [r \in Responses |-> IF row[r] = "scored" THEN "scored" ELSE "failed"]
  /\ Gone
  /\ UNCHANGED <<batch, truth, tries, failed, score>>

OrphanTakes ==
  /\ orphans > 0 /\ permits > 0
  /\ orphans' = orphans - 1 /\ permits' = permits - 1
  /\ UNCHANGED <<batch, scoring, truth, row, cases, score>>

Next ==
  \/ Begin \/ Breaks \/ End \/ OrphanTakes
  \/ \E r \in Responses :
       \/ Take(r) \/ Finish(r) \/ TimesOut(r)
       \/ \E c \in Cases :
            Acquire(r, c) \/ Answered(r, c) \/ GatewayTimeout(r, c) \/ CallFails(r, c)

Spec == Init /\ [][Next]_vars

\* Timeouts expire, and the batch ends then.  Nothing is assumed of the sandbox
\* and the pool.
Fairness == WF_vars(End) /\ \A r \in Responses : WF_vars(TimesOut(r))

FairSpec == Spec /\ Fairness

-----------------------------------------------------------------------------
TypeOK ==
  /\ batch \in 0..Batches /\ scoring \in BOOLEAN
  /\ truth \in [Responses -> [Cases -> Answers]]
  /\ row \in [Responses -> {"off", "queued", "stale", "runs", "late", "scored", "failed"}]
  /\ case \in [Responses -> [Cases -> Verdicts \cup {"off", "waits", "calls"}]]
  /\ tries \in [Responses -> [Cases -> 0..MaxRetries]]
  /\ failed \in [Responses -> [Cases -> BOOLEAN]]
  /\ permits \in 0..MaxConcurrent /\ orphans \in Nat
  /\ score \in [Responses -> 0..Cardinality(Cases)]

Calling == {p \in Responses \X Cases : case[p[1]][p[2]] = "calls"}

\* However many processes and threads there are, and however calls are repeated,
\* no more than max_concurrent of them call the sandbox at a time
\* (docs/examples/sandbox_fusion_example.rst:39).
AtMostConcurrent == Cardinality(Calling) + permits <= MaxConcurrent

\* The score of a response is what its own cases deserve, in whatever order they
\* came back: a case counts when the sandbox found it right and no call for it
\* failed, and no case before it did not compile.  A response given up has 0
\* (sandbox_fusion/utils.py:522, :549; prime.py:78).
ScoreIsDeserved ==
  \A r \in Responses :
    score[r] =
      IF row[r] # "scored" THEN 0
      ELSE Quantify(Cases, LAMBDA c :
             /\ c <= Considered /\ ~failed[r][c]
             /\ truth[r][c].status = "Success" /\ truth[r][c].run = "Finished"
             /\ truth[r][c].same
             /\ \A b \in 1..(c - 1) : failed[r][b] \/ Verdict(truth[r][b]) # CompileError)

\* The limit holds, and the scores are deserved.
ScoreRight == AtMostConcurrent /\ ScoreIsDeserved

\* Every batch comes to an end, with hung calls, a starved semaphore or a broken
\* pool: each response has its timeout (prime.py:34).
BatchEnds == scoring ~> ~scoring

\* A case that waits for the sandbox waits for another that is calling it
\* (prime.py:50 "to prevent very occasional starvation").
NotStarved ==
  (\E p \in Responses \X Cases : case[p[1]][p[2]] = "waits") => permits > 0 \/ Calling # {}
-----------------------------------------------------------------------------
(***************************************************************************)
(* Proof of ScoreRight.  That the permits add up needs only that a call    *)
(* that is over was one; the scores need that nothing a response was found *)
(* to be changes between its last verdict and its score.                   *)
(***************************************************************************)
Open == {"waits", "calls"}

\* A case, by the place of its response.
Places ==
  \A r \in Responses, c \in Cases :
    /\ row[r] \notin {"runs", "late"} => case[r][c] \notin Open
    /\ row[r] \in {"queued", "stale"} => case[r][c] = "off"

\* What a case is found to be, and when a call for it has failed.
Found ==
  \A r \in Responses, c \in Cases :
    /\ case[r][c] \notin Verdicts => ~failed[r][c]
    /\ case[r][c] \in Verdicts =>
         case[r][c] = IF failed[r][c] THEN ApiError ELSE Verdict(truth[r][c])

\* The inductive invariant.
IndInv == TypeOK /\ Places /\ Found /\ ScoreRight

\* A set of numbers has a least one, and Min is it.
LEMMA LeastNumber ==
  ASSUME NEW S \in SUBSET Nat, S # {}
  PROVE  Min(S) \in S /\ \A x \in S : Min(S) <= x
<1>1. PICK m \in S : \A x \in S : ~(<<x, m>> \in OpToRel(<, Nat))
  BY WFMin, NatLessThanWellFounded
<1>2. \A x \in S : m <= x
  <2> TAKE x \in S
  <2>1. x \in Nat /\ m \in Nat
    OBVIOUS
  <2>2. ~(x < m)
    BY <1>1, <2>1 DEF OpToRel
  <2> QED
    BY <2>1, <2>2
<1> QED
  BY <1>2 DEF Min

\* The cases before a case.
LEMMA CasesAre ==
  /\ Cases \subseteq Nat /\ IsFiniteSet(Cases)
  /\ \A c \in Cases : 1..(c - 1) = {b \in Cases : b < c}
<1>1. IsFiniteSet(Cases) /\ Cases = 1..Cardinality(Cases) /\ Cardinality(Cases) \in Nat
  BY SandboxRewardAssumption, FS_CardinalityType
<1> QED
  BY <1>1

\* Whether a case counts, as ScoreIsDeserved says it.
Deserves(r, c) ==
  /\ c <= Considered /\ ~failed[r][c]
  /\ truth[r][c].status = "Success" /\ truth[r][c].run = "Finished"
  /\ truth[r][c].same
  /\ \A b \in 1..(c - 1) : failed[r][b] \/ Verdict(truth[r][b]) # CompileError

\* What compute_score counts is what the cases deserve.
LEMMA PassedIsDeserved ==
  ASSUME NEW r \in Responses, Found, \A c \in Cases : case[r][c] \in Verdicts
  PROVE  Passed(case[r]) = Cardinality({c \in Cases : Deserves(r, c)})
<1> DEFINE found == {c \in Cases : case[r][c] = CompileError}
<1>1. \A c \in Cases : case[r][c] = IF failed[r][c] THEN ApiError ELSE Verdict(truth[r][c])
  BY DEF Found
<1>2. \A a : /\ Verdict(a) = "True" <=> a.status = "Success" /\ a.run = "Finished" /\ a.same
             /\ ApiError # "True" /\ ApiError # CompileError /\ CompileError # "True"
  BY DEF Verdict, ApiError, CompileError, RunError, TimeLimit
<1>3. ASSUME NEW c \in Cases
      PROVE  (found # {} /\ c > CompileErrorAt(found)) <=> \E b \in found : b < c
  <2>1. found \in SUBSET Nat /\ c \in Nat
    BY CasesAre
  <2>2. CASE found = {}
    BY <2>2
  <2>3. CASE found # {}
    <3>1. CompileErrorAt(found) \in found /\ \A x \in found : CompileErrorAt(found) <= x
      BY <2>1, <2>3, LeastNumber DEF CompileErrorAt
    <3> QED
      BY <3>1, <2>1, <2>3
  <2> QED
    BY <2>2, <2>3
<1>4. ASSUME NEW c \in Cases
      PROVE  (\E b \in found : b < c) <=> ~(\A b \in 1..(c - 1) : failed[r][b] \/ Verdict(truth[r][b]) # CompileError)
  <2>1. 1..(c - 1) = {b \in Cases : b < c}
    BY CasesAre
  <2> QED
    BY <2>1, <1>1, <1>2
<1>5. ASSUME NEW c \in Cases
      PROVE  Verdicted(case[r])[c] = "True" <=>
               case[r][c] = "True" /\ ~(\E b \in found : b < c)
  BY <1>3, <1>2 DEF Verdicted
<1>6. ASSUME NEW c \in Cases
      PROVE  (c <= Considered /\ Verdicted(case[r])[c] = "True") <=> Deserves(r, c)
  BY <1>5, <1>4, <1>1, <1>2 DEF Deserves
<1>7. {c \in Cases : c <= Considered /\ Verdicted(case[r])[c] = "True"} = {c \in Cases : Deserves(r, c)}
  BY <1>6
<1> QED
  BY <1>7 DEF Passed, Quantify

\* ScoreIsDeserved, by name.
LEMMA DeservedIs ==
  ScoreIsDeserved <=> \A r \in Responses : score[r] = IF row[r] # "scored" THEN 0
                                               ELSE Cardinality({c \in Cases : Deserves(r, c)})
BY DEF ScoreIsDeserved, Deserves, Quantify

\* The constants.
LEMMA Bounds ==
  /\ MaxConcurrent \in Nat /\ MaxRetries \in Nat /\ 1 \in 0..MaxRetries /\ 0 \in 0..MaxRetries
  /\ MaxConcurrent > 0
  /\ IsFiniteSet(Cases) /\ Cardinality(Cases) \in Nat /\ 0 \in 0..Cardinality(Cases)
BY SandboxRewardAssumption, FS_CardinalityType

\* Finitely many calls.
LEMMA FewCalls ==
  /\ IsFiniteSet(Calling) /\ Cardinality(Calling) \in Nat
  /\ \A S : S \subseteq Calling => Cardinality(S) <= Cardinality(Calling)
<1>1. IsFiniteSet(Responses \X Cases)
  BY SandboxRewardAssumption, FS_Product
<1>2. IsFiniteSet(Calling)
  BY <1>1, FS_Subset DEF Calling
<1> QED
  BY <1>2, FS_CardinalityType, FS_Subset

\* No more cases count than there are.
LEMMA PassedBounded ==
  ASSUME NEW d PROVE Passed(d) \in 0..Cardinality(Cases)
<1> DEFINE S == {c \in Cases : c <= Considered /\ Verdicted(d)[c] = "True"}
<1>1. Cardinality(S) <= Cardinality(Cases) /\ Cardinality(S) \in Nat
  BY Bounds, FS_Subset, FS_CardinalityType
<1> QED
  BY <1>1, Bounds DEF Passed, Quantify

\* A verdict is none of the places of a case.
LEMMA VerdictsAre ==
  /\ \A a : Verdict(a) \in Verdicts
  /\ ApiError \in Verdicts /\ Verdicts \cap {"off", "waits", "calls"} = {}
BY DEF Verdict, Verdicts, ApiError, CompileError, RunError, TimeLimit

\* The initial states have it.
LEMMA Starts == Init => IndInv
<1> SUFFICES ASSUME Init PROVE IndInv
  OBVIOUS
<1>1. TypeOK
  <2>1. batch \in 0..Batches /\ permits \in 0..MaxConcurrent /\ orphans \in Nat
    BY Bounds, SandboxRewardAssumption DEF Init
  <2>2. tries \in [Responses -> [Cases -> 0..MaxRetries]] /\ score \in [Responses -> 0..Cardinality(Cases)]
    BY Bounds DEF Init, All
  <2> QED
    BY <2>1, <2>2 DEF Init, TypeOK, All
<1>2. Calling = {}
  BY DEF Init, All, Calling
<1>3. AtMostConcurrent
  BY <1>2, Bounds, FS_EmptySet DEF Init, AtMostConcurrent
<1>4. Places /\ Found
  BY VerdictsAre DEF Init, All, Places, Found, Open
<1>5. ScoreIsDeserved
  BY DEF Init, ScoreIsDeserved
<1> QED
  BY <1>1, <1>3, <1>4, <1>5 DEF IndInv, ScoreRight

\* The permits.
Permits == permits \in 0..MaxConcurrent /\ AtMostConcurrent

\* A permit is taken with each call, and comes back once.
LEMMA PermitsStep == IndInv /\ Next => Permits'
<1> SUFFICES ASSUME IndInv, Next PROVE Permits'
  OBVIOUS
<1>0. TypeOK /\ Places /\ permits \in 0..MaxConcurrent /\ Cardinality(Calling) + permits <= MaxConcurrent
      /\ IsFiniteSet(Calling) /\ Cardinality(Calling) \in Nat
  BY FewCalls DEF IndInv, ScoreRight, AtMostConcurrent, TypeOK
<1>1. ASSUME Calling' \subseteq Calling, permits' = permits \/ (permits > 0 /\ permits' = permits - 1) PROVE Permits'
  <2>1. Cardinality(Calling') \in Nat /\ Cardinality(Calling') <= Cardinality(Calling)
    BY <1>0, <1>1, FS_Subset, FS_CardinalityType
  <2> QED
    BY <2>1, <1>1, <1>0, Bounds DEF Permits, AtMostConcurrent
<1>2. CASE Begin \/ Breaks \/ End \/ OrphanTakes
  <2>1. Calling' \subseteq Calling
    BY <1>2, <1>0 DEF Begin, Breaks, End, OrphanTakes, Gone, Calling, TypeOK, All, cases
  <2>2. permits' = permits \/ (permits > 0 /\ permits' = permits - 1)
    BY <1>2 DEF Begin, Breaks, End, OrphanTakes, Gone
  <2> QED
    BY <2>1, <2>2, <1>1
<1>3. ASSUME NEW r \in Responses, Take(r) \/ Finish(r) \/ TimesOut(r) PROVE Permits'
  <2>1. Calling' \subseteq Calling
    BY <1>3, <1>0 DEF Take, Finish, TimesOut, Calling, TypeOK, cases
  <2> QED
    BY <2>1, <1>1, <1>3 DEF Take, Finish, TimesOut
<1>4. ASSUME NEW r \in Responses, NEW c \in Cases, Acquire(r, c) PROVE Permits'
  <2>1. Calling' = Calling \cup {<<r, c>>}
    BY <1>4, <1>0 DEF Acquire, Calling, TypeOK
  <2>2. <<r, c>> \notin Calling
    BY <1>4 DEF Acquire, Calling
  <2>3. Cardinality(Calling') = Cardinality(Calling) + 1
    BY <2>1, <2>2, <1>0, FS_AddElement
  <2>4. permits > 0 /\ permits' = permits - 1
    BY <1>4 DEF Acquire
  <2> QED
    BY <2>3, <2>4, <1>0, Bounds DEF Permits, AtMostConcurrent
<1>5. ASSUME NEW r \in Responses, NEW c \in Cases, Answered(r, c) \/ CallFails(r, c) PROVE Permits'
  <2>0. PICK v \in Verdicts : Done(r, c, v) /\ case[r][c] = "calls"
    BY <1>5, VerdictsAre DEF Answered, CallFails
  <2>1. Calling' = Calling \ {<<r, c>>}
    BY <2>0, <1>0, VerdictsAre DEF Done, Calling, TypeOK
  <2>2. <<r, c>> \in Calling
    BY <2>0 DEF Calling
  <2>3. Cardinality(Calling') = Cardinality(Calling) - 1 
    BY <2>1, <2>2, <1>0, FS_RemoveElement
  <2>4. Cardinality(Calling) # 0
    BY <2>2, <1>0, FS_EmptySet
  <2>5. permits' = permits + 1
    BY <2>0 DEF Done
  <2> QED
    BY <2>3, <2>4, <2>5, <1>0, Bounds DEF Permits, AtMostConcurrent
<1>6. ASSUME NEW r \in Responses, NEW c \in Cases, GatewayTimeout(r, c) PROVE Permits'
  <2>1. Calling' \subseteq Calling
    BY <1>6 DEF GatewayTimeout, Calling
  <2> QED
    BY <2>1, <1>1, <1>6 DEF GatewayTimeout
<1> QED
  BY <1>2, <1>3, <1>4, <1>5, <1>6 DEF Next

\* The types, given those of the permits.
LEMMA TypeStep == IndInv /\ Next => TypeOK'
<1> SUFFICES ASSUME IndInv, Next PROVE TypeOK'
  OBVIOUS
<1>0. TypeOK /\ permits' \in 0..MaxConcurrent
  BY PermitsStep DEF IndInv, Permits
<1>1. CASE Begin
  <2>1. batch' \in 0..Batches
    BY <1>1, <1>0, SandboxRewardAssumption DEF Begin, TypeOK
  <2> QED
    BY <2>1, <1>1, <1>0, Bounds DEF Begin, TypeOK, All
<1>2. CASE Breaks \/ End
  <2>1. orphans' \in Nat
    <3> DEFINE S == {p \in Responses \X Cases : case[p[1]][p[2]] = "waits"}
    <3>1. IsFiniteSet(S)
      BY SandboxRewardAssumption, FS_Product, FS_Subset
    <3>2. Cardinality(S) \in Nat
      BY <3>1, FS_CardinalityType
    <3>3. orphans' = orphans + Cardinality(S)
      BY <1>2 DEF Breaks, End, Gone
    <3> HIDE DEF S
    <3> QED
      BY <3>2, <3>3, <1>0 DEF TypeOK
  <2>2. case' \in [Responses -> [Cases -> Verdicts \cup {"off", "waits", "calls"}]]
    BY <1>2, <1>0 DEF Breaks, End, Gone, TypeOK
  <2> QED
    BY <2>1, <2>2, <1>2, <1>0 DEF Breaks, End, Gone, TypeOK
<1>3. CASE OrphanTakes
  BY <1>3, <1>0 DEF OrphanTakes, TypeOK, cases
<1>4. ASSUME NEW r \in Responses, Take(r) \/ TimesOut(r) PROVE TypeOK'
  <2>1. CASE Take(r)
    BY <2>1, <1>0 DEF Take, TypeOK
  <2>2. CASE TimesOut(r)
    <3>1. PICK then \in {"failed", "stale", "late"} : row' = [row EXCEPT ![r] = then]
      BY <2>2 DEF TimesOut
    <3>2. UNCHANGED <<batch, scoring, truth, case, tries, failed, permits, orphans, score>>
      BY <2>2 DEF TimesOut, cases
    <3> QED
      BY <3>1, <3>2, <1>0 DEF TypeOK
  <2> QED
    BY <1>4, <2>1, <2>2
<1>5. ASSUME NEW r \in Responses, Finish(r) PROVE TypeOK'
  <2>1. score' \in [Responses -> 0..Cardinality(Cases)]
    BY <1>5, <1>0, PassedBounded, Bounds DEF Finish, TypeOK
  <2> QED
    BY <2>1, <1>5, <1>0 DEF Finish, TypeOK, cases
<1>6. ASSUME NEW r \in Responses, NEW c \in Cases, Acquire(r, c) PROVE TypeOK'
  BY <1>6, <1>0, Bounds DEF Acquire, TypeOK
<1>7. ASSUME NEW r \in Responses, NEW c \in Cases, Answered(r, c) PROVE TypeOK'
  BY <1>7, <1>0, VerdictsAre DEF Answered, Done, TypeOK
<1>8. ASSUME NEW r \in Responses, NEW c \in Cases, CallFails(r, c) PROVE TypeOK'
  BY <1>8, <1>0, VerdictsAre DEF CallFails, Done, TypeOK
<1>9. ASSUME NEW r \in Responses, NEW c \in Cases, GatewayTimeout(r, c) PROVE TypeOK'
  <2>1. tries[r][c] + 1 \in 0..MaxRetries
    BY <1>9, <1>0, Bounds DEF GatewayTimeout, TypeOK
  <2> QED
    BY <2>1, <1>9, <1>0 DEF GatewayTimeout, TypeOK
<1> QED
  BY <1>1, <1>2, <1>3, <1>4, <1>5, <1>6, <1>7, <1>8, <1>9 DEF Next

\* A verdict is the one of the last call, and of its own case.
LEMMA FoundStep == IndInv /\ Next => (Places /\ Found)'
<1> SUFFICES ASSUME IndInv, Next PROVE Places' /\ Found'
  OBVIOUS
<1>0. TypeOK /\ Places /\ Found
  BY DEF IndInv
<1>1. CASE Begin
  BY <1>1, <1>0, VerdictsAre DEF Begin, All, Places, Found, Open
<1>2. CASE Breaks \/ End
  <2>1. UNCHANGED <<truth, failed>>
    BY <1>2 DEF Breaks, End
  <2>2. \A r \in Responses : row'[r] \in {"scored", "failed"}
    BY <1>2, <1>0 DEF Breaks, End
  <2>3. \A r \in Responses, c \in Cases :
           case'[r][c] = IF case[r][c] \in {"waits", "calls"} THEN "off" ELSE case[r][c]
    BY <1>2 DEF Breaks, End, Gone
  <2> QED
    BY <2>1, <2>2, <2>3, <1>0, VerdictsAre DEF Places, Found, Open
<1>3. CASE OrphanTakes
  BY <1>3, <1>0 DEF OrphanTakes, cases, Places, Found
<1>4. ASSUME NEW r \in Responses, Take(r) PROVE Places' /\ Found'
  <2>1. UNCHANGED <<truth, failed>> /\ row'[r] \in {"runs", "late"} /\ row[r] \in {"queued", "stale"}
    BY <1>4, <1>0 DEF Take, TypeOK
  <2>2. \A c \in Cases : case'[r][c] = "waits" /\ case[r][c] = "off"
    BY <1>4, <1>0, <2>1 DEF Take, TypeOK, Places
  <2>3. \A q \in Responses \ {r} : case'[q] = case[q] /\ row'[q] = row[q]
    BY <1>4, <1>0 DEF Take, TypeOK
  <2> QED
    BY <2>1, <2>2, <2>3, <1>0, VerdictsAre DEF Places, Found, Open
<1>5. ASSUME NEW r \in Responses, Finish(r) \/ TimesOut(r) PROVE Places' /\ Found'
  BY <1>5, <1>0, VerdictsAre DEF Finish, TimesOut, TypeOK, cases, Places, Found, Open
<1>6. ASSUME NEW r \in Responses, NEW c \in Cases, NEW v, case' = [case EXCEPT ![r][c] = v],
             UNCHANGED <<truth, row>>, case[r][c] \in Open,
             \/ v \in {"calls", Verdict(truth[r][c])} /\ failed' = failed
             \/ v = ApiError /\ failed' = [failed EXCEPT ![r][c] = TRUE]
      PROVE  Places' /\ Found'
  <2>1. case'[r][c] = v /\ row[r] \in {"runs", "late"} /\ ~failed[r][c]
    BY <1>6, <1>0, VerdictsAre DEF TypeOK, Places, Found, Open
  <2>2. \A q \in Responses, d \in Cases : q # r \/ d # c =>
          case'[q][d] = case[q][d] /\ failed'[q][d] = failed[q][d]
    BY <1>6, <1>0 DEF TypeOK
  <2>3. \/ v = ApiError /\ failed'[r][c]
        \/ v \in {"calls", Verdict(truth[r][c])} /\ ~failed'[r][c]
    BY <1>6, <2>1, <1>0 DEF TypeOK
  <2>4. Places'
    BY <2>1, <2>2, <1>6, <1>0 DEF Places, Open
  <2>5. Found'
    BY <2>1, <2>2, <2>3, <1>6, <1>0, VerdictsAre DEF Found
  <2> QED
    BY <2>4, <2>5
<1>7. ASSUME NEW r \in Responses, NEW c \in Cases, Acquire(r, c) \/ Answered(r, c) \/ CallFails(r, c)
      PROVE  Places' /\ Found'
  <2>1. CASE Acquire(r, c)
    BY <2>1, <1>6 DEF Acquire, Open
  <2>2. CASE Answered(r, c)
    BY <2>2, <1>6 DEF Answered, Done, Open
  <2>3. CASE CallFails(r, c)
    BY <2>3, <1>6 DEF CallFails, Done, Open
  <2> QED
    BY <1>7, <2>1, <2>2, <2>3
<1>8. ASSUME NEW r \in Responses, NEW c \in Cases, GatewayTimeout(r, c) PROVE Places' /\ Found'
  BY <1>8, <1>0 DEF GatewayTimeout, Places, Found
<1> QED
  BY <1>1, <1>2, <1>3, <1>4, <1>5, <1>7, <1>8 DEF Next

\* What decides the score of a response.
Score(r) ==
  IF row[r] # "scored" THEN 0 ELSE Cardinality({c \in Cases : Deserves(r, c)})

\* A score is set once, from the verdicts as they are then.
LEMMA ScoreStep == IndInv /\ Next => ScoreIsDeserved'
<1> SUFFICES ASSUME IndInv, Next, NEW q \in Responses PROVE score'[q] = Score(q)'
  BY DeservedIs DEF ScoreIsDeserved, Score, Deserves, Quantify
<1>0. TypeOK /\ Places /\ Found /\ score[q] = Score(q)
  BY DeservedIs DEF IndInv, ScoreRight, Score
<1>1. ASSUME row'[q] # "scored", score'[q] = 0 PROVE score'[q] = Score(q)'
  BY <1>1 DEF Score
<1>2. ASSUME row'[q] = row[q], score'[q] = score[q], truth'[q] = truth[q], failed'[q] = failed[q]
      PROVE  score'[q] = Score(q)'
  BY <1>2, <1>0 DEF Score, Deserves
<1>3. CASE Begin
  BY <1>3, <1>1 DEF Begin
<1>4. CASE Breaks \/ End
  <2>1. score' = score /\ truth' = truth /\ failed' = failed
        /\ row'[q] = IF row[q] = "scored" THEN "scored" ELSE "failed"
    BY <1>4 DEF Breaks, End
  <2>2. row[q] # "scored" => score[q] = 0
    BY <1>0 DEF Score
  <2> QED
    BY <2>1, <2>2, <1>1, <1>2
<1>5. CASE OrphanTakes
  BY <1>5, <1>2 DEF OrphanTakes, cases
<1>6. ASSUME NEW r \in Responses, Take(r) \/ TimesOut(r) PROVE score'[q] = Score(q)'
  <2>1. score' = score /\ truth' = truth /\ failed' = failed
    BY <1>6 DEF Take, TimesOut, cases
  <2>2. row'[q] = row[q] \/ (row'[q] # "scored" /\ row[q] # "scored")
    BY <1>6, <1>0 DEF Take, TimesOut, TypeOK
  <2>3. row[q] # "scored" => score[q] = 0
    BY <1>0 DEF Score
  <2> QED
    BY <2>1, <2>2, <2>3, <1>1, <1>2
<1>7. ASSUME NEW r \in Responses, Finish(r) PROVE score'[q] = Score(q)'
  <2>1. truth' = truth /\ failed' = failed
    BY <1>7 DEF Finish, cases
  <2>2. CASE q # r
    BY <2>1, <2>2, <1>7, <1>0, <1>2 DEF Finish, TypeOK
  <2>3. CASE q = r /\ row[r] = "runs"
    <3>1. row'[q] = "scored" /\ score'[q] = Passed(case[q])
      BY <2>3, <1>7, <1>0 DEF Finish, TypeOK
    <3>2. Passed(case[q]) = Cardinality({c \in Cases : Deserves(q, c)})
      BY <2>3, <1>7, <1>0, PassedIsDeserved DEF Finish
    <3> QED
      BY <3>1, <3>2, <2>1 DEF Score, Deserves
  <2>4. CASE q = r /\ row[r] # "runs"
    BY <2>4, <1>7, <1>0, <1>1 DEF Finish, TypeOK
  <2> QED
    BY <2>2, <2>3, <2>4
<1>8. ASSUME NEW r \in Responses, NEW c \in Cases, Acquire(r, c) \/ Answered(r, c) \/ GatewayTimeout(r, c)
      PROVE  score'[q] = Score(q)'
  BY <1>8, <1>2 DEF Acquire, Answered, GatewayTimeout
<1>9. ASSUME NEW r \in Responses, NEW c \in Cases, CallFails(r, c) PROVE score'[q] = Score(q)'
  <2>1. row[r] # "scored" /\ score' = score /\ truth' = truth /\ row' = row
    BY <1>9, <1>0 DEF CallFails, Places, Open
  <2>2. CASE q = r
    BY <2>1, <2>2, <1>0 DEF Score
  <2>3. CASE q # r
    <3>1. failed'[q] = failed[q]
      BY <2>3, <1>9, <1>0 DEF CallFails, TypeOK
    <3> QED
      BY <3>1, <2>1, <1>2
  <2> QED
    BY <2>2, <2>3
<1> QED
  BY <1>3, <1>4, <1>5, <1>6, <1>7, <1>8, <1>9 DEF Next

\* So it holds for ever.
LEMMA Invariance == Spec => []IndInv
<1>1. IndInv /\ [Next]_vars => IndInv'
  <2> SUFFICES ASSUME IndInv, [Next]_vars PROVE IndInv'
    OBVIOUS
  <2>1. CASE UNCHANGED vars
    <3>1. UNCHANGED <<batch, scoring, truth, row, case, tries, failed, permits, orphans, score>>
      BY <2>1 DEF vars, cases
    <3>2. TypeOK' /\ Places' /\ Found'
      BY <3>1 DEF IndInv, TypeOK, Places, Found
    <3>3. Calling' = Calling
      BY <3>1 DEF Calling
    <3>4. AtMostConcurrent'
      BY <3>1, <3>3 DEF IndInv, ScoreRight, AtMostConcurrent
    <3>5. ScoreIsDeserved'
      BY <3>1 DEF IndInv, ScoreRight, ScoreIsDeserved, Quantify
    <3> QED
      BY <3>2, <3>4, <3>5 DEF IndInv, ScoreRight
  <2> QED
    BY <2>1, PermitsStep, TypeStep, FoundStep, ScoreStep DEF IndInv, ScoreRight, Permits
<1> QED
  BY <1>1, Starts, PTL DEF Spec

(* However many responses, cases, processes and permits there are, and     *)
(* whatever calls fail, are repeated, are given up or die with the pool:   *)
(* no more than max_concurrent calls are at the sandbox, and the score of  *)
(* a response is what its own cases deserve, or 0 (prime.py:34-78,         *)
(* sandbox_fusion/utils.py:522-549).                                       *)
THEOREM Scored == Spec => []ScoreRight
<1>1. IndInv => ScoreRight
  BY DEF IndInv
<1> QED
  BY <1>1, Invariance, PTL
=============================================================================
