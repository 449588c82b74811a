---------------------------- MODULE SampleStore ----------------------------
(***************************************************************************)
(* One generation campaign of evaluate/generate_evaluate.py: the command   *)
(* is run, crashes or exits, and is run again over the same output file.   *)
(*                                                                         *)
(*   disk     the output file   (code_generation_<n>_<t>.jsonl)            *)
(*   tmp      the output file's ".tmp" sibling, which _write_jsonl fills   *)
(*   archive  the samples kept in ..._eval_all.jsonl                       *)
(*   live     live_results_dict, the main thread's view of every record    *)
(*   task     the tasks given to the thread pool of run_main_per_sample    *)
(*   stage    where main() is; writing, where _write_jsonl is              *)
(*                                                                         *)
(* A record's output_list and code_list are one set of samples: the two    *)
(* lists are filtered and appended together, and nothing depends on their  *)
(* order.  A sample is named by the run and the task that produced it, so  *)
(* that losing one and asking for another is not the same as keeping it.   *)
(***************************************************************************)
EXTENDS Naturals, FiniteSets, FiniteSetTheorems, TLAPS

CONSTANTS
  Problems,     \* question ids of the benchmark
  N,            \* --n: samples wanted per problem
  Workers,      \* --multiprocess: threads of the pool
  MaxAttempts,  \* API attempts per sample (15 in LubanRunner._run_one)
  MaxRuns,      \* bound: how often the command is started
  Programs,     \* extracted code that is some program text
  Blanks,       \* extracted code made of white space only, but not ""
  Empty,        \* the code "": no fenced block, or a call given up
  NoFile,       \* the file does not exist
  Torn          \* the file was opened for writing and is not complete

Code == Programs \cup Blanks \cup {Empty}
Sample == [run : Nat, idx : 1..N, code : Code]
Records == [Problems -> SUBSET Sample]
TaskState == {"none", "queued", "running", "returned", "saved"}
Task == [st : TaskState, try : 0..MaxAttempts, code : Code]

ASSUME NAssumption == N \in Nat \ {0}
ASSUME BoundsAssumption ==
  MaxAttempts \in Nat \ {0} /\ Workers \in Nat \ {0} /\ MaxRuns \in Nat
ASSUME CodeAssumption == Empty \notin Programs \cup Blanks
ASSUME FileAssumption == NoFile # Torn /\ {NoFile, Torn} \cap Records = {}

VARIABLES stage, disk, tmp, archive, live, task, writing, runs

vars == <<stage, disk, tmp, archive, live, task, writing, runs>>

NoRecords == [p \in Problems |-> {}]
NewTask(st) == [st |-> st, try |-> 0, code |-> Empty]
NoTask == NewTask("none")
NoTasks == [p \in Problems |-> [i \in 1..N |-> NoTask]]

-----------------------------------------------------------------------------
(* Reading a record back: which of its samples count, and which are kept.  *)

\* code != "": what the filters of part_gen_results and part_gen_codes keep
Kept(r) == {s \in r : s.code # Empty}

\* s.strip() != "": what gen_num counts
Solid(r) == {s \in r : s.code \notin Blanks \cup {Empty}}

Complete(r) == r # {} /\ Kept(r) = r /\ Cardinality(r) = N

Partial(r) == Cardinality(Solid(r)) < N

\* Mutation: a partial record is not carried over into live_results_dict.
ResumedWithoutParts(r) == IF Complete(r) THEN r ELSE {}

\* A record that is neither complete nor partial starts again as a skeleton.
Resumed(r) ==
  CASE Complete(r)               -> r
    [] ~Complete(r) /\ Partial(r) -> Kept(r)
    [] OTHER                      -> {}

\* Mutation: the runner is not given gen_num, and asks for n again.
MissingWithoutParts(r) == IF Complete(r) THEN 0 ELSE N

\* gen_num.get(qid, default_n), and no task for a complete record
Missing(r) ==
  CASE Complete(r)               -> 0
    [] ~Complete(r) /\ Partial(r) -> N - Cardinality(Solid(r))
    [] OTHER                      -> N

\* Mutation: only the output file is looked for.
ExistingOutputOnly == IF disk # NoFile THEN disk ELSE NoRecords

\* The file a run resumes from: the output file, else the evaluated copy.
Existing ==
  CASE disk # NoFile                      -> disk
    [] disk = NoFile /\ archive # NoFile  -> archive
    [] OTHER                              -> NoRecords

-----------------------------------------------------------------------------
Init ==
  /\ stage = "down"
  /\ disk = NoFile /\ tmp = NoFile /\ archive = NoFile
  /\ live = NoRecords /\ task = NoTasks
  /\ writing = "idle"
  /\ runs = 0

Alive == stage \in {"generate", "finish", "evaluate"}

\* The process is gone, and its memory with it.
LoseMemory ==
  /\ live' = NoRecords /\ task' = NoTasks
  /\ writing' = "idle"

(* main() up to pool.submit: read the existing file, sort the problems into *)
(* complete, partial and fresh, and queue one task per missing sample.  A   *)
(* torn file cannot be parsed and the command cannot be started.            *)
Boot ==
  /\ ~Alive /\ runs < MaxRuns /\ Existing # Torn
  /\ stage' = "generate"
  /\ runs' = runs + 1
  /\ live' = [p \in Problems |-> Resumed(Existing[p])]
  /\ task' = [p \in Problems |-> [i \in 1..N |->
                IF i <= Missing(Existing[p])
                THEN NewTask("queued") ELSE NoTask]]
  /\ UNCHANGED <<disk, tmp, archive, writing>>

SetTask(p, i, st, try, code) ==
  task' = [task EXCEPT ![p][i] = [st |-> st, try |-> try, code |-> code]]

Is(p, i, st) == task[p][i].st = st

Running == {pi \in Problems \X (1..N) : Is(pi[1], pi[2], "running")}

\* A free thread of the pool takes a task and makes its first call.
StartTask(p, i) ==
  /\ stage = "generate" /\ Is(p, i, "queued")
  /\ Cardinality(Running) < Workers
  /\ SetTask(p, i, "running", 1, Empty)
  /\ UNCHANGED <<stage, disk, tmp, archive, live, writing, runs>>

\* The API answers; c is what extract_code will make of the answer.
Answer(p, i, c) ==
  /\ stage = "generate" /\ Is(p, i, "running")
  /\ SetTask(p, i, "returned", task[p][i].try, c)
  /\ UNCHANGED <<stage, disk, tmp, archive, live, writing, runs>>

\* The call fails: try again, or give the sample up as "" after the last try.
CallFails(p, i) ==
  /\ stage = "generate" /\ Is(p, i, "running")
  /\ IF task[p][i].try < MaxAttempts
     THEN SetTask(p, i, "running", task[p][i].try + 1, Empty)
     ELSE SetTask(p, i, "returned", task[p][i].try, Empty)
  /\ UNCHANGED <<stage, disk, tmp, archive, live, writing, runs>>

(* The main thread takes one finished future out of as_completed, appends  *)
(* its sample to the live record and begins to write the snapshot.         *)
Collect(p, i) ==
  /\ stage = "generate" /\ writing = "idle" /\ Is(p, i, "returned")
  /\ live' = [live EXCEPT ![p] =
                @ \cup {[run |-> runs, idx |-> i, code |-> task[p][i].code]}]
  /\ SetTask(p, i, "saved", 0, Empty)
  /\ writing' = "open"
  /\ UNCHANGED <<stage, disk, tmp, archive, runs>>

\* Mutation: the end of the pool is n samples for every problem.
DrainedOfAll == \A p \in Problems, i \in 1..N : task[p][i].st = "saved"

\* The pool is drained: as_completed has yielded every future.
Drained == \A p \in Problems, i \in 1..N : task[p][i].st \in {"none", "saved"}

\* Mutation: the last streamed snapshot is taken for the final one.
FinishWithoutWrite ==
  /\ stage = "generate" /\ writing = "idle" /\ Drained
  /\ stage' = "evaluate"
  /\ UNCHANGED <<disk, tmp, archive, live, task, writing, runs>>

\* The final, unconditional write of save_results begins.
Finish ==
  /\ stage = "generate" /\ writing = "idle" /\ Drained
  /\ stage' = "finish" /\ writing' = "open"
  /\ UNCHANGED <<disk, tmp, archive, live, task, runs>>

-----------------------------------------------------------------------------
\* Mutation: the output file itself is opened for writing.
OpenInPlace ==
  /\ writing = "open"
  /\ disk' = Torn /\ tmp' = Torn /\ writing' = "fill"
  /\ UNCHANGED <<stage, archive, live, task, runs>>

(* _write_jsonl: open truncates the .tmp file, the loop fills it, and      *)
(* os.replace puts it in the place of the output file.                     *)
OpenTmp ==
  /\ writing = "open"
  /\ tmp' = Torn /\ writing' = "fill"
  /\ UNCHANGED <<stage, disk, archive, live, task, runs>>

FillTmp ==
  /\ writing = "fill"
  /\ tmp' = live /\ writing' = "replace"
  /\ UNCHANGED <<stage, disk, archive, live, task, runs>>

Replace ==
  /\ writing = "replace"
  /\ disk' = tmp /\ tmp' = NoFile /\ writing' = "idle"
  /\ stage' = IF stage = "finish" THEN "evaluate" ELSE stage
  /\ UNCHANGED <<archive, live, task, runs>>

\* While streaming, an exception of the write is printed and forgotten.
FlushFails ==
  /\ stage = "generate" /\ writing # "idle"
  /\ writing' = "idle"
  /\ UNCHANGED <<stage, disk, tmp, archive, live, task, runs>>

-----------------------------------------------------------------------------
(* After the final write main() returns, without --evaluate or when every  *)
(* problem is in the eval_all file already; otherwise it grades and saves  *)
(* the records it has in memory (module EvalMerge has the details).        *)
Exit ==
  /\ stage = "evaluate"
  /\ stage' = "exited"
  /\ \/ UNCHANGED archive
     \/ archive = NoFile /\ archive' = live
  /\ LoseMemory
  /\ UNCHANGED <<disk, tmp, runs>>

\* The process is killed, or dies of an exception outside every try.
Crash ==
  /\ Alive
  /\ stage' = "down"
  /\ LoseMemory
  /\ UNCHANGED <<disk, tmp, archive, runs>>

\* Between two runs the operator deletes the output file.
RemoveOutput ==
  /\ ~Alive /\ disk # NoFile
  /\ disk' = NoFile
  /\ UNCHANGED <<stage, tmp, archive, live, task, writing, runs>>

WorkerStep ==
  \E p \in Problems, i \in 1..N :
    \/ StartTask(p, i)
    \/ \E c \in Code : Answer(p, i, c)
    \/ CallFails(p, i)

MainStep ==
  \/ \E p \in Problems, i \in 1..N : Collect(p, i)
  \/ OpenTmp \/ FillTmp \/ Replace \/ FlushFails
  \/ Finish \/ Exit

Next == Boot \/ WorkerStep \/ MainStep \/ Crash \/ RemoveOutput

Spec == Init /\ [][Next]_vars

(* A thread of the pool always gets to run, a call returns (the client has *)
(* a timeout) and the main thread is never blocked by anything but them.   *)
(* Nobody promises to start the command or that it crashes.                *)
FairSpec == Spec /\ WF_vars(WorkerStep) /\ WF_vars(MainStep)
-----------------------------------------------------------------------------
File == {NoFile, Torn} \cup Records

(* Every variable stays in its type; the output and the evaluated file are *)
(* never torn, which is what writing the .tmp file first is for            *)
(* (_write_jsonl, lines 19-25).                                            *)
TypeOK ==
  /\ stage \in {"down", "generate", "finish", "evaluate", "exited"}
  /\ disk \in File \ {Torn} /\ archive \in File \ {Torn}
  /\ tmp \in File
  /\ live \in Records
  /\ task \in [Problems -> [1..N -> Task]]
  /\ writing \in {"idle", "open", "fill", "replace"}
  /\ runs \in Nat

Clean(r) == \A s \in r : s.code \notin Blanks

Outstanding(p) == {i \in 1..N : task[p][i].st \in {"queued", "running", "returned"}}

(* While a run is up, what a problem's record holds and what is still in   *)
(* the pool for it add up to n, whatever was on the disk, however the      *)
(* threads interleave and whichever calls fail.  A record that holds a     *)
(* white-space program is counted twice by the resume (line 81 against     *)
(* line 87), so only "at least n" is left for it.                          *)
Accounted ==
  Alive => \A p \in Problems :
    LET total == Cardinality(live[p]) + Cardinality(Outstanding(p))
    IN  total >= N /\ (Clean(live[p]) => total = N)

(* When evaluation begins the output file is the memory's view, and every  *)
(* problem has its n samples in it, exactly n where the record is clean:   *)
(* codegen_metrics asserts that length.                                    *)
EvaluatesWhole ==
  stage = "evaluate" =>
    /\ disk = live
    /\ \A p \in Problems :
         /\ Cardinality(disk[p]) >= N
         /\ Clean(disk[p]) => Cardinality(disk[p]) = N

OperatorRemoves == disk # NoFile /\ disk' = NoFile

(* A useful sample that reached a file a run resumes from is never lost to *)
(* a crash, a failed write, a resume, a retry or an evaluation, as long as *)
(* the record holds no white-space program: only the operator removes it.  *)
DurableSamples ==
  [][OperatorRemoves \/
     \A p \in Problems : Clean(Existing[p]) =>
       Existing' # Torn /\ Kept(Existing[p]) \subseteq Kept(Existing'[p])]_vars

(* README.md:40 "an interrupted run can be resumed without losing any      *)
(* work": no program text that is on the disk is ever lost by the program. *)
(* The code breaks this through white-space programs.                      *)
NoWorkLost ==
  [][OperatorRemoves \/
     \A p \in Problems :
       Existing' # Torn /\ Solid(Existing[p]) \subseteq Solid(Existing'[p])]_vars

(* Whatever the API answers, a run that is not killed comes to its end: the *)
(* pool drains, every future is collected, the last write is made.         *)
Terminates == stage = "generate" ~> ~Alive

(* Without white-space programs the whole campaign implements the abstract *)
(* log: it only grows, never beyond n, and what was evaluated survives the *)
(* deletion of the output file (lines 70-94).                              *)
Log == INSTANCE SampleLog WITH
  log <- [p \in Problems |-> Kept(Existing[p])],
  checkpoint <- IF archive = NoFile THEN NoRecords
                ELSE [p \in Problems |-> Kept(archive[p])]

ImplementsLog == Log!Spec

-----------------------------------------------------------------------------
(***************************************************************************)
(* Proofs, for every set of problems, every n, every pool size, every      *)
(* number of attempts, runs and crashes, and whatever the calls answer.    *)
(*                                                                         *)
(* None of the properties is inductive alone.  That a run adds up to n     *)
(* rests on what the run before left on the disk, and that on how its      *)
(* snapshots were written; IndInv puts these facts together.               *)
(***************************************************************************)
\* A record is finite, of runs up to k, and not overfull when clean.
SoundRecord(r, k) ==
  /\ IsFiniteSet(r)
  /\ \A s \in r : s.run <= k
  /\ Clean(r) => Cardinality(r) <= N

Sound(f, k) == f \in Records => \A p \in Problems : SoundRecord(f[p], k)

FilesSound ==
  /\ Sound(disk, runs) /\ Sound(tmp, runs)
  /\ Sound(archive, runs) /\ Sound(live, runs)

\* A sample of this run is in a record only once its task is done with.
Fresh ==
  Alive => \A p \in Problems : \A s \in live[p] :
             s.run = runs => task[p][s.idx].st = "saved"

\* What the writer holds, and what has been settled when it has finished.
Settled ==
  /\ writing = "replace" => tmp = live
  /\ ~Alive => writing = "idle"
  /\ stage \in {"finish", "evaluate"} => Drained
  /\ stage = "evaluate" => disk = live /\ writing = "idle"

\* The memory of a run is never behind a clean record it resumed from.
Ahead ==
  Alive => \A p \in Problems :
             Clean(Existing[p]) => Kept(Existing[p]) \subseteq live[p]

IndInv == TypeOK /\ FilesSound /\ Accounted /\ Fresh /\ Settled /\ Ahead

-----------------------------------------------------------------------------
(* Facts about one record that is read back. *)

\* What reading back leaves of a record is a part of it.
LEMMA KeptFacts ==
  ASSUME NEW r, IsFiniteSet(r)
  PROVE  /\ Solid(r) \subseteq Kept(r) /\ Kept(r) \subseteq r
         /\ IsFiniteSet(Kept(r)) /\ IsFiniteSet(Solid(r))
         /\ Cardinality(r) \in Nat
         /\ Cardinality(Kept(r)) \in Nat /\ Cardinality(Solid(r)) \in Nat
         /\ Cardinality(Solid(r)) <= Cardinality(Kept(r))
         /\ Cardinality(Kept(r)) <= Cardinality(r)
         /\ Cardinality(Kept(r)) = Cardinality(r) => Kept(r) = r
<1>1. Solid(r) \subseteq Kept(r) /\ Kept(r) \subseteq r
  BY DEF Solid, Kept
<1>2. IsFiniteSet(Kept(r)) /\ Cardinality(Kept(r)) <= Cardinality(r)
      /\ (Cardinality(Kept(r)) = Cardinality(r) => Kept(r) = r)
  BY <1>1, FS_Subset
<1>3. IsFiniteSet(Solid(r)) /\ Cardinality(Solid(r)) <= Cardinality(Kept(r))
  BY <1>1, <1>2, FS_Subset
<1>4. Cardinality(r) \in Nat /\ Cardinality(Kept(r)) \in Nat
      /\ Cardinality(Solid(r)) \in Nat
  BY <1>2, <1>3, FS_CardinalityType
<1>. QED
  BY <1>1, <1>2, <1>3, <1>4

\* Where there is no white-space program the two counts of a record agree.
LEMMA CleanSolid ==
  ASSUME NEW r, Clean(Kept(r))
  PROVE  Solid(r) = Kept(r)
BY DEF Clean, Kept, Solid

\* What a run starts with and what it asks for add up to n, or to more.
LEMMA ResumeCounts ==
  ASSUME NEW r, IsFiniteSet(r)
  PROVE  /\ Resumed(r) \subseteq r /\ IsFiniteSet(Resumed(r))
         /\ Missing(r) \in 0..N
         /\ Cardinality(Resumed(r)) + Missing(r) >= N
         /\ Clean(Resumed(r)) => Cardinality(Resumed(r)) + Missing(r) = N
<1>. USE NAssumption
<1>1. CASE Complete(r)
  BY <1>1 DEF Complete, Resumed, Missing
<1>2. CASE ~Complete(r) /\ Partial(r)
  <2>1. Resumed(r) = Kept(r) /\ Missing(r) = N - Cardinality(Solid(r))
    BY <1>2 DEF Resumed, Missing
  <2>2. Cardinality(Solid(r)) < N
    BY <1>2 DEF Partial
  <2>3. Clean(Kept(r)) => Cardinality(Solid(r)) = Cardinality(Kept(r))
    BY CleanSolid
  <2>. QED
    BY <2>1, <2>2, <2>3, KeptFacts
<1>3. CASE ~Complete(r) /\ ~Partial(r)
  <2>1. Resumed(r) = {} /\ Missing(r) = N
    BY <1>3 DEF Resumed, Missing
  <2>. QED
    BY <2>1, FS_EmptySet
<1>. QED
  BY <1>1, <1>2, <1>3

\* A clean record that is not overfull is resumed with all it has of use.
LEMMA ResumeKeeps ==
  ASSUME NEW r, IsFiniteSet(r), Clean(r), Cardinality(r) <= N
  PROVE  Kept(r) \subseteq Resumed(r)
<1>. USE NAssumption
<1>1. CASE Complete(r)
  BY <1>1 DEF Resumed, Kept
<1>2. CASE ~Complete(r) /\ Partial(r)
  BY <1>2 DEF Resumed
<1>3. CASE ~Complete(r) /\ ~Partial(r)
  <2>1. Solid(r) = Kept(r)
    BY CleanSolid DEF Clean, Kept
  <2>2. Cardinality(Kept(r)) >= N
    BY <1>3, <2>1, KeptFacts DEF Partial
  <2>3. Cardinality(Kept(r)) = N /\ Kept(r) = r
    BY <2>2, KeptFacts
  <2>4. r # {}
    BY <2>3, FS_EmptySet
  <2>. QED
    BY <1>3, <2>3, <2>4 DEF Complete
<1>. QED
  BY <1>1, <1>2, <1>3

\* The first m of the tasks are m.
LEMMA QueueCount ==
  ASSUME NEW m \in 0..N
  PROVE  Cardinality({i \in 1..N : i <= m}) = m
<1>1. {i \in 1..N : i <= m} = 1..m
  BY NAssumption
<1>2. Cardinality(1..m) = m
  BY NAssumption, FS_Interval
<1>. QED
  BY <1>1, <1>2

\* The file a run resumes from.
LEMMA ExistingFacts ==
  ASSUME TypeOK
  PROVE  /\ Existing \in Records
         /\ disk # NoFile => Existing = disk
         /\ disk = NoFile /\ archive # NoFile => Existing = archive
         /\ disk = NoFile /\ archive = NoFile => Existing = NoRecords
<1>1. NoRecords \in Records
  BY DEF NoRecords, Records
<1>. QED
  BY <1>1 DEF TypeOK, Existing, File

-----------------------------------------------------------------------------
(* The steps.  Everything the thread pool does is one kind of step: a task *)
(* moves among queued, running and returned and nothing else changes.      *)

Open(p, i) == task[p][i].st \in {"queued", "running", "returned"}

\* A task that is set, and no other.
LEMMA SetTaskFacts ==
  ASSUME task \in [Problems -> [1..N -> Task]],
         NEW p \in Problems, NEW i \in 1..N,
         NEW st \in TaskState, NEW try \in 0..MaxAttempts, NEW code \in Code,
         SetTask(p, i, st, try, code)
  PROVE  /\ task' \in [Problems -> [1..N -> Task]]
         /\ task'[p][i] = [st |-> st, try |-> try, code |-> code]
         /\ task'[p][i].st = st
         /\ \A q \in Problems, j \in 1..N :
              q # p \/ j # i => task'[q][j] = task[q][j]
<1>. DEFINE t == [st |-> st, try |-> try, code |-> code]
<1>1. t \in Task
  BY DEF Task
<1>2. task' = [task EXCEPT ![p] = [task[p] EXCEPT ![i] = t]]
  BY DEF SetTask
<1>. HIDE DEF t
<1>3. /\ task' \in [Problems -> [1..N -> Task]]
      /\ task'[p][i] = t
      /\ \A q \in Problems, j \in 1..N :
           q # p \/ j # i => task'[q][j] = task[q][j]
  BY <1>1, <1>2
<1>. QED
  BY <1>3 DEF t

\* The steps of the workers: tasks change, files and the stage do not.
LEMMA WorkerMoves ==
  ASSUME TypeOK, WorkerStep
  PROVE  /\ stage = "generate"
         /\ UNCHANGED <<stage, disk, tmp, archive, live, writing, runs>>
         /\ task' \in [Problems -> [1..N -> Task]]
         /\ \A q \in Problems, j \in 1..N :
              /\ Open(q, j)' <=> Open(q, j)
              /\ task'[q][j].st = "saved" <=> task[q][j].st = "saved"
              /\ task'[q][j].st = "none" <=> task[q][j].st = "none"
<1>1. PICK p \in Problems, i \in 1..N :
        StartTask(p, i) \/ (\E c \in Code : Answer(p, i, c)) \/ CallFails(p, i)
  BY DEF WorkerStep
<1>2. /\ task \in [Problems -> [1..N -> Task]] /\ Empty \in Code
      /\ task[p][i].try \in 0..MaxAttempts
      /\ 1 \in 0..MaxAttempts
  <2>1. task[p][i] \in Task
    BY DEF TypeOK
  <2>2. task[p][i].try \in 0..MaxAttempts
    BY <2>1 DEF Task
  <2>. QED
    BY <2>2, BoundsAssumption DEF TypeOK, Code
<1>3. /\ stage = "generate"
      /\ UNCHANGED <<stage, disk, tmp, archive, live, writing, runs>>
      /\ task[p][i].st \in {"queued", "running"}
      /\ \E st \in {"running", "returned"}, try \in 0..MaxAttempts, code \in Code :
           SetTask(p, i, st, try, code)
  <2>1. CASE StartTask(p, i)
    BY <1>2, <2>1 DEF StartTask, Is
  <2>2. CASE \E c \in Code : Answer(p, i, c)
    BY <1>2, <2>2 DEF Answer, Is
  <2>3. CASE CallFails(p, i)
    <3>1. task[p][i].try < MaxAttempts => task[p][i].try + 1 \in 0..MaxAttempts
      BY <1>2, BoundsAssumption
    <3>. QED
      BY <1>2, <2>3, <3>1 DEF CallFails, Is
  <2>. QED
    BY <1>1, <2>1, <2>2, <2>3
<1>4. PICK st \in {"running", "returned"}, try \in 0..MaxAttempts, code \in Code :
        SetTask(p, i, st, try, code)
  BY <1>3
<1>5. /\ task' \in [Problems -> [1..N -> Task]]
      /\ task'[p][i].st = st
      /\ \A q \in Problems, j \in 1..N :
           q # p \/ j # i => task'[q][j] = task[q][j]
  <2>1. st \in TaskState
    BY DEF TaskState
  <2>. QED
    BY <1>2, <1>4, <2>1, SetTaskFacts
<1>6. ASSUME NEW q \in Problems, NEW j \in 1..N
      PROVE  /\ Open(q, j)' <=> Open(q, j)
             /\ task'[q][j].st = "saved" <=> task[q][j].st = "saved"
             /\ task'[q][j].st = "none" <=> task[q][j].st = "none"
  <2>1. CASE q = p /\ j = i
    BY <1>3, <1>5, <2>1 DEF Open
  <2>2. CASE q # p \/ j # i
    BY <1>5, <2>2 DEF Open
  <2>. QED
    BY <2>1, <2>2
<1>. QED
  BY <1>3, <1>5, <1>6

\* Types are kept.
LEMMA TypeStep ==
  ASSUME TypeOK, Settled, [Next]_vars
  PROVE  TypeOK'
<1>. USE DEF TypeOK, File
<1>0. NoRecords \in Records /\ NoTasks \in [Problems -> [1..N -> Task]]
  BY BoundsAssumption DEF NoRecords, Records, NoTasks, NoTask, NewTask, Task, TaskState, Code
<1>1. CASE Boot
  <2>1. Existing \in Records
    BY ExistingFacts
  <2>2. \A p \in Problems : Resumed(Existing[p]) \subseteq Existing[p]
    BY DEF Resumed, Kept
  <2>3. live' \in Records
    BY <1>1, <2>1, <2>2 DEF Boot, Records
  <2>4. task' \in [Problems -> [1..N -> Task]]
    BY <1>1, BoundsAssumption DEF Boot, NoTask, NewTask, Task, TaskState, Code
  <2>. QED
    BY <1>1, <2>3, <2>4 DEF Boot
<1>2. CASE WorkerStep
  BY <1>2, WorkerMoves
<1>3. ASSUME NEW p \in Problems, NEW i \in 1..N, Collect(p, i)
      PROVE  TypeOK'
  <2>1. task[p][i].code \in Code
    BY DEF Task
  <2>2. live' \in Records
    BY <1>3, <2>1 DEF Collect, Records, Sample
  <2>3. task' \in [Problems -> [1..N -> Task]]
    <3>1. Empty \in Code /\ "saved" \in TaskState /\ 0 \in 0..MaxAttempts
      BY BoundsAssumption DEF Code, TaskState
    <3>. QED
      BY <1>3, <3>1, SetTaskFacts DEF Collect
  <2>. QED
    BY <1>3, <2>2, <2>3 DEF Collect
<1>4. CASE OpenTmp
  BY <1>4 DEF OpenTmp
<1>5. CASE FillTmp
  BY <1>5 DEF FillTmp
<1>6. CASE Replace
  BY <1>6, FileAssumption DEF Replace, Settled
<1>7. CASE FlushFails
  BY <1>7 DEF FlushFails
<1>8. CASE Finish
  BY <1>8 DEF Finish
<1>9. CASE Exit
  BY <1>0, <1>9, FileAssumption DEF Exit, LoseMemory
<1>10. CASE Crash
  BY <1>0, <1>10 DEF Crash, LoseMemory
<1>11. CASE RemoveOutput
  BY <1>11, FileAssumption DEF RemoveOutput
<1>12. CASE UNCHANGED vars
  BY <1>12 DEF vars
<1>. QED
  BY <1>1, <1>2, <1>3, <1>4, <1>5, <1>6, <1>7, <1>8, <1>9, <1>10, <1>11, <1>12
     DEF Next, MainStep

\* A collected sample is new to its record, and its task leaves the pool.
LEMMA CollectMoves ==
  ASSUME TypeOK, Fresh, NEW p \in Problems, NEW i \in 1..N, Collect(p, i)
  PROVE  LET s == [run |-> runs, idx |-> i, code |-> task[p][i].code]
         IN  /\ s \in Sample /\ s \notin live[p]
             /\ live' = [live EXCEPT ![p] = live[p] \cup {s}]
             /\ task' \in [Problems -> [1..N -> Task]]
             /\ Open(p, i) /\ ~Open(p, i)' /\ task'[p][i].st = "saved"
             /\ \A q \in Problems, j \in 1..N :
                  q # p \/ j # i => task'[q][j] = task[q][j]
<1>. DEFINE s == [run |-> runs, idx |-> i, code |-> task[p][i].code]
<1>1. task[p][i].st = "returned" /\ stage = "generate"
  BY DEF Collect, Is
<1>2. task[p][i] \in Task /\ task \in [Problems -> [1..N -> Task]]
  BY DEF TypeOK
<1>3. task[p][i].code \in Code
  BY <1>2 DEF Task
<1>4. s \in Sample
  BY <1>3 DEF Sample, TypeOK
<1>5. s \notin live[p]
  <2>1. s.run = runs /\ s.idx = i
    OBVIOUS
  <2>. QED
    BY <1>1, <2>1 DEF Fresh, Alive
<1>6. /\ task' \in [Problems -> [1..N -> Task]]
      /\ task'[p][i].st = "saved"
      /\ \A q \in Problems, j \in 1..N :
           q # p \/ j # i => task'[q][j] = task[q][j]
  <2>1. Empty \in Code /\ "saved" \in TaskState /\ 0 \in 0..MaxAttempts
    BY BoundsAssumption DEF Code, TaskState
  <2>2. SetTask(p, i, "saved", 0, Empty)
    BY DEF Collect
  <2>. QED
    BY <1>2, <2>1, <2>2, SetTaskFacts
<1>7. live' = [live EXCEPT ![p] = live[p] \cup {s}]
  BY DEF Collect
<1>. QED
  BY <1>1, <1>4, <1>5, <1>6, <1>7 DEF Open

\* What the stage of a run has settled of its files and tasks is kept.
LEMMA SettledStep ==
  ASSUME TypeOK, Fresh, Settled, [Next]_vars
  PROVE  Settled'
<1>. USE DEF Settled, Alive, TypeOK
<1>1. CASE Boot
  BY <1>1 DEF Boot
<1>2. CASE WorkerStep
  BY <1>2, WorkerMoves
<1>3. ASSUME NEW p \in Problems, NEW i \in 1..N, Collect(p, i)
      PROVE  Settled'
  BY <1>3 DEF Collect
<1>4. CASE OpenTmp
  BY <1>4 DEF OpenTmp, Drained
<1>5. CASE FillTmp
  BY <1>5 DEF FillTmp, Drained
<1>6. CASE Replace
  BY <1>6 DEF Replace, Drained
<1>7. CASE FlushFails
  BY <1>7 DEF FlushFails
<1>8. CASE Finish
  BY <1>8 DEF Finish, Drained
<1>9. CASE Exit
  BY <1>9 DEF Exit, LoseMemory
<1>10. CASE Crash
  BY <1>10 DEF Crash, LoseMemory
<1>11. CASE RemoveOutput
  BY <1>11 DEF RemoveOutput
<1>12. CASE UNCHANGED vars
  BY <1>12 DEF vars, Drained
<1>. QED
  BY <1>1, <1>2, <1>3, <1>4, <1>5, <1>6, <1>7, <1>8, <1>9, <1>10, <1>11, <1>12
     DEF Next, MainStep

\* The file without records is sound.
LEMMA NoRecordsSound ==
  ASSUME NEW k
  PROVE  Sound(NoRecords, k)
BY FS_EmptySet, NAssumption DEF Sound, NoRecords, SoundRecord, Clean

\* A file that is sound for a run is so for those after it.
LEMMA SoundLater ==
  ASSUME NEW f, NEW k \in Nat, NEW m \in Nat, k <= m, Sound(f, k)
  PROVE  Sound(f, m)
<1>. SUFFICES ASSUME f \in Records, NEW p \in Problems
              PROVE  SoundRecord(f[p], m)
  BY DEF Sound
<1>1. SoundRecord(f[p], k) /\ \A s \in f[p] : s.run \in Nat
  BY DEF Sound, Records, Sample
<1>. QED
  BY <1>1 DEF SoundRecord

\* A run resumes from a sound file.
LEMMA ExistingSound ==
  ASSUME TypeOK, FilesSound
  PROVE  Sound(Existing, runs)
BY ExistingFacts, NoRecordsSound DEF FilesSound

\* A sample of a run is in a record only when its task is done with: a new
\* run finds none of its own on the disk, and collecting closes the task.
LEMMA FreshStep ==
  ASSUME TypeOK, FilesSound, Fresh, Settled, [Next]_vars
  PROVE  Fresh'
<1>1. CASE Boot
  <2>. SUFFICES ASSUME NEW p \in Problems, NEW s \in live'[p]
                PROVE  s.run # runs'
    BY DEF Fresh
  <2>1. Existing \in Records /\ Sound(Existing, runs)
    BY ExistingFacts, ExistingSound
  <2>2. live'[p] = Resumed(Existing[p])
    BY <1>1 DEF Boot
  <2>3. s \in Existing[p]
    BY <2>1, <2>2, ResumeCounts DEF Sound, SoundRecord
  <2>4. s.run \in Nat /\ s.run <= runs
    BY <2>1, <2>3 DEF Sound, SoundRecord, Records, Sample
  <2>5. runs' = runs + 1 /\ runs \in Nat
    BY <1>1 DEF Boot, TypeOK
  <2>. QED
    BY <2>4, <2>5
<1>2. CASE WorkerStep
  <2>. SUFFICES ASSUME NEW p \in Problems, NEW s \in live[p], s.run = runs
                PROVE  task'[p][s.idx].st = "saved"
    BY <1>2, WorkerMoves DEF Fresh, Alive
  <2>1. s.idx \in 1..N
    BY DEF TypeOK, Records, Sample
  <2>2. task[p][s.idx].st = "saved"
    BY <1>2, WorkerMoves DEF Fresh, Alive
  <2>. QED
    BY <1>2, <2>1, <2>2, WorkerMoves
<1>3. ASSUME NEW p \in Problems, NEW i \in 1..N, Collect(p, i)
      PROVE  Fresh'
  <2>1. stage = "generate" /\ runs' = runs
    BY <1>3 DEF Collect
  <2>. SUFFICES ASSUME NEW q \in Problems, NEW s \in live'[q], s.run = runs
                PROVE  task'[q][s.idx].st = "saved"
    BY <2>1 DEF Fresh, Alive
  <2>. DEFINE new == [run |-> runs, idx |-> i, code |-> task[p][i].code]
  <2>2. CASE s \in live[q]
    <3>1. task[q][s.idx].st = "saved" /\ s.idx \in 1..N
      BY <2>1, <2>2 DEF Fresh, Alive, TypeOK, Records, Sample
    <3>. QED
      BY <1>3, <3>1, CollectMoves
  <2>3. CASE s \notin live[q]
    <3>1. q = p /\ s = new
      <4>1. live \in [Problems -> SUBSET Sample]
        BY DEF TypeOK, Records
      <4>2. live' = [live EXCEPT ![p] = live[p] \cup {new}]
        BY <1>3 DEF Collect
      <4>. HIDE DEF new
      <4>. QED
        BY <2>3, <4>1, <4>2
    <3>2. s.idx = i
      BY <3>1
    <3>. QED
      BY <1>3, <3>1, <3>2, CollectMoves
  <2>. QED
    BY <2>2, <2>3
<1>4. CASE OpenTmp
  BY <1>4 DEF OpenTmp, Fresh, Alive
<1>5. CASE FillTmp
  BY <1>5 DEF FillTmp, Fresh, Alive
<1>6. CASE Replace
  <2>1. Alive
    BY <1>6 DEF Replace, Settled
  <2>. QED
    BY <1>6, <2>1 DEF Replace, Fresh
<1>7. CASE FlushFails
  BY <1>7 DEF FlushFails, Fresh, Alive
<1>8. CASE Finish
  BY <1>8 DEF Finish, Fresh, Alive
<1>9. CASE Exit
  BY <1>9 DEF Exit, Fresh, Alive
<1>10. CASE Crash
  BY <1>10 DEF Crash, Fresh, Alive
<1>11. CASE RemoveOutput
  BY <1>11 DEF RemoveOutput, Fresh, Alive
<1>12. CASE UNCHANGED vars
  BY <1>12 DEF vars, Fresh, Alive
<1>. QED
  BY <1>1, <1>2, <1>3, <1>4, <1>5, <1>6, <1>7, <1>8, <1>9, <1>10, <1>11, <1>12
     DEF Next, MainStep


\* What a problem's record and its part of the pool add up to: the sum n is
\* kept by every step, because collecting adds one and takes one away.
LEMMA AccountedStep ==
  ASSUME TypeOK, FilesSound, Fresh, Accounted, Settled, [Next]_vars
  PROVE  Accounted'
<1>. DEFINE Total(p) == Cardinality(live[p]) + Cardinality(Outstanding(p))
            Sum(p) == Total(p) >= N /\ (Clean(live[p]) => Total(p) = N)
<1>0. \A p \in Problems :
        IsFiniteSet(live[p]) /\ IsFiniteSet(Outstanding(p))
  <2>1. \A p \in Problems : IsFiniteSet(live[p])
    BY DEF TypeOK, FilesSound, Sound, SoundRecord
  <2>2. IsFiniteSet(1..N)
    BY NAssumption, FS_Interval
  <2>. QED
    BY <2>1, <2>2, FS_Subset DEF Outstanding
<1>1. CASE Boot
  <2>. SUFFICES ASSUME NEW p \in Problems
                PROVE  Sum(p)'
    BY DEF Accounted
  <2>1. Existing \in Records /\ IsFiniteSet(Existing[p])
    BY ExistingFacts, ExistingSound DEF Sound, SoundRecord
  <2>2. live'[p] = Resumed(Existing[p])
    BY <1>1 DEF Boot
  <2>3. Outstanding(p)' = {i \in 1..N : i <= Missing(Existing[p])}
    BY <1>1 DEF Boot, Outstanding, NewTask, NoTask
  <2>4. Cardinality(Outstanding(p)') = Missing(Existing[p])
    BY <2>1, <2>3, ResumeCounts, QueueCount
  <2>. QED
    BY <2>1, <2>2, <2>4, ResumeCounts
<1>2. CASE WorkerStep
  <2>1. \A p \in Problems : Outstanding(p)' = Outstanding(p)
    BY <1>2, WorkerMoves DEF Outstanding, Open
  <2>. QED
    BY <1>2, <2>1, WorkerMoves DEF Accounted, Alive, Clean
<1>3. ASSUME NEW p \in Problems, NEW i \in 1..N, Collect(p, i)
      PROVE  Accounted'
  <2>. SUFFICES ASSUME NEW q \in Problems
                PROVE  Sum(q)'
    BY DEF Accounted
  <2>. DEFINE s == [run |-> runs, idx |-> i, code |-> task[p][i].code]
  <2>1. Sum(q) /\ live \in [Problems -> SUBSET Sample]
    BY <1>3 DEF Accounted, Alive, Collect, TypeOK, Records
  <2>2. CASE q # p
    <3>1. live'[q] = live[q]
      BY <1>3, <2>1, <2>2 DEF Collect
    <3>2. Outstanding(q)' = Outstanding(q)
      <4>1. \A j \in 1..N : task'[q][j] = task[q][j]
        BY <1>3, <2>2, CollectMoves
      <4>. QED
        BY <4>1 DEF Outstanding
    <3>. QED
      BY <2>1, <3>1, <3>2 DEF Clean
  <2>3. CASE q = p
    <3>1. live'[p] = live[p] \cup {s} /\ s \notin live[p]
      BY <1>3, <2>1, CollectMoves
    <3>2. Outstanding(p)' = Outstanding(p) \ {i} /\ i \in Outstanding(p)
      <4>1. \A j \in 1..N : j # i => task'[p][j] = task[p][j]
        <5>1. \A r \in Problems, j \in 1..N :
                r # p \/ j # i => task'[r][j] = task[r][j]
          BY <1>3, CollectMoves
        <5>. QED
          BY <5>1
      <4>2. task[p][i].st \in {"queued", "running", "returned"}
            /\ task'[p][i].st = "saved"
        BY <1>3, CollectMoves DEF Open
      <4>. QED
        BY <4>1, <4>2 DEF Outstanding
    <3>3. Cardinality(live'[p]) = Cardinality(live[p]) + 1
      BY <1>0, <3>1, FS_AddElement
    <3>4. Cardinality(Outstanding(p)') = Cardinality(Outstanding(p)) - 1
      BY <1>0, <3>2, FS_RemoveElement
    <3>5. Cardinality(live[p]) \in Nat /\ Cardinality(Outstanding(p)) \in Nat
      BY <1>0, FS_CardinalityType
    <3>6. Total(p)' = Total(p)
      BY <3>3, <3>4, <3>5
    <3>7. Clean(live'[p]) => Clean(live[p])
      BY <3>1 DEF Clean
    <3>. QED
      BY <2>1, <2>3, <3>6, <3>7
  <2>. QED
    BY <2>2, <2>3
<1>4. CASE OpenTmp
  BY <1>4 DEF OpenTmp, Accounted, Alive, Outstanding, Clean
<1>5. CASE FillTmp
  BY <1>5 DEF FillTmp, Accounted, Alive, Outstanding, Clean
<1>6. CASE Replace
  <2>1. Alive
    BY <1>6 DEF Replace, Settled
  <2>. QED
    BY <1>6, <2>1 DEF Replace, Accounted, Outstanding, Clean
<1>7. CASE FlushFails
  BY <1>7 DEF FlushFails, Accounted, Alive, Outstanding, Clean
<1>8. CASE Finish
  BY <1>8 DEF Finish, Accounted, Alive, Outstanding, Clean
<1>9. CASE Exit
  BY <1>9 DEF Exit, Accounted, Alive
<1>10. CASE Crash
  BY <1>10 DEF Crash, Accounted, Alive
<1>11. CASE RemoveOutput
  BY <1>11 DEF RemoveOutput, Accounted, Alive
<1>12. CASE UNCHANGED vars
  BY <1>12 DEF vars, Accounted, Alive, Outstanding, Clean
<1>. QED
  BY <1>1, <1>2, <1>3, <1>4, <1>5, <1>6, <1>7, <1>8, <1>9, <1>10, <1>11, <1>12
     DEF Next, MainStep

\* A part of N is no more than N.
LEMMA PartOfSum ==
  ASSUME NEW r, NEW o \in SUBSET (1..N),
         IsFiniteSet(r), Cardinality(r) + Cardinality(o) = N
  PROVE  Cardinality(r) <= N
<1>1. IsFiniteSet(o)
  <2>1. IsFiniteSet(1..N)
    BY NAssumption, FS_Interval
  <2>. QED
    BY <2>1, FS_Subset
<1>2. Cardinality(r) \in Nat /\ Cardinality(o) \in Nat
  BY <1>1, FS_CardinalityType
<1>. QED
  BY <1>2, NAssumption

\* Every file is a copy of the memory, or of what was a file before.
LEMMA FilesStep ==
  ASSUME TypeOK, FilesSound, Fresh, Accounted, Settled, Accounted', [Next]_vars
  PROVE  FilesSound'
<1>. USE DEF FilesSound
<1>0. NoFile \notin Records /\ Torn \notin Records
  BY FileAssumption
\* No clean record in memory is overfull: it is a part of a sum that is n.
<1>. DEFINE Bounded(r) == Clean(r) => Cardinality(r) <= N
<1>b. ASSUME Alive', NEW p \in Problems, IsFiniteSet(live'[p])
      PROVE  Bounded(live'[p])
  <2>1. Clean(live'[p]) =>
          Cardinality(live'[p]) + Cardinality(Outstanding(p)') = N
    BY <1>b DEF Accounted
  <2>2. Outstanding(p)' \in SUBSET (1..N)
    BY DEF Outstanding
  <2>. QED
    BY <1>b, <2>1, <2>2, PartOfSum
<1>1. CASE Boot
  <2>1. runs \in Nat /\ runs' = runs + 1
    BY <1>1 DEF Boot, TypeOK
  <2>2. Sound(disk, runs') /\ Sound(tmp, runs') /\ Sound(archive, runs')
    BY <2>1, SoundLater
  <2>3. ASSUME NEW p \in Problems
        PROVE  SoundRecord(live'[p], runs')
    <3>1. Existing \in Records /\ SoundRecord(Existing[p], runs)
      BY ExistingFacts, ExistingSound DEF Sound
    <3>2. live'[p] = Resumed(Existing[p])
      BY <1>1 DEF Boot
    <3>3. live'[p] \subseteq Existing[p] /\ IsFiniteSet(live'[p])
      BY <3>1, <3>2, ResumeCounts DEF SoundRecord
    <3>4. \A s \in live'[p] : s.run <= runs'
      BY <2>1, <3>1, <3>3 DEF SoundRecord, Records, Sample
    <3>5. Clean(live'[p]) => Cardinality(live'[p]) <= N
      <4>1. Alive'
        BY <1>1 DEF Boot, Alive
      <4>. QED
        BY <1>b, <3>3, <4>1
    <3>. QED
      BY <3>3, <3>4, <3>5 DEF SoundRecord
  <2>. QED
    BY <1>1, <2>2, <2>3 DEF Boot, Sound
<1>2. CASE WorkerStep
  BY <1>2, WorkerMoves
<1>3. ASSUME NEW p \in Problems, NEW i \in 1..N, Collect(p, i)
      PROVE  FilesSound'
  <2>. DEFINE s == [run |-> runs, idx |-> i, code |-> task[p][i].code]
  <2>1. live \in [Problems -> SUBSET Sample]
        /\ live' = [live EXCEPT ![p] = live[p] \cup {s}]
    BY <1>3 DEF Collect, TypeOK, Records
  <2>2. runs \in Nat /\ runs' = runs /\ s.run = runs
    BY <1>3 DEF Collect, TypeOK
  <2>3. \A q \in Problems : SoundRecord(live[q], runs)
    BY DEF Sound, TypeOK
  <2>. HIDE DEF s
  <2>4. ASSUME NEW q \in Problems
        PROVE  SoundRecord(live'[q], runs)
    <3>1. CASE q # p
      BY <2>1, <2>3, <3>1
    <3>2. CASE q = p
      <4>1. live'[q] = live[q] \cup {s}
        BY <2>1, <3>2
      <4>2. IsFiniteSet(live'[q])
        BY <2>3, <4>1, FS_AddElement DEF SoundRecord
      <4>3. \A t \in live'[q] : t.run <= runs
        BY <2>2, <2>3, <4>1 DEF SoundRecord
      <4>4. Clean(live'[q]) => Cardinality(live'[q]) <= N
        <5>1. Alive'
          BY <1>3 DEF Collect, Alive
        <5>. QED
          BY <1>b, <4>2, <5>1
      <4>. QED
        BY <4>2, <4>3, <4>4 DEF SoundRecord
    <3>. QED
      BY <3>1, <3>2
  <2>. QED
    BY <1>3, <2>2, <2>4 DEF Collect, Sound
<1>4. CASE OpenTmp
  BY <1>0, <1>4 DEF OpenTmp, Sound
<1>5. CASE FillTmp
  BY <1>5 DEF FillTmp
<1>6. CASE Replace
  BY <1>0, <1>6 DEF Replace, Sound
<1>7. CASE FlushFails
  BY <1>7 DEF FlushFails
<1>8. CASE Finish
  BY <1>8 DEF Finish
<1>9. CASE Exit
  BY <1>9, NoRecordsSound DEF Exit, LoseMemory
<1>10. CASE Crash
  BY <1>10, NoRecordsSound DEF Crash, LoseMemory
<1>11. CASE RemoveOutput
  BY <1>0, <1>11 DEF RemoveOutput, Sound
<1>12. CASE UNCHANGED vars
  BY <1>12 DEF vars
<1>. QED
  BY <1>1, <1>2, <1>3, <1>4, <1>5, <1>6, <1>7, <1>8, <1>9, <1>10, <1>11, <1>12
     DEF Next, MainStep

\* Of a clean record nothing is lost between the file and the memory: a run
\* starts with all of it, and from then on its record only grows.
LEMMA AheadStep ==
  ASSUME TypeOK, TypeOK', FilesSound, Fresh, Settled, Ahead, [Next]_vars
  PROVE  Ahead'
<1>. DEFINE Keeps(old, r) == Clean(old) => Kept(old) \subseteq r
<1>1. CASE Boot
  <2>. SUFFICES ASSUME NEW p \in Problems
                PROVE  Keeps(Existing'[p], live'[p])
    BY DEF Ahead
  <2>1. Existing' = Existing /\ live'[p] = Resumed(Existing[p])
    BY <1>1 DEF Boot, Existing
  <2>2. SoundRecord(Existing[p], runs)
    BY ExistingFacts, ExistingSound DEF Sound
  <2>. QED
    BY <2>1, <2>2, ResumeKeeps DEF SoundRecord
<1>2. CASE WorkerStep
  <2>1. Existing' = Existing /\ live' = live /\ Alive
    BY <1>2, WorkerMoves DEF Existing, Alive
  <2>. QED
    BY <2>1 DEF Ahead
<1>3. ASSUME NEW p \in Problems, NEW i \in 1..N, Collect(p, i)
      PROVE  Ahead'
  <2>1. Existing' = Existing /\ Alive
    BY <1>3 DEF Collect, Existing, Alive
  <2>2. \A q \in Problems : live[q] \subseteq live'[q]
    BY <1>3 DEF Collect, TypeOK, Records
  <2>. QED
    BY <2>1, <2>2 DEF Ahead
<1>4. CASE OpenTmp
  BY <1>4 DEF OpenTmp, Ahead, Alive, Existing
<1>5. CASE FillTmp
  BY <1>5 DEF FillTmp, Ahead, Alive, Existing
<1>6. CASE Replace
  <2>1. Existing' = live /\ live' = live
    <3>1. disk' = live /\ live \in Records
      BY <1>6 DEF Replace, Settled, TypeOK
    <3>2. disk' # NoFile
      BY <3>1, FileAssumption
    <3>. QED
      BY <1>6, <3>1, <3>2 DEF Existing, Replace
  <2>. QED
    BY <2>1 DEF Ahead, Kept
<1>7. CASE FlushFails
  BY <1>7 DEF FlushFails, Ahead, Alive, Existing
<1>8. CASE Finish
  BY <1>8 DEF Finish, Ahead, Alive, Existing
<1>9. CASE Exit
  BY <1>9 DEF Exit, Ahead, Alive
<1>10. CASE Crash
  BY <1>10 DEF Crash, Ahead, Alive
<1>11. CASE RemoveOutput
  BY <1>11 DEF RemoveOutput, Ahead, Alive
<1>12. CASE UNCHANGED vars
  BY <1>12 DEF vars, Ahead, Alive, Existing
<1>. QED
  BY <1>1, <1>2, <1>3, <1>4, <1>5, <1>6, <1>7, <1>8, <1>9, <1>10, <1>11, <1>12
     DEF Next, MainStep

-----------------------------------------------------------------------------
\* The first start of the campaign has the invariant.
LEMMA InitInv == Init => IndInv
<1>. SUFFICES ASSUME Init PROVE IndInv
  OBVIOUS
<1>1. TypeOK
  BY FileAssumption, BoundsAssumption
     DEF Init, TypeOK, File, NoRecords, Records, NoTasks, NoTask, NewTask,
         Task, TaskState, Code
<1>2. FilesSound
  BY FileAssumption, NoRecordsSound DEF Init, FilesSound, Sound
<1>3. Accounted /\ Fresh /\ Settled /\ Ahead
  BY DEF Init, Accounted, Fresh, Settled, Ahead, Alive
<1>. QED
  BY <1>1, <1>2, <1>3 DEF IndInv

\* Every step keeps it.
LEMMA StepInv == IndInv /\ [Next]_vars => IndInv'
<1>. SUFFICES ASSUME IndInv, [Next]_vars PROVE IndInv'
  OBVIOUS
<1>. USE DEF IndInv
<1>1. TypeOK'
  BY TypeStep
<1>2. Settled' /\ Fresh' /\ Accounted'
  BY SettledStep, FreshStep, AccountedStep
<1>3. FilesSound'
  BY <1>2, FilesStep
<1>4. Ahead'
  BY <1>1, AheadStep
<1>. QED
  BY <1>1, <1>2, <1>3, <1>4

\* The invariant holds in every state of every execution.
LEMMA Invariance == Spec => []IndInv
BY InitInv, StepInv, PTL DEF Spec

(* The variables keep their types, and no file a run resumes from is ever  *)
(* torn: write-then-rename works at every crash point.                     *)
THEOREM TypeCorrect == Spec => []TypeOK
BY Invariance, PTL DEF IndInv

(* While a run is up, a problem's record and its calls still in the pool   *)
(* add up to exactly n, or to more where a white-space program was kept.   *)
THEOREM RunsAddUp == Spec => []Accounted
BY Invariance, PTL DEF IndInv

(* Evaluation begins over whole records, and over what is on the disk.     *)
THEOREM EvaluationIsWhole == Spec => []EvaluatesWhole
<1>1. IndInv => EvaluatesWhole
  <2>. SUFFICES ASSUME IndInv, stage = "evaluate"
                PROVE  EvaluatesWhole
    BY DEF EvaluatesWhole
  <2>1. disk = live /\ Drained /\ Alive
    BY DEF IndInv, Settled, Alive
  <2>. SUFFICES ASSUME NEW p \in Problems
                PROVE  /\ Cardinality(live[p]) >= N
                       /\ Clean(live[p]) => Cardinality(live[p]) = N
    BY <2>1 DEF EvaluatesWhole
  <2>2. Outstanding(p) = {}
    BY <2>1 DEF Outstanding, Drained
  <2>3. IsFiniteSet(live[p])
    BY DEF IndInv, FilesSound, Sound, SoundRecord, TypeOK
  <2>4. Cardinality(live[p]) \in Nat /\ Cardinality(Outstanding(p)) = 0
    BY <2>2, <2>3, FS_CardinalityType, FS_EmptySet
  <2>. QED
    BY <2>1, <2>4, NAssumption DEF IndInv, Accounted
<1>. QED
  BY <1>1, Invariance, PTL

(* Only the operator removes a useful sample of a clean record: no crash,  *)
(* failed write, resume or retry does.                                     *)
THEOREM SamplesAreDurable == Spec => DurableSamples
<1>. DEFINE Step ==
       OperatorRemoves \/
       \A p \in Problems : Clean(Existing[p]) =>
         Existing' # Torn /\ Kept(Existing[p]) \subseteq Kept(Existing'[p])
<1>1. IndInv /\ IndInv' /\ [Next]_vars => [Step]_vars
  <2>. SUFFICES ASSUME IndInv, IndInv', [Next]_vars
                PROVE  Step
    OBVIOUS
  <2>0. Existing' # Torn
    <3>1. Existing' \in Records
      BY DEF IndInv, TypeOK, Existing, File, NoRecords, Records
    <3>. QED
      BY <3>1, FileAssumption
  <2>1. CASE Replace
    <3>1. disk' = live /\ live \in Records /\ Alive
      BY <2>1 DEF Replace, IndInv, Settled, TypeOK
    <3>2. Existing' = live
      BY <3>1, FileAssumption DEF Existing
    <3>3. \A p \in Problems :
            Clean(Existing[p]) => Kept(Existing[p]) \subseteq live[p]
      BY <3>1 DEF IndInv, Ahead
    <3>. QED
      BY <2>0, <3>2, <3>3 DEF Kept
  <2>2. CASE Exit
    <3>1. disk' = disk /\ disk = live /\ live \in Records
      BY <2>2 DEF Exit, IndInv, Settled, TypeOK
    <3>2. Existing' = Existing
      BY <3>1, FileAssumption DEF Existing
    <3>. QED
      BY <2>0, <3>2
  <2>3. CASE RemoveOutput
    BY <2>3 DEF RemoveOutput, OperatorRemoves
  <2>4. CASE UNCHANGED <<disk, archive>>
    <3>1. Existing' = Existing
      BY <2>4 DEF Existing
    <3>. QED
      BY <2>0, <3>1
  <2>5. WorkerStep => UNCHANGED <<disk, archive>>
    BY WorkerMoves DEF IndInv
  <2>. QED
    BY <2>1, <2>2, <2>3, <2>4, <2>5
       DEF Next, MainStep, Boot, Collect, OpenTmp, FillTmp, FlushFails,
           Finish, Crash, vars
<1>. QED
  BY <1>1, Invariance, PTL DEF Spec, DurableSamples

-----------------------------------------------------------------------------
(* The abstract log.  NoBlank says that no answer is white space only;     *)
(* every record is then clean.                                             *)

NoBlank == Blanks = {}

\* Where no answer is white space every record is clean.
LEMMA AllClean ==
  ASSUME NoBlank, NEW r
  PROVE  Clean(r)
BY DEF NoBlank, Clean

\* The log is what a run would resume from, and its records are never overfull.
LEMMA LogFacts ==
  ASSUME NoBlank, IndInv, NEW f \in Records, Sound(f, runs), NEW p \in Problems
  PROVE  Cardinality(Kept(f[p])) <= N
<1>1. IsFiniteSet(f[p]) /\ Cardinality(f[p]) <= N
  BY AllClean DEF Sound, SoundRecord
<1>. QED
  BY <1>1, KeptFacts, NAssumption

\* SampleLog's copy of the library's operator is the same operator.
LEMMA SameCardinality == \A S : Log!Cardinality(S) = Cardinality(S)
BY DEF Log!Cardinality, Cardinality

\* The initial states are those of the log.
LEMMA LogInit == Init => Log!Init
<1>. SUFFICES ASSUME Init PROVE Log!Init
  OBVIOUS
<1>1. Existing = NoRecords /\ archive = NoFile
  BY DEF Init, Existing
<1>2. \A p \in Problems : Kept(NoRecords[p]) = {}
  BY DEF Kept, NoRecords
<1>. QED
  BY <1>1, <1>2 DEF Log!Init, NoRecords

\* A snapshot that replaces the output file records the samples of the run,
\* an evaluation that is saved is a checkpoint, the operator's deletion goes
\* back to it, and nothing else touches what a run resumes from.
LEMMA LogStep ==
  ASSUME NoBlank, IndInv, [Next]_vars
  PROVE  [Log!Next]_(Log!vars)
<1>1. CASE Replace
  <2>1. disk' = live /\ live \in Records /\ Alive /\ archive' = archive
    BY <1>1 DEF Replace, IndInv, Settled, TypeOK
  <2>2. Existing' = live
    BY <2>1, FileAssumption DEF Existing
  <2>3. \A p \in Problems : Kept(Existing[p]) \subseteq Kept(live[p])
    <3>1. \A p \in Problems : Kept(Existing[p]) \subseteq live[p]
      BY <2>1, AllClean DEF IndInv, Ahead
    <3>. QED
      BY <3>1 DEF Kept
  <2>4. \A p \in Problems : Cardinality(Kept(live[p])) <= N
    BY <2>1, LogFacts DEF IndInv, FilesSound
  <2>5. Log!Record
    BY <2>1, <2>2, <2>3, <2>4, SameCardinality DEF Log!Record, Log!Grows
  <2>. QED
    BY <2>5 DEF Log!Next
<1>2. CASE Exit /\ archive' # archive
  <2>1. archive = NoFile /\ archive' = live /\ disk' = disk /\ disk = live
        /\ live \in Records
    BY <1>2 DEF Exit, IndInv, Settled, TypeOK
  <2>2. disk # NoFile /\ live # NoFile
    BY <2>1, FileAssumption
  <2>3. Existing = live /\ Existing' = live /\ archive' # NoFile
    BY <2>1, <2>2 DEF Existing
  <2>4. Log!Checkpoint
    BY <2>1, <2>3 DEF Log!Checkpoint, NoRecords
  <2>. QED
    BY <2>4 DEF Log!Next
<1>3. CASE RemoveOutput
  <2>1. disk' = NoFile /\ archive' = archive
    BY <1>3 DEF RemoveOutput
  <2>2. Existing' = IF archive = NoFile THEN NoRecords ELSE archive
    BY <2>1 DEF Existing
  <2>3. \A p \in Problems : Kept(NoRecords[p]) = {}
    BY DEF Kept, NoRecords
  <2>4. Log!Discard
    BY <2>1, <2>2, <2>3 DEF Log!Discard, NoRecords
  <2>. QED
    BY <2>4 DEF Log!Next
<1>4. CASE UNCHANGED <<disk, archive>>
  BY <1>4 DEF Log!vars, Existing
<1>5. WorkerStep => UNCHANGED <<disk, archive>>
  BY WorkerMoves DEF IndInv
<1>. QED
  BY <1>1, <1>2, <1>3, <1>4, <1>5
     DEF Next, MainStep, Boot, Collect, OpenTmp, FillTmp, FlushFails,
         Finish, Exit, Crash, vars

(* Where no answer is white space only the campaign implements the log:    *)
(* through crashes, failed writes, resumes and deletions of the output     *)
(* file, what a run resumes from only grows up to n samples per problem,   *)
(* and falls back to the evaluated copy and no further.                    *)
THEOREM CampaignIsLog ==
  ASSUME NoBlank
  PROVE  Spec => ImplementsLog
<1>1. Init => Log!Init
  BY LogInit
<1>2. IndInv /\ [Next]_vars => [Log!Next]_(Log!vars)
  BY LogStep
<1>. QED
  BY <1>1, <1>2, Invariance, PTL DEF Spec, ImplementsLog, Log!Spec
=============================================================================
