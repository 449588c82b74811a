--------------------------- MODULE TrainingProofs ---------------------------
(***************************************************************************)
(* Proofs about the trainers of MCTraining, each with any number of ranks, *)
(* epochs, batches and starts, killed and started again at any point.      *)
(*                                                                         *)
(* OneStepOff: a batch is trained on by weights at most one update ahead of*)
(* those that answered it, and in its turn.  Both rest on Queues, what the *)
(* two groups of workers may still have to do when the driver is at some   *)
(* place.                                                                  *)
(*                                                                         *)
(* SftTrainer and PpoTrainer: the tracker names a whole checkpoint, no     *)
(* later than the job.  It rests on what is written already at each place  *)
(* of a save, and on the checkpoints a process keeps: they climb to the    *)
(* tracked one, so rotation removes older ones only.  Two configurations   *)
(* are left out, because the code goes wrong in them: with one checkpoint  *)
(* kept (MaxKeep = 1) rotation removes the tracked one before the next is  *)
(* written, and an SFT job that is resumed from the end of an epoch skips  *)
(* the next one (SavesInEpochs).                                           *)
(*                                                                         *)
(* SpinTrainer: the model is trained on batches below the one drawn last,  *)
(* and on that one only once its update is over.                           *)
(***************************************************************************)
EXTENDS MCTraining, SequenceTheorems, TLAPS

(***************************************************************************)
(* OneStepOff: what is trained on, and by what.                            *)
(***************************************************************************)
Batches == 0..EpochLen
Weights == Seq(Batches)
Answers == [at : Batches, by : Weights]

Typed ==
  /\ ckpt \in [steps : Nat, pos : Batches, weights : Weights, resumed : SUBSET Nat]
  /\ pc \in {"off", "load", "validated", "draw", "launch", "get", "train", "save", "done"}
  /\ steps \in Nat /\ epoch \in Nat /\ pos \in Batches /\ future \in Batches
  /\ batch \in Answers /\ result \in Answers
  /\ actor \in Weights /\ rollout \in Weights /\ resumed \subseteq Nat

Both == [actor |-> <<"sync">>, rollout |-> <<"sync">>]
OfRollout(q) == [actor |-> <<>>, rollout |-> q]

\* What the groups have not done yet, by the place of the driver.
Queues ==
  /\ pc \in {"load", "launch"} => calls \in {Both, Idle}
  /\ pc = "validated" => calls \in {Idle, OfRollout(<<"validate">>)}
  /\ pc \in {"draw", "off"} => calls = Idle
  /\ pc \in {"train", "get"} => calls \in {Idle, OfRollout(<<"generate">>)}
  /\ pc \in {"save", "done"} =>
       calls \in {Idle, OfRollout(<<"generate">>), OfRollout(<<"validate">>),
                  OfRollout(<<"generate", "validate">>)}

Behind(w) == IsPrefix(w, actor) /\ Len(actor) - Len(w) <= 1

\* What the generation comes to that was launched last.
Pending == "generate" \in Range(calls.rollout)
Coming == IF Pending THEN [at |-> future, by |-> rollout] ELSE result

\* The driver will take it.
GoesOn == future # None /\ ~IsLastStep

\* How old the weights are, from the collective to the training.
Ages ==
  /\ pc \in {"load", "validated"} => batch = Nothing
  /\ pc = "launch" /\ calls = Idle => rollout = actor
  /\ pc \in {"draw", "launch"} /\ batch # Nothing => Behind(batch.by)
  /\ pc = "train" => Behind(batch.by) /\ (GoesOn => Coming.by = actor)
  /\ pc = "save" /\ GoesOn => Behind(Coming.by)
  /\ pc = "get" => Behind(Coming.by)

Newest(w) == IF w = <<>> THEN 0 ELSE w[Len(w)]

\* FollowsOn, of any weights.
Follows(w, r) ==
  \A i \in DOMAIN w :
    LET before == IF i = 1 THEN 0 ELSE w[i - 1]
    IN  \/ w[i] = NextOf(before)
        \/ i - 1 \in r /\ w[i] = NextOf(NextOf(before))

\* The turn of batch b has come.
Due(b) ==
  \/ b = NextOf(Newest(actor))
  \/ Len(actor) \in resumed /\ b = NextOf(NextOf(Newest(actor)))

\* The iterator stands at batch b, or one further on.
Near(p, b) == NextOf(p) \in {NextOf(b), NextOf(NextOf(b))}

Ahead(b) ==
  /\ Near(pos, b)
  /\ GoesOn => pos = NextOf(b) /\ future = pos /\ Coming.at = pos

\* Which batch it is, from the iterator to the training, and on disk.
Turns ==
  /\ Follows(actor, resumed) /\ Follows(ckpt.weights, ckpt.resumed)
  /\ Near(ckpt.pos, Newest(ckpt.weights))
  /\ ckpt.steps = 0 => ckpt.weights = <<>> /\ ckpt.pos = 0
  /\ pc \in {"draw", "launch", "get", "train", "save"} => steps > 0
  /\ pc \in {"validated", "draw"} /\ batch = Nothing => Due(NextOf(pos))
  /\ pc \in {"draw", "launch"} /\ batch # Nothing => Due(batch.at)
  /\ pc = "draw" /\ batch # Nothing => NextOf(pos) = NextOf(batch.at)
  /\ pc = "launch" => /\ future = pos /\ future # None
                      /\ IF batch = Nothing THEN Due(pos) ELSE pos = NextOf(batch.at)
  /\ pc = "get" => future = pos /\ future # None /\ Due(pos) /\ Coming.at = pos
  /\ pc = "train" => Due(batch.at) /\ Ahead(batch.at)
  /\ pc = "save" => Ahead(Newest(actor))

IndInv == Typed /\ Queues /\ Ages /\ Turns

-----------------------------------------------------------------------------
(* The queues of the groups.                                               *)

\* The requests in the queues that occur.
LEMMA Ranges ==
  /\ Range(<<>>) = {} /\ Range(<<"sync">>) = {"sync"}
  /\ Range(<<"generate">>) = {"generate"} /\ Range(<<"validate">>) = {"validate"}
  /\ Range(<<"generate", "validate">>) = {"generate", "validate"}
BY DEF Range

\* Every queue that occurs, and what is in it.
LEMMA QueueFacts ==
  /\ Idle.actor = <<>> /\ Idle.rollout = <<>>
  /\ Both.actor = <<"sync">> /\ Both.rollout = <<"sync">>
  /\ \A q : OfRollout(q).actor = <<>> /\ OfRollout(q).rollout = q
  /\ OfRollout(<<>>) = Idle
BY DEF Idle, Both, OfRollout

\* Queues are built one request at a time.
LEMMA PairOf ==
  ASSUME NEW a, NEW b
  PROVE  Append(<<>>, a) = <<a>> /\ Append(<<a>>, b) = <<a, b>>
<1>. DEFINE S == {a, b}
            s == Append(<<a>>, b)
            t == <<a, b>>
<1>1. <<a>> \in Seq(S) /\ Len(<<a>>) = 1 /\ <<a>>[1] = a
  OBVIOUS
<1>2. s \in Seq(S) /\ Len(s) = 2 /\ s[1] = a /\ s[2] = b
  BY <1>1
<1>3. t \in Seq(S) /\ Len(t) = 2 /\ t[1] = a /\ t[2] = b
  OBVIOUS
<1>4. \A i \in 1..2 : s[i] = t[i]
  BY <1>2, <1>3
<1>. HIDE DEF s, t
<1>5. s = t
  BY <1>2, <1>3, <1>4, SeqEqual
<1>6. Append(<<>>, a) = <<a>>
  OBVIOUS
<1>. QED
  BY <1>5, <1>6 DEF s, t

\* What a request makes of a queue.
LEMMA AskFacts ==
  /\ calls = Idle =>
       /\ Ask("rollout", "generate") = OfRollout(<<"generate">>)
       /\ Ask("rollout", "validate") = OfRollout(<<"validate">>)
       /\ AskBoth = Both
  /\ calls = OfRollout(<<"generate">>) =>
       Ask("rollout", "validate") = OfRollout(<<"generate", "validate">>)
<1>1. /\ Append(<<>>, "generate") = <<"generate">> /\ Append(<<>>, "validate") = <<"validate">>
      /\ Append(<<>>, "sync") = <<"sync">>
      /\ Append(<<"generate">>, "validate") = <<"generate", "validate">>
  BY PairOf
<1>2. ASSUME NEW q, NEW c
      PROVE  [OfRollout(q) EXCEPT !["rollout"] = Append(q, c)] = OfRollout(Append(q, c))
  BY DEF OfRollout
<1>3. \A q, c : calls = OfRollout(q) => Ask("rollout", c) = OfRollout(Append(q, c))
  BY <1>2, QueueFacts DEF Ask
<1>4. calls = Idle => AskBoth = Both
  BY <1>1, QueueFacts DEF AskBoth, Both
<1>. QED
  BY <1>1, <1>3, <1>4, QueueFacts

\* A group does the first call of its queue.
LEMMA DoneFacts ==
  ASSUME calls \in {Idle, Both, OfRollout(<<"generate">>), OfRollout(<<"validate">>),
                    OfRollout(<<"generate", "validate">>)}
  PROVE  /\ calls.rollout # <<>> /\ Head(calls.rollout) = "sync" => calls = Both
         /\ calls.rollout # <<>> /\ Head(calls.rollout) = "generate" =>
              \/ /\ calls = OfRollout(<<"generate">>)
                 /\ [calls EXCEPT !.rollout = Tail(@)] = Idle
              \/ /\ calls = OfRollout(<<"generate", "validate">>)
                 /\ [calls EXCEPT !.rollout = Tail(@)] = OfRollout(<<"validate">>)
         /\ calls.rollout # <<>> /\ Head(calls.rollout) = "validate" =>
              /\ calls = OfRollout(<<"validate">>)
              /\ [calls EXCEPT !.rollout = Tail(@)] = Idle
<1>1. /\ Head(<<"sync">>) = "sync" /\ Head(<<"generate">>) = "generate"
      /\ Head(<<"validate">>) = "validate" /\ Head(<<"generate", "validate">>) = "generate"
      /\ Tail(<<"generate">>) = <<>> /\ Tail(<<"validate">>) = <<>>
      /\ Tail(<<"generate", "validate">>) = <<"validate">>
  OBVIOUS
<1>2. \A q, r : [OfRollout(q) EXCEPT !.rollout = r] = OfRollout(r)
  BY DEF OfRollout
<1>3. \A q : calls = OfRollout(q) => [calls EXCEPT !.rollout = Tail(@)] = OfRollout(Tail(q))
  BY <1>2, QueueFacts
<1>. DEFINE both == <<"generate", "validate">>
<1>4. CASE calls = Idle
  BY <1>4, QueueFacts
<1>5. CASE calls = Both
  BY <1>1, <1>5, QueueFacts
<1>6. CASE calls = OfRollout(<<"generate">>)
  <2>1. calls.rollout = <<"generate">> /\ Head(calls.rollout) = "generate"
    BY <1>1, <1>6, QueueFacts
  <2>2. [calls EXCEPT !.rollout = Tail(@)] = OfRollout(Tail(<<"generate">>))
    BY <1>3, <1>6
  <2>3. OfRollout(Tail(<<"generate">>)) = Idle
    BY <1>1, QueueFacts
  <2>. QED
    BY <1>6, <2>1, <2>2, <2>3
<1>7. CASE calls = OfRollout(<<"validate">>)
  <2>1. calls.rollout = <<"validate">> /\ Head(calls.rollout) = "validate"
    BY <1>1, <1>7, QueueFacts
  <2>2. [calls EXCEPT !.rollout = Tail(@)] = OfRollout(Tail(<<"validate">>))
    BY <1>3, <1>7
  <2>3. OfRollout(Tail(<<"validate">>)) = Idle
    BY <1>1, QueueFacts
  <2>. QED
    BY <1>7, <2>1, <2>2, <2>3
<1>8. CASE calls = OfRollout(both)
  <2>1. calls.rollout = both /\ Head(both) = "generate" /\ Tail(both) = <<"validate">>
    BY <1>1, <1>8, QueueFacts
  <2>. HIDE DEF both
  <2>2. [calls EXCEPT !.rollout = Tail(@)] = OfRollout(<<"validate">>)
    BY <1>3, <1>8, <2>1
  <2>3. Head(calls.rollout) = "generate"
    BY <2>1
  <2>. QED
    BY <1>8, <2>2, <2>3 DEF both
<1>. QED
  BY <1>4, <1>5, <1>6, <1>7, <1>8

\* What is not in a queue.
LEMMA WaitFacts ==
  /\ calls = Both => ~IsDone("actor", "sync") /\ ~IsDone("rollout", "sync") /\ ~Pending
  /\ calls = Idle => \A g \in {"actor", "rollout"} : \A c : IsDone(g, c)
  /\ calls = Idle => ~Pending
  /\ calls = OfRollout(<<"generate">>) => Pending /\ ~IsDone("rollout", "generate")
  /\ calls = OfRollout(<<"validate">>) => ~Pending /\ ~IsDone("rollout", "validate")
  /\ calls = OfRollout(<<"generate", "validate">>) => Pending /\ ~IsDone("rollout", "validate")
BY QueueFacts, Ranges DEF IsDone, Pending

\* The queues that occur differ.
LEMMA DistinctQueues ==
  /\ Idle # OfRollout(<<"generate">>) /\ Idle # OfRollout(<<"validate">>)
  /\ Idle # OfRollout(<<"generate", "validate">>)
  /\ OfRollout(<<"generate">>) # OfRollout(<<"validate">>)
  /\ OfRollout(<<"generate">>) # OfRollout(<<"generate", "validate">>)
  /\ OfRollout(<<"validate">>) # OfRollout(<<"generate", "validate">>)
BY QueueFacts

\* Which requests wait is told by the place of the driver.
LEMMA QueuesStep ==
  ASSUME Queues, Typed, [Next]_vars
  PROVE  Queues'
<1>1. Both # Idle /\ \A q : OfRollout(q) # Both
  BY QueueFacts
<1>2. CASE Start
  BY <1>2 DEF Start, Queues, Both
<1>3. CASE Load
  BY <1>3, WaitFacts, AskFacts DEF Load, Queues
<1>4. CASE FirstStep
  BY <1>4, WaitFacts DEF FirstStep, Queues, groups
<1>5. CASE Draw
  BY <1>5, AskFacts DEF Draw, Queues
<1>6. CASE NextEpoch
  BY <1>6 DEF NextEpoch, Queues, groups
<1>7. CASE NoneLeft
  BY <1>7 DEF NoneLeft, Continue, Queues, groups
<1>8. CASE Launch
  BY <1>8, WaitFacts, AskFacts DEF Launch, Continue, Queues
<1>9. CASE Get
  BY <1>9, WaitFacts DEF Get, Queues, groups
<1>10. CASE Train
  BY <1>10, AskFacts DEF Train, Queues
<1>11. CASE Save
  BY <1>11, WaitFacts DEF Save, Queues, groups
<1>12. CASE Sync
  <2>1. calls = Both /\ pc \in {"load", "launch"}
    BY <1>1, <1>12, DoneFacts DEF Sync, Queues, Typed
  <2>2. calls' = Idle /\ pc' = pc
    BY <1>12, <2>1, QueueFacts DEF Sync, Idle
  <2>. QED
    BY <2>1, <2>2 DEF Queues
<1>13. CASE Generate
  <2>1. /\ pc' = pc
        /\ \/ calls = OfRollout(<<"generate">>) /\ calls' = Idle
           \/ /\ calls = OfRollout(<<"generate", "validate">>)
              /\ calls' = OfRollout(<<"validate">>)
    BY <1>13, DoneFacts DEF Generate, Queues, Typed
  <2>2. pc \in {"train", "get", "save", "done"}
    BY <1>1, <2>1, DistinctQueues DEF Queues, Typed
  <2>3. calls = OfRollout(<<"generate", "validate">>) => pc \in {"save", "done"}
    BY <1>1, <2>2, DistinctQueues DEF Queues
  <2>. QED
    BY <2>1, <2>2, <2>3 DEF Queues
<1>14. CASE GenerateValidation
  BY <1>14, DoneFacts DEF GenerateValidation, Queues, Typed
<1>15. CASE Crash
  BY <1>15 DEF Crash, Queues
<1>16. CASE UNCHANGED vars
  BY <1>16 DEF vars, groups, Queues
<1>. QED
  BY <1>2, <1>3, <1>4, <1>5, <1>6, <1>7, <1>8, <1>9, <1>10, <1>11, <1>12, <1>13, <1>14,
     <1>15, <1>16 DEF Next, Driver, Groups
-----------------------------------------------------------------------------
(* The types.                                                              *)

\* Types are kept.
LEMMA TypedStep ==
  ASSUME Typed, [Next]_vars
  PROVE  Typed'
<1>. USE OneStepOffAssumption
<1>1. EpochLen \in Nat \ {0} /\ 0 \in Batches /\ <<>> \in Weights /\ Nothing \in Answers
  BY DEF Batches, Weights, Nothing, Answers, None
<1>2. CASE Start
  BY <1>1, <1>2 DEF Start, Typed, None
<1>3. CASE Load
  <2>1. Len(ckpt.weights) \in Nat
    BY DEF Typed, Weights
  <2>. QED
    BY <1>1, <1>3, <2>1 DEF Load, Typed
<1>4. CASE FirstStep
  BY <1>1, <1>4 DEF FirstStep, Typed, groups, place
<1>5. CASE Draw
  <2>1. pos + 1 \in Batches
    BY <1>1, <1>5 DEF Draw, Typed, Batches
  <2>. QED
    BY <1>5, <2>1 DEF Draw, Typed
<1>6. CASE NextEpoch
  BY <1>1, <1>6 DEF NextEpoch, Typed, groups
<1>7. CASE NoneLeft
  BY <1>1, <1>7 DEF NoneLeft, Continue, Typed, groups, place, None
<1>8. CASE Launch
  BY <1>8 DEF Launch, Continue, Typed, place
<1>9. CASE Get
  BY <1>9 DEF Get, Typed, groups, place
<1>10. CASE Train
  <2>1. batch.at \in Batches
    BY DEF Typed, Answers
  <2>2. actor' \in Weights
    BY <1>10, <2>1 DEF Train, Typed, Weights
  <2>. QED
    BY <1>10, <2>2 DEF Train, Typed, place
<1>11. CASE Save
  BY <1>1, <1>11 DEF Save, Typed, groups, place
<1>12. CASE Sync
  BY <1>12 DEF Sync, Typed, place
<1>13. CASE Generate
  BY <1>13 DEF Generate, Typed, place, Answers
<1>14. CASE GenerateValidation
  BY <1>14 DEF GenerateValidation, Typed, place
<1>15. CASE Crash
  BY <1>15 DEF Crash, Typed, place
<1>16. CASE UNCHANGED vars
  BY <1>16 DEF vars, groups, place, Typed
<1>. QED
  BY <1>2, <1>3, <1>4, <1>5, <1>6, <1>7, <1>8, <1>9, <1>10, <1>11, <1>12, <1>13, <1>14,
     <1>15, <1>16 DEF Next, Driver, Groups

-----------------------------------------------------------------------------
(* The age of the weights.                                                 *)

\* Weights are behind themselves by nothing, and behind an update by one.
LEMMA OneUpdate ==
  ASSUME NEW w \in Weights, NEW b \in Batches
  PROVE  /\ IsPrefix(w, w) /\ Len(w) - Len(w) <= 1
         /\ IsPrefix(w, Append(w, b)) /\ Len(Append(w, b)) - Len(w) <= 1
<1>. DEFINE v == Append(w, b)
<1>1. v \in Seq(Batches) /\ w \in Seq(Batches) /\ Len(v) = Len(w) + 1 /\ Len(w) \in Nat
      /\ \A i \in 1..Len(w) : v[i] = w[i]
  BY DEF Weights
<1>. HIDE DEF v
<1>2. SubSeq(w, 1, Len(w)) = SubSeq(v, 1, Len(w))
  <2>1. SubSeq(w, 1, Len(w)) = w
    BY <1>1, SubSeqFull
  <2>. DEFINE u == SubSeq(v, 1, Len(w))
  <2>2. u \in Seq(Batches) /\ Len(u) = Len(w) /\ \A i \in 1..Len(w) : u[i] = w[i]
    BY <1>1
  <2>. HIDE DEF u
  <2>3. u = w
    BY <1>1, <2>2, SeqEqual
  <2>. QED
    BY <2>1, <2>3 DEF u
<1>. QED
  BY <1>1, <1>2 DEF IsPrefix, v

\* What the driver takes next: it has seen that generation is done.
LEMMA Taken ==
  ASSUME Queues, Typed, Get
  PROVE  ~Pending /\ calls = Idle /\ Coming = result
BY WaitFacts DEF Queues, Get, Coming

\* What is being generated is an answer.
LEMMA ComingTyped == ASSUME Typed PROVE Coming \in Answers
BY DEF Coming, Typed, Answers

\* Generation comes to what was coming.
LEMMA ComingStep ==
  ASSUME Queues, Typed, Generate
  PROVE  Coming' = Coming
<1>1. Pending /\ ~Pending'
  <2>1. \/ calls = OfRollout(<<"generate">>) /\ calls' = Idle
        \/ calls = OfRollout(<<"generate", "validate">>) /\ calls' = OfRollout(<<"validate">>)
    BY DoneFacts DEF Generate, Queues, Typed
  <2>. QED
    BY <2>1, QueueFacts, Ranges DEF Pending
<1>2. result' = [at |-> future, by |-> rollout]
  BY DEF Generate
<1>. QED
  BY <1>1, <1>2 DEF Coming

\* The other steps leave alone what is coming.
LEMMA ComingRests ==
  ASSUME Queues, Typed,
         GenerateValidation \/ Train \/ UNCHANGED <<calls, future, rollout, result>>
  PROVE  Coming' = Coming
<1>1. Pending' <=> Pending
  <2>1. CASE GenerateValidation
    <3>1. ~Pending /\ ~Pending'
      BY <2>1, DoneFacts, WaitFacts, QueueFacts, Ranges DEF GenerateValidation, Queues, Typed, Pending
    <3>. QED
      BY <3>1
  <2>2. CASE Train
    <3>1. calls' = calls \/ calls' = Ask("rollout", "validate")
      BY <2>2 DEF Train
    <3>2. \/ calls = Idle /\ ~Pending
          \/ calls = OfRollout(<<"generate">>) /\ Pending
      BY <2>2, WaitFacts DEF Train, Queues
    <3>3. /\ calls' = OfRollout(<<"validate">>) => ~Pending'
          /\ calls' = OfRollout(<<"generate", "validate">>) => Pending'
          /\ calls' = calls => (Pending' <=> Pending)
      BY QueueFacts, Ranges DEF Pending
    <3>. QED
      BY <3>1, <3>2, <3>3, AskFacts
  <2>3. CASE UNCHANGED calls
    BY <2>3 DEF Pending
  <2>. QED
    BY <2>1, <2>2, <2>3
<1>2. UNCHANGED <<future, rollout, result>>
  BY DEF GenerateValidation, Train, place
<1>. QED
  BY <1>1, <1>2 DEF Coming

\* The answers are from the weights as they are, or one update older.
LEMMA AgesStep ==
  ASSUME Typed, Queues, Ages, [Next]_vars
  PROVE  Ages'
<1>1. /\ Coming \in Answers /\ actor \in Weights /\ result \in Answers
      /\ \A w \in Weights : IsPrefix(w, w) /\ Len(w) - Len(w) <= 1
  BY ComingTyped, OneUpdate, OneStepOffAssumption DEF Typed, Batches
\* A step of a group, or of nobody: no collective ends.
<1>2. ASSUME UNCHANGED <<pc, batch, actor, future, steps>>, Coming' = Coming, pc # "launch"
      PROVE  Ages'
  BY <1>2 DEF Ages, Behind, GoesOn, IsLastStep
<1>3. CASE Start \/ Crash
  BY <1>3 DEF Start, Crash, Ages
<1>4. CASE Load
  BY <1>4 DEF Load, Ages
<1>5. CASE FirstStep
  BY <1>5 DEF FirstStep, Ages
<1>6. CASE Draw
  <2>1. calls' # Idle
    BY <1>6, AskFacts, QueueFacts DEF Draw, Queues
  <2>. QED
    BY <1>6, <2>1 DEF Draw, Ages, Behind
<1>7. CASE NextEpoch
  BY <1>7 DEF NextEpoch, Ages, Behind, groups
<1>8. CASE NoneLeft
  BY <1>8 DEF NoneLeft, Continue, Ages, Behind, GoesOn, groups
<1>9. CASE Launch
  <2>1. calls = Idle /\ rollout = actor
    BY <1>9, WaitFacts DEF Launch, Queues, Ages
  <2>2. calls' = OfRollout(<<"generate">>)
    BY <1>9, <2>1, AskFacts DEF Launch
  <2>3. Pending' /\ Coming'.by = actor
    <3>1. Pending'
      BY <2>2, QueueFacts, Ranges DEF Pending
    <3>. QED
      BY <1>9, <2>1, <3>1 DEF Coming, Launch
  <2>4. Behind(Coming.by)'
    BY <1>1, <1>9, <2>3 DEF Behind, Launch
  <2>. QED
    BY <1>9, <2>3, <2>4 DEF Launch, Continue, Ages, Behind
<1>10. CASE Get
  <2>1. Coming = result
    BY <1>10, Taken
  <2>. QED
    BY <1>10, <2>1 DEF Get, Ages, Behind, GoesOn, IsLastStep, groups
<1>11. CASE Train
  <2>1. Coming' = Coming
    BY <1>11, ComingRests
  <2>2. pc' = "save" /\ future' = future /\ steps' = steps /\ actor' = Append(actor, batch.at)
    BY <1>11 DEF Train
  <2>3. IsPrefix(actor, actor') /\ Len(actor') - Len(actor) <= 1
    BY <1>1, <2>2, OneUpdate DEF Typed, Answers
  <2>4. GoesOn' => Coming.by = actor
    BY <1>11, <2>2 DEF Train, Ages, GoesOn, IsLastStep
  <2>. QED
    BY <2>1, <2>2, <2>3, <2>4 DEF Ages, Behind
<1>12. CASE Save
  <2>1. Coming' = Coming
    BY <1>12, ComingRests DEF Save, groups
  <2>. QED
    BY <1>12, <2>1 DEF Save, Ages, Behind, GoesOn, IsLastStep, groups
<1>13. CASE Sync
  <2>1. pc' = pc /\ batch' = batch /\ actor' = actor /\ rollout' = actor
    BY <1>13 DEF Sync
  <2>2. pc \in {"load", "launch"}
    BY <1>13, DoneFacts, QueueFacts DEF Sync, Queues, Typed
  <2>. QED
    BY <2>1, <2>2 DEF Ages, Behind
<1>14. CASE Generate \/ GenerateValidation
  <2>1. pc # "launch"
    BY <1>14, DoneFacts, QueueFacts DEF Generate, GenerateValidation, Queues
  <2>. QED
    BY <1>2, <1>14, <2>1, ComingStep, ComingRests DEF Generate, GenerateValidation
<1>15. CASE UNCHANGED vars
  BY <1>15, ComingRests DEF vars, groups, Ages, Behind, GoesOn, IsLastStep
<1>. QED
  BY <1>3, <1>4, <1>5, <1>6, <1>7, <1>8, <1>9, <1>10, <1>11, <1>12, <1>13, <1>14, <1>15
     DEF Next, Driver, Groups

-----------------------------------------------------------------------------
(* The order of the batches.                                               *)

\* The batch after b, without the remainder.
LEMMA NextFacts ==
  ASSUME NEW b \in Batches
  PROVE  /\ NextOf(b) \in 1..EpochLen /\ NextOf(b) \in Batches
         /\ b # EpochLen => NextOf(b) = b + 1
         /\ b = EpochLen => NextOf(b) = NextOf(0)
<1>1. EpochLen \in Nat /\ EpochLen > 0 /\ b \in 0..EpochLen
  BY OneStepOffAssumption DEF Batches
<1>2. 0 % EpochLen = 0 /\ EpochLen % EpochLen = 0 /\ (b < EpochLen => b % EpochLen = b)
  BY <1>1
<1>. QED
  BY <1>1, <1>2 DEF NextOf, Batches

\* The newest batch the weights were trained on.
LEMMA NewestFacts ==
  ASSUME NEW w \in Weights, NEW b \in Batches
  PROVE  Newest(<<>>) = 0 /\ Newest(w) \in Batches /\ Newest(Append(w, b)) = b
<1>1. 0 \in Batches
  BY OneStepOffAssumption DEF Batches
<1>2. Newest(w) \in Batches
  BY <1>1 DEF Newest, Weights
<1>. QED
  BY <1>2, AppendProperties DEF Newest, Weights

\* The weights go on in order when the batch is due.
LEMMA FollowsAppend ==
  ASSUME NEW w \in Weights, NEW b \in Batches, NEW r, Follows(w, r),
         \/ b = NextOf(Newest(w))
         \/ Len(w) \in r /\ b = NextOf(NextOf(Newest(w)))
  PROVE  Follows(Append(w, b), r)
<1>. DEFINE v == Append(w, b)
            n == Len(w)
            before(u, i) == IF i = 1 THEN 0 ELSE u[i - 1]
<1>1. /\ n \in Nat /\ DOMAIN v = 1..(n + 1) /\ DOMAIN w = 1..n /\ v[n + 1] = b
      /\ \A i \in 1..n : v[i] = w[i]
  BY DEF Weights
<1>2. before(v, n + 1) = Newest(w)
  <2>1. CASE n = 0
    BY <2>1 DEF Newest, Weights
  <2>2. CASE n # 0
    <3>1. w # <<>> /\ n + 1 # 1 /\ v[(n + 1) - 1] = w[n]
      <4>1. n \in 1..n /\ n + 1 # 1 /\ (n + 1) - 1 = n
        BY <1>1, <2>2
      <4>2. w # <<>>
        BY <2>2
      <4>. QED
        BY <1>1, <4>1, <4>2
    <3>. HIDE DEF v
    <3>. QED
      BY <3>1 DEF Newest
  <2>. QED
    BY <2>1, <2>2
<1>. HIDE DEF v
<1>3. ASSUME NEW i \in 1..n
      PROVE  v[i] = w[i] /\ before(v, i) = before(w, i)
  BY <1>1
<1>4. ASSUME NEW i \in DOMAIN v
      PROVE  \/ v[i] = NextOf(before(v, i))
             \/ i - 1 \in r /\ v[i] = NextOf(NextOf(before(v, i)))
  <2>1. CASE i = n + 1
    <3>1. v[i] = b /\ before(v, i) = Newest(w) /\ i - 1 = n
      BY <1>1, <1>2, <2>1
    <3>. HIDE DEF before
    <3>. QED
      BY <3>1
  <2>2. CASE i # n + 1
    <3>1. i \in DOMAIN w /\ v[i] = w[i] /\ before(v, i) = before(w, i)
      BY <1>1, <1>3, <2>2
    <3>2. \/ w[i] = NextOf(before(w, i))
          \/ i - 1 \in r /\ w[i] = NextOf(NextOf(before(w, i)))
      BY <3>1 DEF Follows
    <3>. HIDE DEF before
    <3>. QED
      BY <3>1, <3>2
  <2>. QED
    BY <2>1, <2>2
<1>. QED
  BY <1>4 DEF Follows, v

\* The batch that comes is the one after the newest.
LEMMA TurnsStep ==
  ASSUME Typed, Queues, Ages, Turns, [Next]_vars
  PROVE  Turns'
<1>1. /\ Coming \in Answers /\ actor \in Weights /\ ckpt.weights \in Weights
      /\ pos \in Batches /\ ckpt.pos \in Batches /\ 0 \in Batches /\ batch.at \in Batches
      /\ Nothing.at = 0 /\ steps \in Nat
  BY ComingTyped, OneStepOffAssumption DEF Typed, Batches, Answers, Nothing, None
<1>2. ASSUME UNCHANGED <<ckpt, pc, batch, actor, future, steps, pos, resumed>>,
             Coming' = Coming \/ pc \in {"load", "launch"}
      PROVE  Turns'
  BY <1>2 DEF Turns, Ahead, Due, GoesOn, IsLastStep
<1>3. CASE Start
  <2>1. pc' = "load" /\ batch' = Nothing /\ actor' = <<>> /\ UNCHANGED <<ckpt, resumed>>
    BY <1>3 DEF Start
  <2>2. Follows(actor', resumed')
    BY <2>1 DEF Follows
  <2>. QED
    BY <2>1, <2>2 DEF Turns
<1>4. CASE Load
  <2>. DEFINE w == ckpt.weights
  <2>1. /\ pc' = "validated" /\ UNCHANGED <<batch, ckpt>> /\ batch = Nothing
        /\ actor' = w /\ pos' = ckpt.pos
        /\ resumed' = IF ckpt.steps = 0 THEN {} ELSE ckpt.resumed \cup {Len(w)}
    BY <1>4 DEF Load, Ages
  <2>2. CASE ckpt.steps = 0
    <3>1. w = <<>> /\ ckpt.pos = 0
      BY <2>2 DEF Turns
    <3>2. Follows(actor', resumed')
      BY <2>1, <3>1 DEF Follows
    <3>3. Due(NextOf(pos))'
      BY <1>1, <2>1, <3>1, NewestFacts DEF Due
    <3>. QED
      BY <2>1, <3>2, <3>3 DEF Turns
  <2>3. CASE ckpt.steps # 0
    <3>1. Follows(w, ckpt.resumed) /\ Near(ckpt.pos, Newest(w))
      BY DEF Turns
    <3>2. resumed' = ckpt.resumed \cup {Len(w)}
      BY <2>1, <2>3
    <3>3. Follows(actor', resumed')
      BY <2>1, <3>1, <3>2 DEF Follows
    <3>4. Len(actor') \in resumed'
      BY <1>1, <2>1, <3>2 DEF Weights
    <3>5. \/ NextOf(pos') = NextOf(Newest(actor'))
          \/ NextOf(pos') = NextOf(NextOf(Newest(actor')))
      BY <2>1, <3>1 DEF Near
    <3>6. Due(NextOf(pos))'
      BY <3>4, <3>5, Zenon DEF Due
    <3>. QED
      BY <2>1, <3>3, <3>6 DEF Turns
  <2>. QED
    BY <2>2, <2>3
<1>5. CASE FirstStep
  <2>1. /\ pc' = "draw" /\ batch = Nothing /\ steps' = steps + 1 /\ Due(NextOf(pos))
        /\ UNCHANGED <<ckpt, pos, actor, resumed, batch>>
    BY <1>5 DEF FirstStep, Ages, Turns, groups, place
  <2>2. steps' > 0
    BY <1>1, <2>1
  <2>. QED
    BY <2>1, <2>2 DEF Turns, Due
<1>6. CASE Draw
  <2>1. /\ pc = "draw" /\ pc' = "launch" /\ pos' = pos + 1 /\ future' = pos + 1 /\ pos < EpochLen
        /\ UNCHANGED <<ckpt, steps, batch, actor, resumed>>
    BY <1>6 DEF Draw
  <2>2. pos' = NextOf(pos) /\ pos' # None
    BY <1>1, <2>1, NextFacts DEF None, Batches
  <2>. QED
    BY <2>1, <2>2 DEF Turns, Due
<1>7. CASE NextEpoch
  <2>1. /\ pc = "draw" /\ pc' = "draw" /\ pos = EpochLen /\ pos' \in {0, pos}
        /\ UNCHANGED <<ckpt, steps, batch, actor, resumed>>
    BY <1>7 DEF NextEpoch, groups
  <2>2. NextOf(pos') = NextOf(pos)
    BY <1>1, <2>1, NextFacts
  <2>. QED
    BY <2>1, <2>2 DEF Turns, Due
<1>8. CASE NoneLeft
  <2>1. /\ pc = "draw" /\ future' = None /\ UNCHANGED <<ckpt, steps, pos, batch, actor, resumed>>
        /\ pc' = IF batch # Nothing THEN "train" ELSE "done"
    BY <1>8 DEF NoneLeft, Continue, groups, place
  <2>2. batch # Nothing => Due(batch.at) /\ NextOf(pos) = NextOf(batch.at)
    BY <2>1 DEF Turns
  <2>3. ~GoesOn'
    BY <2>1 DEF GoesOn
  <2>. QED
    BY <2>1, <2>2, <2>3 DEF Turns, Due, Ahead, Near
<1>9. CASE Launch
  <2>1. calls = Idle
    BY <1>9, WaitFacts DEF Launch, Queues
  <2>2. calls' = OfRollout(<<"generate">>)
    BY <1>9, <2>1, AskFacts DEF Launch
  <2>3. Pending'
    BY <2>2, QueueFacts, Ranges DEF Pending
  <2>4. /\ pc = "launch" /\ UNCHANGED <<ckpt, steps, pos, batch, actor, resumed, future>>
        /\ future = pos /\ future # None
        /\ pc' = IF batch # Nothing THEN "train" ELSE "get"
    BY <1>9 DEF Launch, Continue, place, Turns
  <2>5. Coming'.at = pos
    BY <2>3, <2>4 DEF Coming
  <2>6. CASE batch = Nothing
    <3>1. pc' = "get" /\ Due(pos)
      BY <2>4, <2>6 DEF Turns
    <3>. QED
      BY <2>4, <2>5, <3>1 DEF Turns, Due
  <2>7. CASE batch # Nothing
    <3>1. pc' = "train" /\ Due(batch.at) /\ pos = NextOf(batch.at)
      BY <2>4, <2>7 DEF Turns
    <3>2. Ahead(batch.at)'
      BY <2>4, <2>5, <3>1 DEF Ahead, Near
    <3>. QED
      BY <2>4, <3>1, <3>2 DEF Turns, Due
  <2>. QED
    BY <2>6, <2>7
<1>10. CASE Get
  <2>1. Coming = result
    BY <1>10, Taken
  <2>2. /\ pc = "get" /\ batch' = result /\ pc' = IF IsLastStep THEN "train" ELSE "draw"
        /\ UNCHANGED <<ckpt, steps, pos, actor, resumed, future>>
    BY <1>10 DEF Get, groups, place
  <2>3. Due(pos) /\ batch'.at = pos /\ future = pos /\ future # None
    BY <2>1, <2>2 DEF Turns
  <2>4. batch' # Nothing
    BY <1>1, <2>3 DEF None
  <2>5. IsLastStep => ~GoesOn'
    BY <2>2 DEF GoesOn, IsLastStep
  <2>. QED
    BY <2>2, <2>3, <2>4, <2>5 DEF Turns, Due, Ahead, Near
<1>11. CASE Train
  <2>1. Coming' = Coming
    BY <1>11, ComingRests
  <2>2. /\ pc = "train" /\ pc' = "save" /\ actor' = Append(actor, batch.at)
        /\ UNCHANGED <<ckpt, steps, pos, batch, resumed, future>>
    BY <1>11 DEF Train, place
  <2>3. Due(batch.at) /\ Ahead(batch.at) /\ Follows(actor, resumed) /\ steps > 0
    BY <2>2 DEF Turns
  <2>4. Follows(actor', resumed') /\ Newest(actor') = batch.at
    BY <1>1, <2>2, <2>3, FollowsAppend, NewestFacts DEF Due
  <2>5. Ahead(Newest(actor))'
    BY <2>1, <2>2, <2>3, <2>4 DEF Ahead, GoesOn, IsLastStep
  <2>. QED
    BY <2>2, <2>3, <2>4, <2>5 DEF Turns
<1>12. CASE Save
  <2>1. Coming' = Coming
    BY <1>12, ComingRests DEF Save, groups
  <2>2. /\ pc = "save" /\ steps' = steps + 1 /\ UNCHANGED <<pos, actor, resumed, future>>
        /\ pc' = IF GoesOn THEN "get" ELSE "done"
        /\ \/ ckpt' = ckpt
           \/ ckpt' = [steps |-> steps, pos |-> pos, weights |-> actor, resumed |-> resumed]
    BY <1>12 DEF Save, groups, place, GoesOn
  <2>3. Ahead(Newest(actor)) /\ Follows(actor, resumed) /\ steps > 0 /\ steps' > 0
    BY <1>1, <2>2 DEF Turns
  <2>4. /\ Follows(ckpt.weights, ckpt.resumed)' /\ Near(ckpt.pos, Newest(ckpt.weights))'
        /\ ckpt'.steps = 0 => ckpt'.weights = <<>> /\ ckpt'.pos = 0
    BY <2>2, <2>3 DEF Turns, Ahead
  <2>5. GoesOn => future # None /\ pos = NextOf(Newest(actor)) /\ future = pos /\ Coming.at = pos
    BY <2>3 DEF Ahead, GoesOn
  <2>. QED
    BY <2>1, <2>2, <2>3, <2>4, <2>5 DEF Turns, Due
<1>13. CASE Sync
  <2>1. pc \in {"load", "launch"}
    BY <1>13, DoneFacts, QueueFacts DEF Sync, Queues, Typed
  <2>. QED
    BY <1>2, <1>13, <2>1 DEF Sync, place
<1>14. CASE Generate \/ GenerateValidation
  BY <1>2, <1>14, ComingStep, ComingRests DEF Generate, GenerateValidation, place
<1>15. CASE Crash
  BY <1>15 DEF Crash, Turns, place
<1>16. CASE UNCHANGED vars
  BY <1>2, <1>16, ComingRests DEF vars, groups, place
<1>. QED
  BY <1>3, <1>4, <1>5, <1>6, <1>7, <1>8, <1>9, <1>10, <1>11, <1>12, <1>13, <1>14, <1>15, <1>16
     DEF Next, Driver, Groups

-----------------------------------------------------------------------------
(* The inductive invariant, and what it says.                              *)

\* The first start of the job has the invariant.
LEMMA InitInv == Init => IndInv
<1>. SUFFICES ASSUME Init PROVE IndInv
  OBVIOUS
<1>1. EpochLen \in Nat \ {0} /\ 0 \in Batches /\ <<>> \in Weights
  BY OneStepOffAssumption DEF Batches, Weights
<1>2. Typed
  BY <1>1 DEF Init, Typed, NoCheckpoint, Nothing, None, Answers
<1>3. Queues
  BY DEF Init, Queues
<1>4. Ages
  BY DEF Init, Ages
<1>5. Turns
  <2>1. ckpt.weights = <<>> /\ ckpt.pos = 0 /\ actor = <<>> /\ pc = "off"
    BY DEF Init, NoCheckpoint
  <2>2. Follows(<<>>, resumed) /\ Follows(<<>>, ckpt.resumed) /\ Newest(<<>>) = 0
    BY DEF Follows, Newest
  <2>. QED
    BY <2>1, <2>2 DEF Turns, Near
<1>. QED
  BY <1>2, <1>3, <1>4, <1>5 DEF IndInv

\* The invariant holds in every state of every execution.
LEMMA Invariance == Spec => []IndInv
<1>1. IndInv /\ [Next]_vars => IndInv'
  BY TypedStep, QueuesStep, AgesStep, TurnsStep DEF IndInv
<1>. QED
  BY <1>1, InitInv, PTL DEF Spec

(* The batch that is trained on was answered by weights at most one update  *)
(* behind, whichever of the two groups is faster, and wherever the job died *)
(* and was resumed.                                                         *)
THEOREM NeverFurtherBehind == Spec => []OneStepBehind
<1>1. IndInv => OneStepBehind
  BY DEF IndInv, Ages, Behind, OneStepBehind
<1>. QED
  BY <1>1, Invariance, PTL

(* Every batch is trained on in its turn, in every epoch; only where a job  *)
(* was resumed the one is missing that was being generated.                 *)
THEOREM InTurn == Spec => []FollowsOn
<1>1. IndInv => FollowsOn
  BY DEF IndInv, Turns, Follows, FollowsOn
<1>. QED
  BY <1>1, Invariance, PTL

(***************************************************************************)
(* What the two trainers with checkpoint files have in common.             *)
(***************************************************************************)

\* The steps of the checkpoints a process has saved.
Climbs(paths, top) ==
  /\ paths \in Seq(Nat \ {0})
  /\ \A i \in DOMAIN paths : paths[i] <= top
  /\ \A i, j \in DOMAIN paths : i < j => paths[i] < paths[j]

\* Nothing is removed, or the first of several.
Rotated(paths, gone, kept) ==
  \/ gone = <<>> /\ kept = paths
  \/ \E n \in 1..(Len(paths) - 1) : gone = SubSeq(paths, 1, n) /\ kept = SubSeq(paths, n + 1, Len(paths))

\* Rotation removes checkpoints from before the last.
LEMMA RotationKeeps ==
  ASSUME NEW paths, NEW top \in Nat, Climbs(paths, top), NEW gone, NEW kept,
         Rotated(paths, gone, kept)
  PROVE  /\ Climbs(kept, top)
         /\ \A i \in DOMAIN gone : gone[i] < top
<1>1. CASE gone = <<>> /\ kept = paths
  BY <1>1
<1>2. ASSUME NEW n \in 1..(Len(paths) - 1),
             gone = SubSeq(paths, 1, n), kept = SubSeq(paths, n + 1, Len(paths))
      PROVE  Climbs(kept, top) /\ \A i \in DOMAIN gone : gone[i] < top
  <2>. DEFINE m == Len(paths)
  <2>1. m \in Nat /\ DOMAIN paths = 1..m /\ n \in Int /\ 1 <= n /\ n < m
    BY <1>2 DEF Climbs
  <2>2. /\ \A i \in 1..n : paths[i] \in Nat \ {0}
        /\ \A i \in (n + 1)..m : paths[i] \in Nat \ {0}
    BY <2>1 DEF Climbs
  <2>3. /\ gone \in Seq(Nat \ {0}) /\ Len(gone) = n
        /\ \A i \in 1..(n - 1 + 1) : gone[i] = paths[1 + i - 1]
    BY <1>2, <2>1, <2>2, SubSeqProperties
  <2>4. /\ kept \in Seq(Nat \ {0}) /\ Len(kept) = m - (n + 1) + 1
        /\ \A i \in 1..(m - (n + 1) + 1) : kept[i] = paths[(n + 1) + i - 1]
    BY <1>2, <2>1, <2>2, SubSeqProperties
  <2>5. DOMAIN gone = 1..n /\ DOMAIN kept = 1..(m - n)
    BY <2>1, <2>3, <2>4
  <2>6. ASSUME NEW i \in DOMAIN gone
        PROVE  gone[i] < top
    <3>1. i \in DOMAIN paths /\ i < m /\ gone[i] = paths[i] /\ m \in DOMAIN paths
      BY <2>1, <2>3, <2>5
    <3>2. paths[i] < paths[m] /\ paths[m] <= top
      BY <3>1 DEF Climbs
    <3>3. paths[i] \in Int /\ paths[m] \in Int
      BY <3>1 DEF Climbs
    <3>. QED
      BY <3>1, <3>2, <3>3
  <2>7. ASSUME NEW i \in DOMAIN kept
        PROVE  i \in Int /\ n + i \in DOMAIN paths /\ kept[i] = paths[n + i]
    BY <2>1, <2>4, <2>5
  <2>8. \A i \in DOMAIN kept : kept[i] <= top
    BY <2>7 DEF Climbs
  <2>9. ASSUME NEW i \in DOMAIN kept, NEW j \in DOMAIN kept, i < j
        PROVE  kept[i] < kept[j]
    <3>1. n + i < n + j
      BY <2>1, <2>7, <2>9
    <3>. QED
      BY <2>7, <3>1 DEF Climbs
  <2>. QED
    BY <2>4, <2>6, <2>8, <2>9 DEF Climbs
<1>. QED
  BY <1>1, <1>2 DEF Rotated

\* The checkpoint that comes next is the last.
LEMMA ClimbsOn ==
  ASSUME NEW paths, NEW top \in Nat, Climbs(paths, top), NEW n \in Nat \ {0}, top < n
  PROVE  Climbs(Append(paths, n), n)
<1>1. /\ paths \in Seq(Nat \ {0}) /\ Len(paths) \in Nat /\ DOMAIN paths = 1..Len(paths)
  BY DEF Climbs
<1>2. /\ Append(paths, n) \in Seq(Nat \ {0})
      /\ DOMAIN Append(paths, n) = 1..(Len(paths) + 1)
      /\ Append(paths, n)[Len(paths) + 1] = n
      /\ \A i \in 1..Len(paths) : Append(paths, n)[i] = paths[i]
  BY <1>1
<1>3. \A i \in 1..Len(paths) : paths[i] \in Nat /\ paths[i] <= top
  BY <1>1 DEF Climbs
<1>4. \A i \in DOMAIN Append(paths, n) : Append(paths, n)[i] <= n
  BY <1>1, <1>2, <1>3
<1>5. ASSUME NEW i \in 1..(Len(paths) + 1), NEW j \in 1..(Len(paths) + 1), i < j
      PROVE  Append(paths, n)[i] < Append(paths, n)[j]
  <2>1. i \in 1..Len(paths)
    BY <1>1, <1>5
  <2>2. CASE j = Len(paths) + 1
    BY <1>2, <1>3, <2>1, <2>2
  <2>3. CASE j \in 1..Len(paths)
    BY <1>1, <1>2, <1>5, <2>1, <2>3 DEF Climbs
  <2>. QED
    BY <1>1, <2>2, <2>3
<1>. QED
  BY <1>2, <1>4, <1>5 DEF Climbs

(***************************************************************************)
(* SftTrainer.                                                             *)
(***************************************************************************)

\* No checkpoint is saved between two epochs: the job that loads one skips
\* the epoch.
SavesInEpochs == \A e \in 1..(SftEpochs - 1) : (e * SftEpochLen) % SftSaveFreq # 0

\* Step s is the one after which d batches of epoch e are drawn.
InEpoch(s, e, d) ==
  e \in 0..(SftEpochs - 1) /\ d \in 0..SftEpochLen /\ s = e * SftEpochLen + d

\* The numbers of the job are positive.
LEMMA SftConstants ==
  /\ SftEpochLen \in Nat \ {0} /\ SftEpochs \in Nat \ {0} /\ SftSaveFreq \in Nat \ {0}
  /\ SftMaxStarts \in Nat /\ MaxKeep \in Nat
  /\ Sft!Total \in Nat \ {0} /\ Sft!Total = SftEpochLen * SftEpochs
<1>1. /\ SftEpochLen \in Nat \ {0} /\ SftEpochs \in Nat \ {0} /\ SftSaveFreq \in Nat \ {0}
      /\ SftMaxStarts \in Nat /\ MaxKeep \in Nat
  BY TrainingAssumption DEF Sft!SftTrainerAssumption, Sft!CheckpointsAssumption
<1>2. \A a, b \in Nat \ {0} : a * b \in Nat \ {0}
  OBVIOUS
<1>. QED
  BY <1>1, <1>2 DEF Sft!Total

\* The epochs follow each other.
LEMMA EpochSteps ==
  ASSUME NEW s, NEW e, NEW d, InEpoch(s, e, d)
  PROVE  /\ s \in 0..Sft!Total /\ e \in 0..SftEpochs /\ d \in 0..SftEpochLen
         /\ d < SftEpochLen =>
              /\ InEpoch(s + 1, e, d + 1) /\ e * SftEpochLen + d + 1 = s + 1
              /\ s < Sft!Total
         /\ d = SftEpochLen =>
              IF e + 1 = SftEpochs THEN s = Sft!Total ELSE InEpoch(s, e + 1, 0)
<1>. DEFINE L == SftEpochLen
            E == SftEpochs
<1>1. /\ L \in Nat /\ E \in Nat /\ L > 0 /\ E > 0 /\ Sft!Total = L * E
      /\ e \in Int /\ 0 <= e /\ e + 1 <= E /\ d \in Int /\ 0 <= d /\ d <= L /\ s = e * L + d
  BY SftConstants DEF InEpoch
<1>. HIDE DEF L, E
<1>2. e * L \in Int /\ e * L >= 0 /\ (e + 1) * L = e * L + L /\ (e + 1) * L <= L * E
      /\ 0 * L = 0
  BY <1>1
<1>3. s \in Int /\ 0 <= s /\ s <= Sft!Total /\ (d < L => s < Sft!Total)
  BY <1>1, <1>2
<1>4. d < L => d + 1 \in 0..L /\ s + 1 = e * L + (d + 1) /\ e * L + d + 1 = s + 1
  BY <1>1, <1>2
<1>5. e \in 0..(E - 1) /\ (e + 1 # E => e + 1 \in 0..(E - 1))
  BY <1>1
<1>6. d = L => s = (e + 1) * L /\ s = (e + 1) * L + 0 /\ (e + 1 = E => s = L * E)
  BY <1>1, <1>2
<1>7. s \in 0..Sft!Total /\ e \in 0..E /\ d \in 0..L /\ 0 \in 0..L
  BY <1>1, <1>3
<1>. QED
  BY <1>1, <1>3, <1>4, <1>5, <1>6, <1>7 DEF InEpoch, L, E

\* The first epoch of a job that is resumed is the one of its data loader, but
\* after the last step.
LEMMA EpochLoaded ==
  ASSUME NEW s, NEW e, NEW d, InEpoch(s, e, d), d # 0, Sft!SavesAt(s), SavesInEpochs
  PROVE  \/ s \div SftEpochLen = e /\ d < SftEpochLen
         \/ s \div SftEpochLen = SftEpochs /\ s = Sft!Total
<1>. DEFINE L == SftEpochLen
            E == SftEpochs
<1>1. /\ L \in Nat /\ E \in Nat /\ L > 0 /\ E > 0 /\ Sft!Total = L * E
      /\ e \in Int /\ 0 <= e /\ e + 1 <= E /\ d \in Int /\ 0 <= d /\ d <= L /\ s = e * L + d
  BY SftConstants DEF InEpoch
<1>. HIDE DEF L, E
<1>2. CASE d < L
  <2>1. s \div L = e
    BY <1>1, <1>2
  <2>. QED
    BY <1>2, <2>1 DEF L
<1>3. CASE d = L
  <2>1. s = (e + 1) * L /\ s \div L = e + 1
    BY <1>1, <1>3
  <2>2. CASE e + 1 = E
    BY <1>1, <2>1, <2>2 DEF L, E
  <2>3. CASE e + 1 # E
    <3>1. e + 1 \in 1..(E - 1)
      BY <1>1, <2>3
    <3>2. s % SftSaveFreq # 0
      BY <2>1, <3>1 DEF SavesInEpochs, L, E
    <3>3. s < Sft!Total
      <4>1. s + L <= L * E
        BY <1>1, <2>1, <3>1
      <4>. QED
        BY <1>1, <2>1, <4>1
    <3>. QED
      BY <1>1, <2>1, <3>2, <3>3 DEF Sft!SavesAt
  <2>. QED
    BY <2>2, <2>3
<1>. QED
  BY <1>1, <1>2, <1>3

\* What a rank has learned after n steps.
LEMMA BatchesFacts ==
  ASSUME NEW n \in Nat
  PROVE  /\ Sft!Batches(n) \in Seq(Int) /\ Len(Sft!Batches(n)) = n
         /\ Sft!Batches(n + 1) = Append(Sft!Batches(n), n + 1)
         /\ n # 0 => Sft!Batches(n) \notin {Sft!NoShard, Sft!TornShard}
         /\ Sft!Batches(0) = <<>>
<1>1. Sft!Batches(n) \in Seq(Int) /\ Len(Sft!Batches(n)) = n
  BY DEF Sft!Batches
<1>2. Sft!Batches(n + 1) \in Seq(Int) /\ Len(Sft!Batches(n + 1)) = n + 1
  BY DEF Sft!Batches
<1>3. Append(Sft!Batches(n), n + 1) \in Seq(Int) /\ Len(Append(Sft!Batches(n), n + 1)) = n + 1
  BY <1>1
<1>4. ASSUME NEW i \in 1..(n + 1)
      PROVE  Sft!Batches(n + 1)[i] = Append(Sft!Batches(n), n + 1)[i]
  <2>1. Sft!Batches(n + 1)[i] = i
    BY DEF Sft!Batches
  <2>2. CASE i = n + 1
    BY <1>1, <2>1, <2>2
  <2>3. CASE i \in 1..n
    <3>1. Sft!Batches(n)[i] = i
      BY <2>3 DEF Sft!Batches
    <3>. QED
      BY <1>1, <2>1, <2>3, <3>1
  <2>4. i = n + 1 \/ i \in 1..n
    OBVIOUS
  <2>. QED
    BY <2>2, <2>3, <2>4
<1>5. Sft!Batches(n + 1) = Append(Sft!Batches(n), n + 1)
  BY <1>2, <1>3, <1>4, SeqEqual
<1>6. n # 0 => Sft!Batches(n)[1] = 1
  BY DEF Sft!Batches
<1>7. Sft!Batches(0) = <<>>
  BY DEF Sft!Batches
<1>. QED
  BY <1>1, <1>5, <1>6, <1>7 DEF Sft!NoShard, Sft!TornShard

(***************************************************************************)
(* The invariant.                                                          *)
(***************************************************************************)
Saving == {"rotate", "shards", "data", "tracker"}

SftFolder ==
  [here : BOOLEAN, shard : [{"model"} -> [Ranks -> Seq(Int)]], data : (0..SftEpochLen) \cup {-1}]

SftTyped ==
  /\ sftTracker \in 0..Sft!Total /\ sftFolders \in [Sft!Steps -> SftFolder]
  /\ sftStarts \in 0..SftMaxStarts
  /\ sftPc \in {"off", "load", "train", "done", "error"} \cup Saving
  /\ sftToSave \subseteq Ranks
  /\ step \in 0..Sft!Total /\ sftEpoch \in 0..SftEpochs /\ sftPos \in 0..SftEpochLen

\* The shards of a step have learned its batches, if they are there.
SftShards ==
  \A s \in Sft!Steps, k \in Ranks :
    sftFolders[s].shard["model"][k] \in {Sft!NoShard, Sft!TornShard, Sft!Batches(s)}

\* Where the ranks are, and what they have learned.
SftPlace ==
  /\ sftPc = "load" => step = 0 /\ sftEpoch = 0 /\ sftPos = 0
  /\ sftPc = "train" => \/ InEpoch(step, sftEpoch, sftPos)
                        \/ sftEpoch = SftEpochs /\ step = Sft!Total
  /\ sftPc \in Saving => InEpoch(step, sftEpoch, sftPos) /\ sftPos # 0 /\ Sft!SavesAt(step)
  /\ sftPc \in {"load", "train"} \cup Saving => sftModel = [k \in Ranks |-> Sft!Batches(step)]

SftShardsOf(s, ranks) ==
  sftFolders[s].here /\ \A k \in ranks : sftFolders[s].shard["model"][k] = Sft!Batches(s)

SftDataOf(s) ==
  /\ sftFolders[s].data # 0 /\ Sft!SavesAt(s)
  /\ \E e \in Nat : InEpoch(s, e, sftFolders[s].data)

\* What the tracker names is whole, and no later than the job.
SftTracked ==
  /\ sftTracker # 0 => SftShardsOf(sftTracker, Ranks) /\ SftDataOf(sftTracker)
  /\ sftPc = "train" => sftTracker <= step /\ (step = Sft!Total => sftTracker = step)
  /\ sftPc \in Saving => sftTracker < step
  /\ sftPc = "done" => step = Sft!Total /\ sftTracker = step

\* What is written already of the checkpoint of this step.
SftWritten ==
  /\ sftPc = "shards" => SftShardsOf(step, Ranks \ sftToSave)
  /\ sftPc \in {"data", "tracker"} => SftShardsOf(step, Ranks)
  /\ sftPc = "tracker" => sftFolders[step].data = sftPos

\* The checkpoints this process has saved end with the tracked one.
SftSaved ==
  /\ Climbs(sftSaved, Sft!Total)
  /\ sftPc \in {"load", "train", "rotate", "shards"} => Climbs(sftSaved, sftTracker)
  /\ sftPc \in {"data", "tracker"} => Climbs(sftSaved, step)

SftInv ==
  SftTyped /\ SftShards /\ SftPlace /\ SftTracked /\ SftWritten /\ SftSaved

\* What the names of Checkpoints stand for here.
LEMMA SftNames ==
  /\ Sft!Role = "model" /\ Sft!RoleSet = {"model"} /\ Sft!Steps = 1..Sft!Total
  /\ Sft!NoFile = 0 /\ Sft!Torn = -1
  /\ Sft!EmptyFolder \in SftFolder
  /\ \A k \in Ranks : Sft!EmptyFolder.shard["model"][k] = Sft!NoShard
<1>1. Sft!Role = "model" /\ Sft!RoleSet = {"model"}
  BY DEF Sft!Role, Sft!RoleSet
<1>2. Sft!NoShard \in Seq(Int)
  BY DEF Sft!NoShard
<1>. QED
  BY <1>1, <1>2, SftConstants
     DEF Sft!Steps, Sft!NoFile, Sft!Torn, Sft!EmptyFolder, Sft!NoShards, SftFolder

\* Before the first checkpoint there is nothing to remove.
LEMMA NoneSaved == ASSUME NEW top PROVE Climbs(<<>>, top)
BY DEF Climbs

\* A later checkpoint bounds what an earlier one bounds.
LEMMA ClimbsHigher ==
  ASSUME NEW paths, NEW top \in Nat, NEW higher \in Nat, top <= higher, Climbs(paths, top)
  PROVE  Climbs(paths, higher)
<1>1. paths \in Seq(Nat \ {0}) /\ \A i \in DOMAIN paths : paths[i] \in Nat
  BY DEF Climbs
<1>2. \A i \in DOMAIN paths : paths[i] <= higher
  BY <1>1 DEF Climbs
<1>. QED
  BY <1>1, <1>2 DEF Climbs

\* A start loses what was in memory.
LEMMA SftStart == ASSUME SftInv, Sft!Start PROVE SftInv'
<1>1. /\ sftStarts' \in 0..SftMaxStarts /\ sftPc' = "load" /\ sftToSave' = {}
      /\ step' = 0 /\ sftEpoch' = 0 /\ sftPos' = 0 /\ sftSaved' = <<>>
      /\ sftModel' = [k \in Ranks |-> <<>>] /\ UNCHANGED <<sftTracker, sftFolders>>
  BY SftConstants DEF Sft!Start, Sft!disk, SftInv, SftTyped
<1>2. SftTyped'
  BY <1>1, SftConstants DEF SftInv, SftTyped, Saving
<1>3. sftModel' = [k \in Ranks |-> Sft!Batches(step')]
  BY <1>1, BatchesFacts
<1>4. SftPlace' /\ SftShards' /\ SftWritten'
  BY <1>1, <1>3 DEF SftInv, SftPlace, SftShards, SftWritten, Saving
<1>5. SftTracked'
  BY <1>1 DEF SftInv, SftTracked, SftShardsOf, SftDataOf, Saving
<1>6. SftSaved'
  BY <1>1, NoneSaved DEF SftSaved
<1>. QED
  BY <1>2, <1>4, <1>5, <1>6 DEF SftInv

\* A job without a checkpoint begins at the first batch.
LEMMA SftLoadNothing == ASSUME SftInv, Sft!LoadNothing PROVE SftInv'
<1>1. /\ sftPc = "load" /\ sftPc' = "train"
      /\ UNCHANGED <<sftTracker, sftFolders, sftStarts, sftToSave, step, sftEpoch, sftPos,
                     sftModel, sftSaved>>
  BY DEF Sft!LoadNothing, Sft!disk, Sft!progress
<1>2. sftTracker = 0
  BY SftNames, SftConstants DEF Sft!LoadNothing, Sft!FindLatest, SftInv, SftTracked, SftShardsOf, SftTyped
<1>3. step = 0 /\ InEpoch(step, sftEpoch, sftPos)
  BY <1>1, SftConstants DEF SftInv, SftPlace, InEpoch
<1>4. SftTyped'
  BY <1>1 DEF SftInv, SftTyped, Saving
<1>5. SftPlace' /\ SftShards' /\ SftWritten'
  BY <1>1, <1>3 DEF SftInv, SftPlace, SftShards, SftWritten, Saving
<1>6. SftTracked'
  BY <1>1, <1>2, <1>3, SftConstants DEF SftInv, SftTracked, SftShardsOf, SftDataOf, Saving
<1>7. SftSaved'
  BY <1>1 DEF SftInv, SftSaved
<1>. QED
  BY <1>4, <1>5, <1>6, <1>7 DEF SftInv

\* A job that finds a checkpoint can load it.
LEMMA SftFinds ==
  ASSUME SftInv, sftTracker # 0
  PROVE  /\ Sft!FindLatest(sftTracker, sftFolders) = sftTracker
         /\ Sft!Loads(sftFolders[sftTracker])
         /\ sftFolders[sftTracker].data \in 1..SftEpochLen
         /\ sftFolders[sftTracker].data # Sft!Torn
<1>1. sftTracker \in Nat /\ sftTracker > 0 /\ sftTracker \in Sft!Steps
  BY SftConstants, SftNames DEF SftInv, SftTyped
<1>2. sftFolders[sftTracker].here /\ SftShardsOf(sftTracker, Ranks) /\ SftDataOf(sftTracker)
  BY DEF SftInv, SftTracked, SftShardsOf
<1>3. Sft!Loads(sftFolders[sftTracker])
  BY <1>1, <1>2, SftNames, BatchesFacts DEF Sft!Loads, SftShardsOf
<1>4. sftFolders[sftTracker].data \in 1..SftEpochLen
  BY <1>2, SftConstants DEF SftDataOf, InEpoch
<1>. QED
  BY <1>1, <1>2, <1>3, <1>4, SftNames, SftConstants DEF Sft!FindLatest

\* A job goes on in the epoch its checkpoint was saved in.
LEMMA SftLoadCheckpoint == ASSUME SftInv, SavesInEpochs, Sft!LoadCheckpoint PROVE SftInv'
<1>1. sftTracker # 0
  BY SftNames DEF Sft!LoadCheckpoint, Sft!FindLatest
<1>2. /\ sftPc = "load" /\ sftPc' = "train"
      /\ sftModel' = sftFolders[sftTracker].shard["model"] /\ sftPos' = sftFolders[sftTracker].data
      /\ step' = sftTracker /\ sftEpoch' = sftTracker \div SftEpochLen
      /\ UNCHANGED <<sftTracker, sftFolders, sftStarts, sftToSave, sftSaved>>
  BY <1>1, SftFinds, SftNames DEF Sft!LoadCheckpoint, Sft!disk
<1>3. sftTracker \in Sft!Steps /\ sftTracker \in 0..Sft!Total
  BY <1>1, SftConstants, SftNames DEF SftInv, SftTyped
<1>4. PICK e \in Nat : InEpoch(sftTracker, e, sftPos')
  BY <1>1, <1>2 DEF SftInv, SftTracked, SftDataOf
<1>5. \/ sftEpoch' = e /\ InEpoch(sftTracker, e, sftPos')
      \/ sftEpoch' = SftEpochs /\ sftTracker = Sft!Total
  BY <1>1, <1>2, <1>4, EpochLoaded DEF SftInv, SftTracked, SftDataOf
<1>6. sftEpoch' \in 0..SftEpochs /\ sftPos' \in 0..SftEpochLen
  <2>1. e \in 0..SftEpochs /\ sftPos' \in 0..SftEpochLen
    BY <1>4, EpochSteps
  <2>2. SftEpochs \in 0..SftEpochs
    BY SftConstants
  <2>. QED
    BY <1>5, <2>1, <2>2
<1>7. sftModel' = [k \in Ranks |-> Sft!Batches(sftTracker)]
  <2>1. sftModel' \in [Ranks -> Seq(Int)]
    BY <1>2, <1>3 DEF SftInv, SftTyped, SftFolder
  <2>2. \A k \in Ranks : sftModel'[k] = Sft!Batches(sftTracker)
    BY <1>1, <1>2 DEF SftInv, SftTracked, SftShardsOf
  <2>. QED
    BY <2>1, <2>2
<1>8. SftTyped'
  BY <1>2, <1>3, <1>6 DEF SftInv, SftTyped, Saving
<1>9. SftPlace' /\ SftShards' /\ SftWritten'
  BY <1>2, <1>5, <1>7 DEF SftInv, SftPlace, SftShards, SftWritten, Saving
<1>10. SftTracked'
  BY <1>1, <1>2, <1>3 DEF SftInv, SftTracked, SftShardsOf, SftDataOf, Saving
<1>11. SftSaved'
  BY <1>2 DEF SftInv, SftSaved
<1>. QED
  BY <1>8, <1>9, <1>10, <1>11 DEF SftInv

\* A step trains on the batch after the last one.
LEMMA SftTrainStep == ASSUME SftInv, Sft!TrainStep PROVE SftInv'
<1>1. /\ sftPc = "train" /\ sftEpoch < SftEpochs /\ sftPos < SftEpochLen
      /\ sftPos' = sftPos + 1 /\ step' = step + 1
      /\ sftModel' = [k \in Ranks |-> Append(sftModel[k], sftEpoch * SftEpochLen + sftPos + 1)]
      /\ sftPc' = IF Sft!SavesAt(step + 1) THEN "rotate" ELSE "train"
      /\ UNCHANGED <<sftTracker, sftFolders, sftStarts, sftToSave, sftEpoch, sftSaved>>
  BY DEF Sft!TrainStep, Sft!disk
<1>2. InEpoch(step, sftEpoch, sftPos)
  BY <1>1, SftConstants DEF SftInv, SftPlace
<1>3. /\ InEpoch(step + 1, sftEpoch, sftPos + 1) /\ step < Sft!Total
      /\ sftEpoch * SftEpochLen + sftPos + 1 = step + 1
      /\ step \in Nat /\ step + 1 \in 0..Sft!Total /\ sftPos + 1 \in 0..SftEpochLen /\ sftPos + 1 # 0
  <2>1. /\ InEpoch(step + 1, sftEpoch, sftPos + 1) /\ step < Sft!Total
        /\ sftEpoch * SftEpochLen + sftPos + 1 = step + 1
    BY <1>1, <1>2, EpochSteps
  <2>2. step \in Nat /\ sftPos \in Nat
    BY DEF SftInv, SftTyped
  <2>3. step + 1 \in 0..Sft!Total /\ sftPos + 1 \in 0..SftEpochLen
    BY <2>1, EpochSteps
  <2>4. sftPos + 1 # 0
    BY <2>2
  <2>. QED
    BY <2>1, <2>2, <2>3, <2>4
<1>4. sftModel' = [k \in Ranks |-> Sft!Batches(step')]
  <2>1. sftModel = [k \in Ranks |-> Sft!Batches(step)]
    BY <1>1 DEF SftInv, SftPlace
  <2>2. Sft!Batches(step + 1) = Append(Sft!Batches(step), step + 1)
    BY <1>3, BatchesFacts
  <2>. QED
    BY <1>1, <1>3, <2>1, <2>2
<1>5. SftTyped'
  BY <1>1, <1>3 DEF SftInv, SftTyped, Saving
<1>6. SftPlace' /\ SftShards' /\ SftWritten'
  BY <1>1, <1>3, <1>4 DEF SftInv, SftPlace, SftShards, SftWritten, Saving
<1>7. SftTracked'
  <2>1. sftTracker \in Nat /\ sftTracker <= step /\ sftTracker < step + 1
    BY <1>1, <1>3 DEF SftInv, SftTyped, SftTracked
  <2>2. step + 1 = Sft!Total => sftPc' = "rotate"
    BY <1>1, SftConstants DEF Sft!SavesAt
  <2>. QED
    BY <1>1, <1>3, <2>1, <2>2 DEF SftInv, SftTracked, SftShardsOf, SftDataOf, Saving
<1>8. SftSaved'
  BY <1>1 DEF SftInv, SftSaved
<1>. QED
  BY <1>5, <1>6, <1>7, <1>8 DEF SftInv

\* At the end of an epoch the loader is at the first batch again.
LEMMA SftEndEpoch == ASSUME SftInv, Sft!EndEpoch PROVE SftInv'
<1>1. /\ sftPc = "train"
      /\ UNCHANGED <<sftTracker, sftFolders, sftStarts, sftToSave, step, sftModel, sftSaved>>
  BY DEF Sft!EndEpoch, Sft!disk
<1>2. CASE sftEpoch < SftEpochs /\ sftPos = SftEpochLen
  <2>1. sftEpoch' = sftEpoch + 1 /\ sftPos' = 0 /\ sftPc' = "train"
    BY <1>1, <1>2, SftConstants DEF Sft!EndEpoch
  <2>2. InEpoch(step, sftEpoch, sftPos) /\ sftEpoch \in Nat
    BY <1>1, <1>2, SftConstants DEF SftInv, SftPlace, SftTyped
  <2>3. IF sftEpoch' = SftEpochs THEN step = Sft!Total ELSE InEpoch(step, sftEpoch', 0)
    BY <1>2, <2>1, <2>2, EpochSteps
  <2>4. SftTyped'
    BY <1>1, <1>2, <2>1, <2>2, SftConstants DEF SftInv, SftTyped, Saving
  <2>5. SftPlace' /\ SftShards' /\ SftWritten' /\ SftSaved'
    BY <1>1, <2>1, <2>3 DEF SftInv, SftPlace, SftShards, SftWritten, SftSaved, Saving
  <2>6. SftTracked'
    BY <1>1, <2>1 DEF SftInv, SftTracked, SftShardsOf, SftDataOf, Saving
  <2>. QED
    BY <2>4, <2>5, <2>6 DEF SftInv
<1>3. CASE sftEpoch = SftEpochs
  <2>1. sftPc' = "done" /\ UNCHANGED <<sftEpoch, sftPos>>
    BY <1>1, <1>3, SftConstants DEF Sft!EndEpoch
  <2>2. step = Sft!Total
    BY <1>1, <1>3, SftConstants DEF SftInv, SftPlace, InEpoch
  <2>3. SftTyped'
    BY <1>1, <2>1 DEF SftInv, SftTyped, Saving
  <2>4. SftPlace' /\ SftShards' /\ SftWritten' /\ SftSaved'
    BY <1>1, <2>1, <2>2 DEF SftInv, SftPlace, SftShards, SftWritten, SftSaved, Saving
  <2>5. SftTracked'
    BY <1>1, <2>1, <2>2 DEF SftInv, SftTracked, SftShardsOf, SftDataOf, Saving
  <2>. QED
    BY <2>3, <2>4, <2>5 DEF SftInv
<1>. QED
  BY <1>2, <1>3 DEF Sft!EndEpoch

\* What rotation removes is older than the tracked checkpoint.
LEMMA SftOutdated ==
  ASSUME MaxKeep # 1, NEW paths, NEW top \in Nat, Climbs(paths, top)
  PROVE  /\ Climbs(Sft!StillKept(paths), top)
         /\ \A s \in Sft!Range(Sft!Outdated(paths)) : s < top
<1>1. MaxKeep \in Nat /\ Len(paths) \in Nat /\ paths \in Seq(Nat \ {0})
  BY SftConstants DEF Climbs
<1>2. Rotated(paths, Sft!Outdated(paths), Sft!StillKept(paths))
  <2>1. CASE MaxKeep > 0 /\ Len(paths) >= MaxKeep
    <3>. DEFINE n == Len(paths) - MaxKeep + 1
    <3>1. n \in 1..(Len(paths) - 1)
      BY <1>1, <2>1
    <3>2. Sft!Outdated(paths) = SubSeq(paths, 1, n)
      BY <2>1 DEF Sft!Outdated
    <3>3. Len(Sft!Outdated(paths)) = n
      <4>1. n \in Int /\ 1 <= n /\ \A i \in 1..n : paths[i] \in Nat \ {0}
        BY <1>1, <3>1
      <4>2. Len(SubSeq(paths, 1, n)) = n - 1 + 1
        BY <4>1, SubSeqProperties
      <4>. QED
        BY <3>2, <4>1, <4>2
    <3>. QED
      BY <3>1, <3>2, <3>3 DEF Rotated, Sft!StillKept
  <2>2. CASE ~(MaxKeep > 0 /\ Len(paths) >= MaxKeep)
    <3>1. Sft!Outdated(paths) = <<>>
      BY <2>2 DEF Sft!Outdated
    <3>2. Sft!StillKept(paths) = paths
      <4>1. Len(<<>>) + 1 = 1
        OBVIOUS
      <4>. QED
        BY <1>1, <3>1, <4>1, SubSeqFull DEF Sft!StillKept
    <3>. QED
      BY <3>1, <3>2 DEF Rotated
  <2>. QED
    BY <2>1, <2>2
<1>3. Climbs(Sft!StillKept(paths), top) /\ \A i \in DOMAIN Sft!Outdated(paths) : Sft!Outdated(paths)[i] < top
  BY <1>2, RotationKeeps
<1>. QED
  BY <1>3 DEF Sft!Range

\* The other folders stay as they are.
LEMMA SftRotate == ASSUME SftInv, MaxKeep # 1, Sft!Rotate PROVE SftInv'
<1>. DEFINE gone == Sft!Range(Sft!Outdated(sftSaved))
<1>1. /\ sftPc = "rotate" /\ sftPc' = "shards" /\ sftToSave' = Ranks
      /\ sftFolders' = [s \in Sft!Steps |-> IF s \in gone THEN Sft!EmptyFolder
                                            ELSE [sftFolders[s] EXCEPT !.here = @ \/ s = step]]
      /\ sftSaved' = Sft!StillKept(sftSaved)
      /\ UNCHANGED <<sftTracker, sftStarts, step, sftEpoch, sftPos, sftModel>>
  BY DEF Sft!Rotate, Sft!progress
<1>2. /\ sftTracker \in Nat /\ sftTracker < step /\ step \in Sft!Steps /\ Climbs(sftSaved, sftTracker)
      /\ Sft!Total \in Nat /\ sftTracker <= Sft!Total
  BY <1>1, SftConstants, SftNames DEF SftInv, SftTyped, SftTracked, SftSaved, Saving
<1>3. Climbs(sftSaved', sftTracker) /\ \A s \in gone : s < sftTracker
  BY <1>1, <1>2, SftOutdated
<1>. HIDE DEF gone
<1>4. ASSUME NEW s \in Sft!Steps
      PROVE  /\ sftFolders'[s] \in SftFolder
             /\ s \notin gone => sftFolders'[s] = [sftFolders[s] EXCEPT !.here = @ \/ s = step]
             /\ s \in gone => sftFolders'[s] = Sft!EmptyFolder
  BY <1>1, SftNames DEF SftInv, SftTyped, SftFolder
<1>5. SftTyped'
  BY <1>1, <1>4 DEF SftInv, SftTyped, Saving
<1>6. SftShards'
  <2>. SUFFICES ASSUME NEW s \in Sft!Steps, NEW k \in Ranks
                PROVE  sftFolders'[s].shard["model"][k] \in {Sft!NoShard, Sft!TornShard, Sft!Batches(s)}
    BY DEF SftShards
  <2>1. CASE s \in gone
    BY <1>4, <2>1, SftNames
  <2>2. CASE s \notin gone
    <3>1. sftFolders'[s].shard = sftFolders[s].shard
      BY <1>4, <2>2 DEF SftInv, SftTyped, SftFolder
    <3>. QED
      BY <3>1 DEF SftInv, SftShards
  <2>. QED
    BY <2>1, <2>2
<1>7. SftPlace'
  BY <1>1 DEF SftInv, SftPlace, Saving
<1>8. SftTracked'
  <2>1. CASE sftTracker = 0
    BY <1>1, <2>1 DEF SftInv, SftTracked, Saving
  <2>2. CASE sftTracker # 0
    <3>1. sftTracker \in Sft!Steps /\ sftTracker \notin gone
      BY <1>2, <1>3, <2>2, SftNames
    <3>2. sftFolders'[sftTracker].here = (sftFolders[sftTracker].here \/ sftTracker = step)
          /\ sftFolders'[sftTracker].shard = sftFolders[sftTracker].shard
          /\ sftFolders'[sftTracker].data = sftFolders[sftTracker].data
      BY <1>4, <3>1 DEF SftInv, SftTyped, SftFolder
    <3>. QED
      BY <1>1, <3>2 DEF SftInv, SftTracked, SftShardsOf, SftDataOf, Saving
  <2>. QED
    BY <2>1, <2>2
<1>9. SftWritten'
  <2>1. step \notin gone
    BY <1>2, <1>3, SftNames
  <2>2. sftFolders'[step].here
    BY <1>2, <1>4, <2>1 DEF SftInv, SftTyped, SftFolder
  <2>. QED
    BY <1>1, <2>2 DEF SftWritten, SftShardsOf
<1>10. SftSaved'
  BY <1>1, <1>2, <1>3, ClimbsHigher DEF SftSaved
<1>. QED
  BY <1>5, <1>6, <1>7, <1>8, <1>9, <1>10 DEF SftInv

\* A rank writes its own shard of this step.
LEMMA SftSaveShard == ASSUME SftInv, NEW k \in Ranks, Sft!SaveShard(k) PROVE SftInv'
<1>1. /\ sftPc = "shards" /\ sftPc' = "shards" /\ sftToSave' = sftToSave \ {k}
      /\ sftFolders' = [sftFolders EXCEPT ![step].shard["model"][k] = sftModel[k]]
      /\ UNCHANGED <<sftTracker, sftStarts, step, sftEpoch, sftPos, sftModel, sftSaved>>
  BY SftNames DEF Sft!SaveShard, Sft!progress
<1>2. /\ sftTracker \in Nat /\ sftTracker < step /\ step \in Sft!Steps /\ step \in Nat
      /\ sftModel[k] = Sft!Batches(step)
  BY <1>1, SftConstants, SftNames DEF SftInv, SftTyped, SftTracked, SftPlace, Saving
<1>3. ASSUME NEW s \in Sft!Steps
      PROVE  /\ sftFolders'[s] \in SftFolder
             /\ sftFolders'[s].here = sftFolders[s].here /\ sftFolders'[s].data = sftFolders[s].data
             /\ s # step => sftFolders'[s].shard = sftFolders[s].shard
             /\ \A j \in Ranks : j # k => sftFolders'[s].shard["model"][j] = sftFolders[s].shard["model"][j]
             /\ sftFolders'[step].shard["model"][k] = Sft!Batches(step)
  <2>1. sftFolders[s] \in SftFolder /\ sftFolders[step] \in SftFolder /\ Sft!Batches(step) \in Seq(Int)
    BY <1>2, BatchesFacts DEF SftInv, SftTyped
  <2>2. CASE s # step
    BY <1>1, <1>2, <2>1, <2>2 DEF SftInv, SftTyped, SftFolder
  <2>3. CASE s = step
    BY <1>1, <1>2, <2>1, <2>3 DEF SftInv, SftTyped, SftFolder
  <2>. QED
    BY <2>2, <2>3
<1>4. SftTyped'
  <2>1. sftFolders' \in [Sft!Steps -> SftFolder]
    BY <1>1, <1>3 DEF SftInv, SftTyped
  <2>. QED
    BY <1>1, <2>1 DEF SftInv, SftTyped, Saving
<1>5. SftShards'
  BY <1>3 DEF SftInv, SftShards
<1>6. SftPlace' /\ SftSaved'
  BY <1>1 DEF SftInv, SftPlace, SftSaved, Saving
<1>7. SftTracked'
  <2>1. sftTracker # 0 => sftTracker \in Sft!Steps /\ sftTracker # step
    BY <1>2, SftNames DEF SftInv, SftTyped
  <2>. QED
    BY <1>1, <1>3, <2>1 DEF SftInv, SftTracked, SftShardsOf, SftDataOf, Saving
<1>8. SftWritten'
  BY <1>1, <1>2, <1>3 DEF SftInv, SftWritten, SftShardsOf
<1>. QED
  BY <1>4, <1>5, <1>6, <1>7, <1>8 DEF SftInv

\* The barrier after the shards.
LEMMA SftAllSaved == ASSUME SftInv, Sft!AllSaved PROVE SftInv'
<1>1. /\ sftPc = "shards" /\ sftPc' = "data" /\ sftToSave = {} /\ sftSaved' = Append(sftSaved, step)
      /\ UNCHANGED <<sftTracker, sftFolders, sftStarts, sftToSave, step, sftEpoch, sftPos, sftModel>>
  BY DEF Sft!AllSaved, Sft!disk, Sft!progress
<1>2. /\ sftTracker \in Nat /\ sftTracker < step /\ step \in Nat \ {0} /\ Climbs(sftSaved, sftTracker)
      /\ Sft!Total \in Nat /\ step <= Sft!Total
  BY <1>1, SftConstants, SftNames DEF SftInv, SftTyped, SftTracked, SftSaved, Saving
<1>3. SftSaved'
  BY <1>1, <1>2, ClimbsOn, ClimbsHigher DEF SftSaved
<1>4. SftTyped' /\ SftShards' /\ SftPlace'
  BY <1>1 DEF SftInv, SftTyped, SftShards, SftPlace, Saving
<1>5. SftTracked'
  BY <1>1 DEF SftInv, SftTracked, SftShardsOf, SftDataOf, Saving
<1>6. SftWritten'
  BY <1>1 DEF SftInv, SftWritten, SftShardsOf
<1>. QED
  BY <1>3, <1>4, <1>5, <1>6 DEF SftInv

\* The loader's position is this step's.
LEMMA SftSaveData == ASSUME SftInv, Sft!SaveData PROVE SftInv'
<1>1. /\ sftPc = "data" /\ sftPc' = "tracker"
      /\ sftFolders' = [sftFolders EXCEPT ![step].data = sftPos]
      /\ UNCHANGED <<sftTracker, sftStarts, sftToSave, step, sftEpoch, sftPos, sftModel, sftSaved>>
  BY DEF Sft!SaveData, Sft!progress
<1>2. /\ sftTracker \in Nat /\ sftTracker < step /\ step \in Sft!Steps
      /\ sftPos \in 0..SftEpochLen
  BY <1>1, SftConstants, SftNames DEF SftInv, SftTyped, SftTracked, Saving
<1>3. ASSUME NEW s \in Sft!Steps
      PROVE  /\ sftFolders'[s] \in SftFolder
             /\ sftFolders'[s].here = sftFolders[s].here /\ sftFolders'[s].shard = sftFolders[s].shard
             /\ s # step => sftFolders'[s].data = sftFolders[s].data
             /\ sftFolders'[step].data = sftPos
  <2>1. sftFolders \in [Sft!Steps -> SftFolder]
    BY DEF SftInv, SftTyped
  <2>2. sftFolders[s] \in SftFolder /\ sftFolders[step] \in SftFolder
    BY <1>2, <2>1
  <2>3. sftFolders'[s] = IF s = step THEN [sftFolders[s] EXCEPT !.data = sftPos] ELSE sftFolders[s]
    BY <1>1, <1>2, <2>1
  <2>4. sftFolders'[step] = [sftFolders[step] EXCEPT !.data = sftPos]
    BY <1>1, <1>2, <2>1
  <2>. QED
    BY <1>2, <2>2, <2>3, <2>4 DEF SftFolder
<1>4. SftTyped'
  <2>1. sftFolders' \in [Sft!Steps -> SftFolder]
    BY <1>1, <1>3 DEF SftInv, SftTyped
  <2>. QED
    BY <1>1, <2>1 DEF SftInv, SftTyped, Saving
<1>5. SftShards' /\ SftPlace' /\ SftSaved'
  BY <1>1, <1>3 DEF SftInv, SftShards, SftPlace, SftSaved, Saving
<1>6. SftTracked'
  <2>1. sftTracker # 0 => sftTracker \in Sft!Steps /\ sftTracker # step
    BY <1>2, SftNames DEF SftInv, SftTyped
  <2>. QED
    BY <1>1, <1>3, <2>1 DEF SftInv, SftTracked, SftShardsOf, SftDataOf, Saving
<1>7. SftWritten'
  BY <1>1, <1>2, <1>3 DEF SftInv, SftWritten, SftShardsOf
<1>. QED
  BY <1>4, <1>5, <1>6, <1>7 DEF SftInv

\* The tracker names the step only when all of it is written.
LEMMA SftRenameTracker == ASSUME SftInv, Sft!RenameTracker PROVE SftInv'
<1>1. /\ sftPc = "tracker" /\ sftTracker' = step
      /\ sftPc' = IF step >= Sft!Total THEN "done" ELSE "train"
      /\ UNCHANGED <<sftFolders, sftStarts, sftToSave, step, sftEpoch, sftPos, sftModel, sftSaved>>
  BY DEF Sft!RenameTracker, Sft!progress
<1>2. /\ step \in Nat /\ step <= Sft!Total /\ Sft!Total \in Nat /\ sftEpoch \in Nat
      /\ (step >= Sft!Total <=> step = Sft!Total)
  BY SftConstants DEF SftInv, SftTyped
<1>3. SftTyped' /\ SftShards'
  BY <1>1, <1>2 DEF SftInv, SftTyped, SftShards, Saving
<1>4. SftPlace' /\ SftSaved' /\ SftWritten'
  BY <1>1 DEF SftInv, SftPlace, SftSaved, SftWritten, Saving
<1>5. SftShardsOf(step, Ranks)' /\ SftDataOf(step)'
  BY <1>1, <1>2 DEF SftInv, SftPlace, SftWritten, SftShardsOf, SftDataOf, Saving, Sft!SavesAt
<1>6. SftTracked'
  BY <1>1, <1>2, <1>5 DEF SftTracked, SftShardsOf, SftDataOf, Saving
<1>. QED
  BY <1>3, <1>4, <1>6 DEF SftInv

\* The file that is written when the job dies is none of the tracked ones.
LEMMA SftCrash == ASSUME SftInv, Sft!Crash PROVE SftInv'
<1>1. /\ sftPc' = "off"
      /\ UNCHANGED <<sftTracker, sftStarts, sftToSave, step, sftEpoch, sftPos, sftModel, sftSaved>>
  BY DEF Sft!Crash, Sft!progress
<1>2. /\ sftPc \in Saving => /\ sftTracker < step /\ step \in Sft!Steps
      /\ sftTracker \in Nat
  BY SftConstants, SftNames DEF SftInv, SftTyped, SftTracked
<1>. DEFINE Dying(s) ==
       /\ sftFolders'[s] \in SftFolder
       /\ sftFolders'[s] = sftFolders[s] \/ (sftPc \in Saving /\ s = step)
       /\ \A k \in Ranks :
            sftFolders'[s].shard["model"][k] \in {sftFolders[s].shard["model"][k], Sft!TornShard}
<1>3. ASSUME NEW s \in Sft!Steps
      PROVE  Dying(s)
  <2>0. sftFolders \in [Sft!Steps -> SftFolder] /\ sftFolders[s] \in SftFolder
    BY DEF SftInv, SftTyped
  <2>1. CASE sftFolders' = sftFolders
    BY <2>0, <2>1
  <2>2. ASSUME NEW torn \in SUBSET sftToSave, sftPc = "shards",
               sftFolders' = [sftFolders EXCEPT ![step].shard["model"] =
                 [k \in Ranks |-> IF k \in torn THEN Sft!TornShard ELSE sftFolders[step].shard["model"][k]]]
        PROVE  Dying(s)
    <3>1. Sft!TornShard \in Seq(Int) /\ step \in Sft!Steps
      BY <1>2, <2>2 DEF Sft!TornShard, Saving
    <3>2. CASE s # step
      BY <2>0, <2>2, <3>1, <3>2
    <3>3. CASE s = step
      BY <2>0, <2>2, <3>1, <3>3 DEF SftFolder, Saving
    <3>. QED
      BY <3>2, <3>3
  <2>3. ASSUME sftPc = "data", sftFolders' = [sftFolders EXCEPT ![step].data = -1]
        PROVE  Dying(s)
    BY <1>2, <2>0, <2>3 DEF SftFolder, Saving
  <2>. QED
    BY <2>1, <2>2, <2>3, SftNames DEF Sft!Crash
<1>4. SftTyped'
  <2>1. sftFolders' \in [Sft!Steps -> SftFolder]
    <3>1. DOMAIN sftFolders' = Sft!Steps
      BY DEF Sft!Crash, SftInv, SftTyped
    <3>. QED
      BY <1>3, <3>1 DEF Sft!Crash, SftInv, SftTyped
  <2>. QED
    BY <1>1, <2>1 DEF SftInv, SftTyped, Saving
<1>5. SftShards'
  BY <1>3 DEF SftInv, SftShards
<1>6. SftPlace' /\ SftSaved' /\ SftWritten'
  BY <1>1 DEF SftInv, SftPlace, SftSaved, SftWritten, Saving
<1>7. SftTracked'
  <2>1. sftTracker # 0 => sftTracker \in Sft!Steps /\ sftFolders'[sftTracker] = sftFolders[sftTracker]
    BY <1>2, <1>3, SftNames, SftConstants DEF SftInv, SftTyped
  <2>. QED
    BY <1>1, <2>1 DEF SftInv, SftTracked, SftShardsOf, SftDataOf, Saving
<1>. QED
  BY <1>4, <1>5, <1>6, <1>7 DEF SftInv

(***************************************************************************)
(* PpoTrainer.                                                             *)
(***************************************************************************)

\* The position of the data loader after n batches, n > 0.
DataAt(n) == ((n - 1) % PpoEpochLen) + 1

PpoModel(n) == [o \in Ppo!RoleSet |-> [k \in Ranks |-> Ppo!Learned(o, n)]]

PpoFolder ==
  [here : BOOLEAN, shard : [Ppo!RoleSet -> [Ranks -> Seq(Int)]],
   data : (0..PpoEpochLen) \cup {-1}]

PpoTyped ==
  /\ ppoTracker \in (0..(Ppo!Total + ppoStarts)) \cup {-1}
  /\ ppoFolders \in [Ppo!Steps -> PpoFolder]
  /\ ppoStarts \in 0..PpoMaxStarts
  /\ ppoPc \in {"off", "load", "train", "done", "error"} \cup Saving
  /\ asked \in DOMAIN PpoRoles /\ ppoToSave \subseteq Ranks
  /\ ppoSteps \in 0..(Ppo!Total + ppoStarts + 1)
  /\ ppoEpoch \in 0..PpoEpochs /\ ppoPos \in 0..PpoEpochLen

\* The shards of a step have learned its batches, if they are there.
PpoShards ==
  \A s \in Ppo!Steps, o \in Ppo!RoleSet, k \in Ranks :
    ppoFolders[s].shard[o][k] \in {Ppo!NoShard, Ppo!TornShard, Ppo!Learned(o, s + 1)}

\* Where the driver and its loader are, and what the ranks have learned.
PpoPlace ==
  /\ ppoPc = "load" => ppoEpoch = 0 /\ ppoPos = 0 /\ ppoModel = Ppo!Untrained
  /\ ppoPc \in {"train"} \cup Saving =>
       ppoEpoch < PpoEpochs /\ ppoSteps \in 1..(Ppo!Total + ppoStarts)
  /\ ppoPc = "train" =>
       /\ ppoPos % PpoEpochLen = (ppoSteps - 1) % PpoEpochLen
       /\ ppoModel = PpoModel(ppoSteps)
  /\ ppoPc \in Saving => ppoPos = DataAt(ppoSteps) /\ ppoModel = PpoModel(ppoSteps + 1)

PpoShardsOf(s, o, ranks) ==
  \A k \in ranks : ppoFolders[s].shard[o][k] = Ppo!Learned(o, s + 1)

\* What the tracker names is whole, and not much earlier than the job.
PpoTracked ==
  /\ ppoTracker > 0 =>
       /\ ppoFolders[ppoTracker].here
       /\ \A o \in Ppo!RoleSet : PpoShardsOf(ppoTracker, o, Ranks)
       /\ ppoFolders[ppoTracker].data = DataAt(ppoTracker)
  /\ ppoPc = "load" => ppoTracker < Ppo!Total + ppoStarts
  /\ ppoPc \in {"train"} \cup Saving => 0 <= ppoTracker /\ ppoTracker < ppoSteps
  /\ ppoPc = "train" => (ppoSteps - 1) - ppoTracker <= (ppoSteps - 1) % PpoSaveFreq

\* The group at place i has saved its checkpoint of this step.
HasSaved(i) == ppoPc \in {"data", "tracker"} \/ (ppoPc \in {"rotate", "shards"} /\ i < asked)

\* What is written already of the checkpoint of this step.
PpoWritten ==
  /\ ppoPc \in {"shards", "data", "tracker"} => ppoFolders[ppoSteps].here
  /\ \A i \in DOMAIN PpoRoles : HasSaved(i) => PpoShardsOf(ppoSteps, PpoRoles[i], Ranks)
  /\ ppoPc = "shards" => PpoShardsOf(ppoSteps, PpoRoles[asked], Ranks \ ppoToSave)
  /\ ppoPc = "tracker" => ppoFolders[ppoSteps].data = ppoPos

\* The checkpoints a group has saved end with the tracked one, or with this.
PpoSaved ==
  /\ ppoSaved \in [Ppo!RoleSet -> Seq(Ppo!Steps)]
  /\ ppoPc = "load" => \A o \in Ppo!RoleSet : ppoSaved[o] = <<>>
  /\ ppoPc \in {"train"} \cup Saving =>
       \A i \in DOMAIN PpoRoles :
         Climbs(ppoSaved[PpoRoles[i]], IF HasSaved(i) THEN ppoSteps ELSE ppoTracker)

PpoInv ==
  PpoTyped /\ PpoShards /\ PpoPlace /\ PpoTracked /\ PpoWritten /\ PpoSaved

\* The numbers of the job are positive.
LEMMA PpoConstants ==
  /\ PpoEpochLen \in Nat \ {0} /\ PpoEpochs \in Nat \ {0} /\ PpoSaveFreq \in Nat \ {0}
  /\ PpoMaxStarts \in Nat /\ MaxKeep \in Nat /\ Warmup \in Nat /\ MayExpire \in BOOLEAN
  /\ Ppo!Total \in Nat \ {0}
<1>1. /\ PpoEpochLen \in Nat \ {0} /\ PpoEpochs \in Nat \ {0} /\ PpoSaveFreq \in Nat \ {0}
      /\ PpoMaxStarts \in Nat /\ MaxKeep \in Nat /\ Warmup \in Nat /\ MayExpire \in BOOLEAN
  BY TrainingAssumption DEF Ppo!PpoTrainerAssumption, Ppo!CheckpointsAssumption
<1>2. \A a, b \in Nat \ {0} : a * b \in Nat \ {0}
  OBVIOUS
<1>. QED
  BY <1>1, <1>2 DEF Ppo!Total

\* What the names of Checkpoints stand for here; the groups are told apart.
LEMMA PpoNames ==
  /\ DOMAIN PpoRoles = 1..Len(PpoRoles) /\ Len(PpoRoles) \in Nat \ {0} /\ 1 \in DOMAIN PpoRoles
  /\ \A i \in DOMAIN PpoRoles : PpoRoles[i] \in Ppo!RoleSet
  /\ \A o \in Ppo!RoleSet : \E i \in DOMAIN PpoRoles : PpoRoles[i] = o
  /\ \A i, j \in DOMAIN PpoRoles : PpoRoles[i] = PpoRoles[j] => i = j
  /\ Ppo!Steps = 1..(Ppo!Total + PpoMaxStarts) /\ Ppo!NoFile = 0 /\ Ppo!Torn = -1
  /\ Ppo!NoShards \in [Ppo!RoleSet -> [Ranks -> Seq(Int)]]
  /\ \A o \in Ppo!RoleSet, k \in Ranks : Ppo!NoShards[o][k] = Ppo!NoShard
  /\ Ppo!NoShard \in Seq(Int) /\ Ppo!TornShard \in Seq(Int)
  /\ Ppo!EmptyFolder \in PpoFolder
<1>1. Ppo!NoShard \in Seq(Int) /\ Ppo!TornShard \in Seq(Int)
  BY DEF Ppo!NoShard, Ppo!TornShard
<1>2. /\ Ppo!NoShards \in [Ppo!RoleSet -> [Ranks -> Seq(Int)]]
      /\ \A o \in Ppo!RoleSet, k \in Ranks : Ppo!NoShards[o][k] = Ppo!NoShard
  BY <1>1 DEF Ppo!NoShards
<1>3. CASE UseCritic
  <2>1. PpoRoles = <<"actor", "critic">>
    BY <1>3 DEF PpoRoles
  <2>. QED
    BY <1>1, <1>2, <2>1, PpoConstants
       DEF Ppo!RoleSet, Ppo!Steps, Ppo!NoFile, Ppo!Torn, Ppo!EmptyFolder, PpoFolder
<1>4. CASE ~UseCritic
  <2>1. PpoRoles = <<"actor">>
    BY <1>4 DEF PpoRoles
  <2>. QED
    BY <1>1, <1>2, <2>1, PpoConstants
       DEF Ppo!RoleSet, Ppo!Steps, Ppo!NoFile, Ppo!Torn, Ppo!EmptyFolder, PpoFolder
<1>. QED
  BY <1>3, <1>4

\* A remainder is known by its quotient.
LEMMA RemainderIs ==
  ASSUME NEW n \in Int, NEW m \in Nat \ {0}, NEW q \in Int, NEW r \in 0..(m - 1), n = q * m + r
  PROVE  n % m = r
OBVIOUS

\* The remainder after one more.
LEMMA OneMore ==
  ASSUME NEW n \in Nat, NEW m \in Nat \ {0}
  PROVE  /\ n % m \in 0..(m - 1)
         /\ ((n % m) + 1) % m = (n + 1) % m
         /\ (n + 1) % m # 0 => (n + 1) % m = (n % m) + 1
<1>. DEFINE r == n % m
            q == n \div m
<1>1. r \in 0..(m - 1) /\ q \in Int /\ n = q * m + r
  OBVIOUS
<1>. HIDE DEF r, q
<1>2. CASE r + 1 < m
  <2>1. n + 1 = q * m + (r + 1) /\ r + 1 = 0 * m + (r + 1) /\ r + 1 \in 0..(m - 1)
    BY <1>1, <1>2
  <2>2. (n + 1) % m = r + 1 /\ (r + 1) % m = r + 1
    BY <2>1, <1>1, RemainderIs
  <2>. QED
    BY <1>1, <2>2 DEF r
<1>3. CASE ~(r + 1 < m)
  <2>1. n + 1 = (q + 1) * m + 0 /\ r + 1 = 1 * m + 0 /\ 0 \in 0..(m - 1)
    BY <1>1, <1>3
  <2>2. (n + 1) % m = 0 /\ (r + 1) % m = 0
    <3>1. q + 1 \in Int /\ n + 1 \in Int /\ r + 1 \in Int
      BY <1>1
    <3>2. (n + 1) % m = 0
      BY <2>1, <3>1, RemainderIs
    <3>3. (r + 1) % m = 0
      BY <2>1, <3>1, RemainderIs
    <3>. QED
      BY <3>2, <3>3
  <2>. QED
    BY <1>1, <2>2 DEF r
<1>. QED
  BY <1>2, <1>3

\* The position of the loader starts anew with every epoch.
LEMMA DataAtFacts ==
  ASSUME NEW n \in Nat \ {0}
  PROVE  /\ DataAt(n) \in 1..PpoEpochLen
         /\ DataAt(n) % PpoEpochLen = ((n + 1) - 1) % PpoEpochLen
         /\ \A p \in 0..PpoEpochLen :
              p < PpoEpochLen /\ p % PpoEpochLen = (n - 1) % PpoEpochLen => p + 1 = DataAt(n)
<1>. DEFINE L == PpoEpochLen
            r == (n - 1) % L
<1>1. L \in Nat \ {0} /\ n - 1 \in Nat
  BY PpoConstants
<1>2. r \in 0..(L - 1) /\ (r + 1) % L = ((n - 1) + 1) % L
  BY <1>1, OneMore
<1>3. (n - 1) + 1 = n /\ (n + 1) - 1 = n
  OBVIOUS
<1>4. \A p \in 0..L : p < L => p % L = p
  BY <1>1
<1>. QED
  BY <1>1, <1>2, <1>3, <1>4 DEF DataAt

\* What a role has learned grows with the batch of a step it learns from.
LEMMA LearnedFacts ==
  ASSUME NEW o, NEW n \in Nat \ {0}
  PROVE  /\ Ppo!Learned(o, n) \in Seq(Nat \ {0}) /\ Ppo!Learned(o, n) \in Seq(Int)
         /\ Len(Ppo!Learned(o, n)) <= n - 1
         /\ Ppo!Learned(o, n) \notin {Ppo!NoShard, Ppo!TornShard}
         /\ Ppo!Learned(o, 1) = <<>>
         /\ Ppo!Learned(o, n + 1) =
              IF o = "critic" \/ Warmup <= n THEN Append(Ppo!Learned(o, n), DataAt(n))
              ELSE Ppo!Learned(o, n)
<1>. DEFINE sk == IF o = "critic" THEN 0 ELSE IF Warmup = 0 THEN 0 ELSE Warmup - 1
            F(m) == Ppo!FirstBatches(m)
            G(m) == Ppo!Learned(o, m)
<1>1. sk \in Nat /\ (o = "critic" \/ Warmup <= n <=> sk < n)
  BY PpoConstants
<1>2. ASSUME NEW m \in Nat
      PROVE  /\ F(m) \in Seq(Nat \ {0}) /\ Len(F(m)) = m
             /\ \A i \in 1..m : F(m)[i] = DataAt(i) /\ F(m)[i] \in Nat \ {0}
  <2>1. \A i \in 1..m : DataAt(i) \in Nat \ {0}
    BY DataAtFacts, PpoConstants
  <2>2. F(m) = [i \in 1..m |-> DataAt(i)]
    BY DEF Ppo!FirstBatches, DataAt
  <2>. QED
    BY <2>1, <2>2
<1>3. ASSUME NEW m \in Nat \ {0}
      PROVE  /\ G(m) \in Seq(Nat \ {0})
             /\ Len(G(m)) = IF sk + 1 <= m - 1 THEN m - 1 - sk ELSE 0
             /\ \A i \in 1..(m - 1 - sk) : G(m)[i] = DataAt(sk + i)
  <2>1. G(m) = SubSeq(F(m - 1), sk + 1, m - 1)
    BY DEF Ppo!Learned
  <2>2. m - 1 \in Nat /\ sk + 1 \in Int /\ m - 1 \in Int
    BY <1>1
  <2>3. \A i \in 1..(m - 1) : F(m - 1)[i] = DataAt(i) /\ F(m - 1)[i] \in Nat \ {0}
    BY <1>2, <2>2
  <2>4. \A i \in (sk + 1)..(m - 1) : F(m - 1)[i] \in Nat \ {0}
    <3>1. \A i \in (sk + 1)..(m - 1) : i \in 1..(m - 1)
      BY <1>1, <2>2
    <3>. QED
      BY <2>3, <3>1
  <2>. HIDE DEF sk, F, G
  <2>5. /\ G(m) \in Seq(Nat \ {0})
        /\ Len(G(m)) = IF sk + 1 <= m - 1 THEN (m - 1) - (sk + 1) + 1 ELSE 0
        /\ \A i \in 1..((m - 1) - (sk + 1) + 1) : G(m)[i] = F(m - 1)[(sk + 1) + i - 1]
    BY <2>1, <2>2, <2>4, SubSeqProperties
  <2>6. (m - 1) - (sk + 1) + 1 = m - 1 - sk
    BY <1>1, <2>2
  <2>7. ASSUME NEW i \in 1..(m - 1 - sk)
        PROVE  (sk + 1) + i - 1 = sk + i /\ sk + i \in 1..(m - 1)
    BY <1>1, <2>2
  <2>. QED
    BY <2>3, <2>5, <2>6, <2>7
<1>. HIDE DEF G, F
<1>4. G(n) \in Seq(Nat \ {0}) /\ Len(G(n)) <= n - 1
  BY <1>1, <1>3
<1>5. G(1) = <<>>
  <2>1. 1 \in Nat \ {0} /\ ~(sk + 1 <= 1 - 1)
    BY <1>1
  <2>2. G(1) \in Seq(Nat \ {0}) /\ Len(G(1)) = 0
    BY <1>3, <2>1
  <2>. QED
    BY <2>2, EmptySeq
<1>6. G(n) \notin {Ppo!NoShard, Ppo!TornShard}
  <2>1. \A s \in Seq(Nat \ {0}) : Len(s) = 1 => s[1] \in Nat \ {0}
    OBVIOUS
  <2>. QED
    BY <1>4, <2>1 DEF Ppo!NoShard, Ppo!TornShard
<1>7. CASE sk < n
  <2>. DEFINE a == Append(G(n), DataAt(n))
              l == n - 1 - sk
  <2>1. /\ n + 1 \in Nat \ {0} /\ (n + 1) - 1 - sk = l + 1 /\ l \in Nat /\ n = sk + (l + 1)
        /\ sk + 1 <= (n + 1) - 1 /\ (sk + 1 <= n - 1 <=> l > 0)
    BY <1>1, <1>7
  <2>2. Len(G(n)) = l /\ Len(G(n + 1)) = l + 1 /\ G(n + 1) \in Seq(Nat \ {0})
    <3>1. Len(G(n)) = IF sk + 1 <= n - 1 THEN l ELSE 0
      BY <1>3
    <3>2. /\ G(n + 1) \in Seq(Nat \ {0})
          /\ Len(G(n + 1)) = IF sk + 1 <= (n + 1) - 1 THEN (n + 1) - 1 - sk ELSE 0
      BY <1>3, <2>1
    <3>. HIDE DEF l
    <3>. QED
      BY <2>1, <3>1, <3>2
  <2>3. /\ \A i \in 1..l : G(n)[i] = DataAt(sk + i)
        /\ \A i \in 1..(l + 1) : G(n + 1)[i] = DataAt(sk + i)
    BY <1>3, <2>1
  <2>. HIDE DEF l
  <2>4. DataAt(n) \in Nat \ {0}
    BY DataAtFacts, PpoConstants
  <2>5. /\ a \in Seq(Nat \ {0}) /\ Len(a) = l + 1 /\ a[l + 1] = DataAt(n)
        /\ \A i \in 1..l : a[i] = G(n)[i]
    <3>1. \A s \in Seq(Nat \ {0}), d \in Nat \ {0} :
             /\ Append(s, d) \in Seq(Nat \ {0}) /\ Len(Append(s, d)) = Len(s) + 1
             /\ Append(s, d)[Len(s) + 1] = d
             /\ \A i \in 1..Len(s) : Append(s, d)[i] = s[i]
      BY AppendProperties
    <3>2. G(n) \in Seq(Nat \ {0}) /\ Len(G(n)) = l
      BY <1>4, <2>2
    <3>. HIDE DEF G
    <3>. QED
      BY <2>4, <3>1, <3>2
  <2>. HIDE DEF a
  <2>6. ASSUME NEW i \in 1..(l + 1)
        PROVE  G(n + 1)[i] = a[i]
    <3>1. CASE i = l + 1
      BY <2>1, <2>3, <2>5, <3>1
    <3>2. CASE i \in 1..l
      BY <2>3, <2>5, <3>2
    <3>3. i = l + 1 \/ i \in 1..l
      BY <2>1
    <3>. QED
      BY <3>1, <3>2, <3>3
  <2>7. G(n + 1) = a
    BY <2>2, <2>5, <2>6, SeqEqual
  <2>8. G(n) \in Seq(Int)
    BY <1>4
  <2>9. o = "critic" \/ Warmup <= n
    BY <1>1, <1>7
  <2>. QED
    BY <1>4, <1>5, <1>6, <2>7, <2>8, <2>9 DEF G, a
<1>8. CASE ~(sk < n)
  <2>1. n + 1 \in Nat \ {0} /\ ~(sk + 1 <= n - 1) /\ ~(sk + 1 <= (n + 1) - 1)
    BY <1>1, <1>8
  <2>2. Len(G(n)) = 0 /\ Len(G(n + 1)) = 0 /\ G(n + 1) \in Seq(Nat \ {0})
    BY <1>3, <2>1
  <2>3. G(n + 1) = G(n)
    BY <1>4, <2>2, EmptySeq
  <2>4. G(n) \in Seq(Int)
    BY <1>4
  <2>5. ~(o = "critic" \/ Warmup <= n)
    BY <1>1, <1>8
  <2>. QED
    BY <1>4, <1>5, <1>6, <2>3, <2>4, <2>5 DEF G
<1>. QED
  BY <1>7, <1>8

\* A start loses what was in memory.
LEMMA PpoStart == ASSUME PpoInv, Ppo!Start PROVE PpoInv'
<1>1. /\ ppoStarts \in Nat /\ ppoStarts' = ppoStarts + 1 /\ ppoStarts + 1 \in 0..PpoMaxStarts
      /\ ppoPc' = "load" /\ asked' = 1 /\ ppoToSave' = {}
      /\ ppoSteps' = 0 /\ ppoEpoch' = 0 /\ ppoPos' = 0 /\ ppoModel' = Ppo!Untrained
      /\ ppoSaved' = [o \in Ppo!RoleSet |-> <<>>] /\ UNCHANGED <<ppoTracker, ppoFolders>>
  BY PpoConstants DEF Ppo!Start, Ppo!disk, PpoInv, PpoTyped
<1>2. ppoTracker \in (0..(Ppo!Total + ppoStarts')) \cup {-1} /\ ppoTracker < Ppo!Total + ppoStarts'
  BY <1>1, PpoConstants DEF PpoInv, PpoTyped
<1>3. PpoTyped'
  BY <1>1, <1>2, PpoConstants, PpoNames DEF PpoInv, PpoTyped, Saving
<1>4. PpoPlace' /\ PpoShards'
  BY <1>1 DEF PpoInv, PpoPlace, PpoShards, Saving
<1>5. PpoTracked'
  BY <1>1, <1>2 DEF PpoInv, PpoTracked, PpoShardsOf, Saving
<1>6. PpoWritten' /\ PpoSaved'
  BY <1>1 DEF PpoWritten, PpoSaved, HasSaved, Saving
<1>. QED
  BY <1>3, <1>4, <1>5, <1>6 DEF PpoInv

\* A job that may not find its checkpoint ends.
LEMMA PpoLoadFails == ASSUME PpoInv, Ppo!LoadFails PROVE PpoInv'
<1>1. /\ ppoPc' = "error"
      /\ UNCHANGED <<ppoTracker, ppoFolders, ppoStarts, asked, ppoToSave, ppoSteps, ppoEpoch, ppoPos,
                     ppoModel, ppoSaved>>
  BY DEF Ppo!LoadFails, Ppo!disk, Ppo!progress
<1>2. PpoTyped' /\ PpoPlace' /\ PpoShards'
  BY <1>1 DEF PpoInv, PpoTyped, PpoPlace, PpoShards, Saving
<1>3. PpoTracked' /\ PpoWritten' /\ PpoSaved'
  BY <1>1 DEF PpoInv, PpoTracked, PpoShardsOf, PpoWritten, PpoSaved, HasSaved, Saving
<1>. QED
  BY <1>2, <1>3 DEF PpoInv

\* A job that goes on from step n.
LEMMA PpoGoesOn ==
  ASSUME PpoInv, ppoPc = "load", ppoPc' = "train",
         NEW n \in Nat, n = ppoTracker, ppoSteps' = n + 1,
         ppoModel' = PpoModel(n + 1),
         ppoPos' \in 0..PpoEpochLen, ppoPos' % PpoEpochLen = ((n + 1) - 1) % PpoEpochLen,
         UNCHANGED <<ppoTracker, ppoFolders, ppoStarts, asked, ppoToSave, ppoEpoch, ppoSaved>>
  PROVE  PpoInv'
<1>1. /\ ppoStarts \in Nat /\ n < Ppo!Total + ppoStarts /\ Ppo!Total \in Nat /\ ppoEpoch = 0
      /\ PpoEpochs \in Nat /\ 0 < PpoEpochs
  BY PpoConstants DEF PpoInv, PpoTyped, PpoTracked, PpoPlace
<1>2. n + 1 \in 1..(Ppo!Total + ppoStarts) /\ n + 1 \in 0..(Ppo!Total + ppoStarts + 1)
  BY <1>1
<1>3. PpoTyped'
  BY <1>2 DEF PpoInv, PpoTyped, Saving
<1>4. PpoPlace' /\ PpoShards'
  BY <1>1, <1>2 DEF PpoInv, PpoPlace, PpoShards, Saving
<1>5. PpoTracked'
  <2>1. (n + 1) - 1 = n /\ n - n = 0 /\ n < n + 1
    OBVIOUS
  <2>2. n % PpoSaveFreq >= 0
    BY OneMore, PpoConstants
  <2>. QED
    BY <2>1, <2>2 DEF PpoInv, PpoTracked, PpoShardsOf, Saving
<1>6. PpoWritten' /\ PpoSaved'
  BY NoneSaved, PpoNames DEF PpoInv, PpoWritten, PpoSaved, HasSaved, Saving
<1>. QED
  BY <1>3, <1>4, <1>5, <1>6 DEF PpoInv

\* A job without a checkpoint begins at the first batch.
LEMMA PpoLoadNothing == ASSUME PpoInv, Ppo!LoadNothing PROVE PpoInv'
<1>1. /\ ppoPc = "load" /\ ppoPc' = "train" /\ ppoSteps' = 1 /\ ppoTracker # -1
      /\ UNCHANGED <<ppoTracker, ppoFolders, ppoStarts, asked, ppoToSave, ppoEpoch, ppoPos,
                     ppoModel, ppoSaved>>
  BY PpoNames DEF Ppo!LoadNothing, Ppo!disk
<1>2. ppoTracker = 0
  <2>1. ~(ppoTracker > 0 /\ ppoFolders[ppoTracker].here)
    BY PpoNames DEF Ppo!LoadNothing, Ppo!FindLatest
  <2>. QED
    BY <1>1, <2>1 DEF PpoInv, PpoTracked, PpoTyped
<1>3. ppoModel = PpoModel(0 + 1)
  <2>1. \A o \in Ppo!RoleSet : Ppo!Learned(o, 1) = <<>>
    BY LearnedFacts
  <2>. QED
    BY <1>1, <2>1 DEF PpoInv, PpoPlace, Ppo!Untrained, PpoModel
<1>4. ppoPos' = 0 /\ ppoPos' \in 0..PpoEpochLen /\ ppoPos' % PpoEpochLen = ((0 + 1) - 1) % PpoEpochLen
  BY <1>1, PpoConstants DEF PpoInv, PpoPlace
<1>5. 0 \in Nat /\ ppoSteps' = 0 + 1
  BY <1>1
<1>. QED
  BY <1>1, <1>2, <1>3, <1>4, <1>5, PpoGoesOn

\* A job goes on after the step its checkpoint was saved at.
LEMMA PpoLoadCheckpoint == ASSUME PpoInv, Ppo!LoadCheckpoint PROVE PpoInv'
<1>1. /\ ppoPc = "load" /\ ppoTracker # -1 /\ ppoTracker > 0 /\ ppoFolders[ppoTracker].here
      /\ UNCHANGED <<ppoTracker, ppoFolders, ppoStarts, asked, ppoToSave, ppoEpoch, ppoSaved>>
  BY PpoNames DEF Ppo!LoadCheckpoint, Ppo!FindLatest, Ppo!disk
<1>2. /\ ppoTracker \in Nat \ {0} /\ ppoTracker \in Ppo!Steps
  BY <1>1, PpoConstants, PpoNames DEF PpoInv, PpoTyped
<1>3. /\ ppoFolders[ppoTracker].data = DataAt(ppoTracker)
      /\ ppoFolders[ppoTracker].shard = PpoModel(ppoTracker + 1)
  <2>1. /\ ppoFolders[ppoTracker].shard \in [Ppo!RoleSet -> [Ranks -> Seq(Int)]]
    BY <1>2 DEF PpoInv, PpoTyped, PpoFolder
  <2>2. \A o \in Ppo!RoleSet, k \in Ranks :
          ppoFolders[ppoTracker].shard[o][k] = Ppo!Learned(o, ppoTracker + 1)
    BY <1>1 DEF PpoInv, PpoTracked, PpoShardsOf
  <2>3. ppoFolders[ppoTracker].shard = PpoModel(ppoTracker + 1)
    BY <2>1, <2>2 DEF PpoModel
  <2>. QED
    BY <1>1, <2>3 DEF PpoInv, PpoTracked
<1>4. CASE Ppo!Loads(ppoFolders[ppoTracker]) /\ ppoFolders[ppoTracker].data # Ppo!Torn
  <2>1. /\ ppoPc' = "train" /\ ppoSteps' = ppoTracker + 1
        /\ ppoModel' = PpoModel(ppoTracker + 1) /\ ppoPos' = DataAt(ppoTracker)
    BY <1>1, <1>3, <1>4 DEF Ppo!LoadCheckpoint, Ppo!FindLatest
  <2>2. /\ DataAt(ppoTracker) \in 0..PpoEpochLen
        /\ DataAt(ppoTracker) % PpoEpochLen = ((ppoTracker + 1) - 1) % PpoEpochLen
    BY <1>2, DataAtFacts
  <2>3. ppoTracker \in Nat
    BY <1>2
  <2>. QED
    BY <1>1, <2>1, <2>2, <2>3, PpoGoesOn
<1>5. CASE ~(Ppo!Loads(ppoFolders[ppoTracker]) /\ ppoFolders[ppoTracker].data # Ppo!Torn)
  <2>1. ppoPc' = "error" /\ UNCHANGED <<ppoModel, ppoPos, ppoSteps>>
    BY <1>1, <1>5 DEF Ppo!LoadCheckpoint, Ppo!FindLatest
  <2>2. PpoTyped' /\ PpoPlace' /\ PpoShards'
    BY <1>1, <2>1 DEF PpoInv, PpoTyped, PpoPlace, PpoShards, Saving
  <2>3. PpoTracked' /\ PpoWritten' /\ PpoSaved'
    BY <1>1, <2>1 DEF PpoInv, PpoTracked, PpoShardsOf, PpoWritten, PpoSaved, HasSaved, Saving
  <2>. QED
    BY <2>2, <2>3 DEF PpoInv
<1>. QED
  BY <1>4, <1>5

\* The step that is done, which is not the last one to be saved.
LEMMA PpoLittle ==
  ASSUME NEW n \in Nat, NEW t \in Nat, NEW f \in Nat \ {0}, t <= n, n - t <= n % f, (n + 1) % f # 0
  PROVE  ((n + 2) - 1) - t <= ((n + 2) - 1) % f
<1>1. (n + 1) % f = (n % f) + 1 /\ n % f \in Nat
  <2>1. n % f \in 0..(f - 1) /\ (n + 1) % f = (n % f) + 1
    BY OneMore
  <2>. QED
    BY <2>1
<1>2. (n + 2) - 1 = n + 1 /\ (n + 1) - t = (n - t) + 1
  OBVIOUS
<1>. QED
  BY <1>1, <1>2

\* A step trains on the batch after the last one.
LEMMA PpoTrainStep == ASSUME PpoInv, Ppo!TrainStep PROVE PpoInv'
<1>1. /\ ppoPc = "train" /\ ppoPos < PpoEpochLen /\ ppoPos' = ppoPos + 1
      /\ ppoModel' = [o \in Ppo!RoleSet |-> [k \in Ranks |->
           IF Ppo!Learns(o) THEN Append(ppoModel[o][k], ppoPos + 1) ELSE ppoModel[o][k]]]
      /\ UNCHANGED <<ppoTracker, ppoFolders, ppoStarts, ppoToSave, ppoEpoch, ppoSaved>>
  BY DEF Ppo!TrainStep, Ppo!disk
<1>2. \/ ppoPc' = "rotate" /\ asked' = 1 /\ ppoSteps' = ppoSteps
      \/ /\ ppoSteps % PpoSaveFreq # 0 /\ ppoSteps' = ppoSteps + 1 /\ asked' = asked
         /\ IF ppoSteps >= Ppo!Total THEN ppoPc' = "done" ELSE ppoPc' = "train"
  BY DEF Ppo!TrainStep, Ppo!Saves, Ppo!NextStep, Ppo!IsLastStep
<1>3. /\ ppoSteps \in Nat \ {0} /\ ppoSteps \in 1..(Ppo!Total + ppoStarts) /\ ppoStarts \in Nat
      /\ ppoPos \in 0..PpoEpochLen /\ ppoPos \in Nat /\ Ppo!Total \in Nat
      /\ ppoTracker \in Nat /\ ppoTracker < ppoSteps
  <2>1. ppoSteps \in 1..(Ppo!Total + ppoStarts) /\ ppoStarts \in Nat /\ ppoPos \in 0..PpoEpochLen
    BY <1>1, PpoConstants DEF PpoInv, PpoPlace, PpoTyped
  <2>2. ppoTracker \in Nat /\ ppoTracker < ppoSteps
    BY <1>1, PpoConstants DEF PpoInv, PpoTracked, PpoTyped
  <2>. QED
    BY <2>1, <2>2, PpoConstants
<1>4. ppoPos + 1 = DataAt(ppoSteps) /\ ppoPos + 1 \in 0..PpoEpochLen
  <2>1. ppoPos % PpoEpochLen = (ppoSteps - 1) % PpoEpochLen
    BY <1>1 DEF PpoInv, PpoPlace
  <2>2. ppoPos + 1 = DataAt(ppoSteps)
    BY <1>1, <1>3, <2>1, DataAtFacts
  <2>3. DataAt(ppoSteps) \in 1..PpoEpochLen
    BY <1>3, DataAtFacts
  <2>. QED
    BY <2>2, <2>3
<1>5. ppoModel' = PpoModel(ppoSteps + 1)
  <2>1. ASSUME NEW o \in Ppo!RoleSet, NEW k \in Ranks
        PROVE  (IF Ppo!Learns(o) THEN Append(ppoModel[o][k], ppoPos + 1) ELSE ppoModel[o][k])
                 = Ppo!Learned(o, ppoSteps + 1)
    <3>1. ppoModel[o][k] = Ppo!Learned(o, ppoSteps)
      BY <1>1 DEF PpoInv, PpoPlace, PpoModel
    <3>2. Ppo!Learned(o, ppoSteps + 1) =
            IF o = "critic" \/ Warmup <= ppoSteps THEN Append(Ppo!Learned(o, ppoSteps), DataAt(ppoSteps))
            ELSE Ppo!Learned(o, ppoSteps)
      BY <1>3, LearnedFacts
    <3>. QED
      BY <1>4, <3>1, <3>2 DEF Ppo!Learns
  <2>. QED
    BY <1>1, <2>1 DEF PpoModel
<1>6. CASE ppoPc' = "rotate" /\ asked' = 1 /\ ppoSteps' = ppoSteps
  <2>1. PpoTyped'
    BY <1>1, <1>3, <1>4, <1>6, PpoNames DEF PpoInv, PpoTyped, Saving
  <2>2. PpoPlace' /\ PpoShards'
    BY <1>1, <1>4, <1>5, <1>6 DEF PpoInv, PpoPlace, PpoShards, Saving
  <2>3. PpoTracked'
    BY <1>1, <1>3, <1>6 DEF PpoInv, PpoTracked, PpoShardsOf, Saving
  <2>4. \A i \in DOMAIN PpoRoles : ~HasSaved(i)' /\ ~HasSaved(i)
    BY <1>1, <1>6, PpoNames DEF HasSaved
  <2>5. PpoWritten' /\ PpoSaved'
    BY <1>1, <1>6, <2>4 DEF PpoInv, PpoWritten, PpoSaved, Saving
  <2>. QED
    BY <2>1, <2>2, <2>3, <2>5 DEF PpoInv
<1>7. CASE /\ ppoSteps % PpoSaveFreq # 0 /\ ppoSteps' = ppoSteps + 1 /\ asked' = asked
           /\ IF ppoSteps >= Ppo!Total THEN ppoPc' = "done" ELSE ppoPc' = "train"
  <2>1. /\ ppoSteps + 1 \in 0..(Ppo!Total + ppoStarts + 1)
        /\ ppoPc' = "train" => ppoSteps + 1 \in 1..(Ppo!Total + ppoStarts)
        /\ ppoPc' \in {"train", "done"}
    BY <1>3, <1>7
  <2>2. PpoTyped'
    BY <1>1, <1>4, <1>7, <2>1 DEF PpoInv, PpoTyped, Saving
  <2>3. PpoPlace' /\ PpoShards'
    <3>1. (ppoPos + 1) % PpoEpochLen = ((ppoSteps + 1) - 1) % PpoEpochLen
      BY <1>3, <1>4, DataAtFacts
    <3>. QED
      BY <1>1, <1>5, <1>7, <2>1, <3>1 DEF PpoInv, PpoPlace, PpoShards, Saving
  <2>4. PpoTracked'
    <3>. DEFINE n == ppoSteps - 1
    <3>1. /\ n \in Nat /\ n + 1 = ppoSteps /\ n + 2 = ppoSteps + 1 /\ ppoTracker <= n
          /\ ppoTracker < ppoSteps + 1
      BY <1>3
    <3>2. n - ppoTracker <= n % PpoSaveFreq
      BY <1>1 DEF PpoInv, PpoTracked
    <3>3. ((n + 2) - 1) - ppoTracker <= ((n + 2) - 1) % PpoSaveFreq
      <4>. HIDE DEF n
      <4>1. (n + 1) % PpoSaveFreq # 0
        BY <1>7, <3>1
      <4>. QED
        BY <1>3, <3>1, <3>2, <4>1, PpoLittle, PpoConstants
    <3>. HIDE DEF n
    <3>4. ((ppoSteps + 1) - 1) - ppoTracker <= ((ppoSteps + 1) - 1) % PpoSaveFreq
      BY <3>1, <3>3
    <3>. QED
      BY <1>1, <1>3, <1>7, <2>1, <3>1, <3>4 DEF PpoInv, PpoTracked, PpoShardsOf, Saving
  <2>5. \A i \in DOMAIN PpoRoles : ~HasSaved(i)' /\ ~HasSaved(i)
    BY <1>1, <2>1 DEF HasSaved
  <2>6. PpoWritten' /\ PpoSaved'
    BY <1>1, <2>1, <2>5 DEF PpoInv, PpoWritten, PpoSaved, Saving
  <2>. QED
    BY <2>2, <2>3, <2>4, <2>6 DEF PpoInv
<1>. QED
  BY <1>2, <1>6, <1>7

\* The last batch of an epoch comes before the first of the next.
LEMMA PpoEndEpoch == ASSUME PpoInv, Ppo!EndEpoch PROVE PpoInv'
<1>1. /\ ppoPc = "train" /\ ppoPos = PpoEpochLen /\ ppoEpoch' = ppoEpoch + 1
      /\ \/ ppoEpoch + 1 < PpoEpochs /\ ppoPos' = 0 /\ ppoPc' = "train"
         \/ ppoPos' = ppoPos /\ ppoPc' = "done"
      /\ UNCHANGED <<ppoTracker, ppoFolders, ppoStarts, asked, ppoToSave, ppoSteps, ppoModel, ppoSaved>>
  BY DEF Ppo!EndEpoch, Ppo!disk
<1>2. ppoEpoch \in Nat /\ ppoEpoch < PpoEpochs
  BY <1>1, PpoConstants DEF PpoInv, PpoTyped, PpoPlace
<1>3. PpoEpochLen % PpoEpochLen = 0 /\ 0 % PpoEpochLen = 0
  <2>1. PpoEpochLen = 1 * PpoEpochLen + 0 /\ 0 = 0 * PpoEpochLen + 0 /\ 0 \in 0..(PpoEpochLen - 1)
    BY PpoConstants
  <2>. QED
    BY <2>1, PpoConstants
<1>4. PpoTyped'
  BY <1>1, <1>2, PpoConstants DEF PpoInv, PpoTyped, Saving
<1>5. PpoPlace' /\ PpoShards'
  BY <1>1, <1>3 DEF PpoInv, PpoPlace, PpoShards, Saving
<1>6. PpoTracked'
  BY <1>1 DEF PpoInv, PpoTracked, PpoShardsOf, Saving
<1>7. PpoWritten' /\ PpoSaved'
  BY <1>1 DEF PpoInv, PpoWritten, PpoSaved, HasSaved, Saving
<1>. QED
  BY <1>4, <1>5, <1>6, <1>7 DEF PpoInv

\* What rotation removes is older than the tracked checkpoint.
LEMMA PpoOutdated ==
  ASSUME MaxKeep # 1, NEW paths, NEW top \in Nat, Climbs(paths, top)
  PROVE  /\ Climbs(Ppo!StillKept(paths), top)
         /\ \A s \in Ppo!Range(Ppo!Outdated(paths)) : s < top
<1>1. Ppo!Outdated(paths) = Sft!Outdated(paths)
  BY DEF Ppo!Outdated, Sft!Outdated
<1>2. Ppo!StillKept(paths) = Sft!StillKept(paths)
  BY <1>1 DEF Ppo!StillKept, Sft!StillKept
<1>3. Ppo!Range(Ppo!Outdated(paths)) = Sft!Range(Sft!Outdated(paths))
  BY <1>1 DEF Ppo!Range, Sft!Range
<1>. QED
  BY <1>1, <1>2, <1>3, SftOutdated

\* The kept checkpoints are among those there were.
LEMMA KeptAmong ==
  ASSUME NEW S, NEW paths \in Seq(S)
  PROVE  Ppo!StillKept(paths) \in Seq(S)
<1>. DEFINE n == Len(Ppo!Outdated(paths))
<1>1. n \in Nat
  <2>1. MaxKeep \in Nat /\ Len(paths) \in Nat
    BY PpoConstants
  <2>2. CASE MaxKeep > 0 /\ Len(paths) >= MaxKeep
    <3>1. Len(paths) - MaxKeep + 1 \in 1..Len(paths)
      BY <2>1, <2>2
    <3>2. 1 \in Int /\ \A i \in 1..(Len(paths) - MaxKeep + 1) : paths[i] \in S
      BY <2>1, <3>1
    <3>3. SubSeq(paths, 1, Len(paths) - MaxKeep + 1) \in Seq(S)
      BY <3>1, <3>2, SubSeqProperties
    <3>4. Ppo!Outdated(paths) \in Seq(S)
      BY <2>2, <3>3 DEF Ppo!Outdated
    <3>. QED
      BY <3>4
  <2>3. CASE ~(MaxKeep > 0 /\ Len(paths) >= MaxKeep)
    BY <2>3 DEF Ppo!Outdated
  <2>. QED
    BY <2>2, <2>3
<1>. HIDE DEF n
<1>2. \A i \in (n + 1)..Len(paths) : paths[i] \in S
  BY <1>1
<1>3. SubSeq(paths, n + 1, Len(paths)) \in Seq(S)
  BY <1>1, <1>2, SubSeqProperties
<1>. QED
  BY <1>3 DEF Ppo!StillKept, n

\* While the checkpoint of a step is saved, the tracker names another.
LEMMA PpoSaving ==
  ASSUME PpoInv, ppoPc \in Saving
  PROVE  /\ ppoTracker \in Nat /\ ppoTracker < ppoSteps
         /\ ppoSteps \in Ppo!Steps /\ ppoSteps \in Nat \ {0} /\ ppoSteps + 1 \in Nat \ {0}
         /\ ppoTracker > 0 => ppoTracker \in Ppo!Steps
         /\ ppoFolders \in [Ppo!Steps -> PpoFolder]
         /\ Ppo!Role = PpoRoles[asked] /\ asked \in DOMAIN PpoRoles /\ Ppo!Role \in Ppo!RoleSet
         /\ \A k \in Ranks : ppoModel[Ppo!Role][k] = Ppo!Learned(Ppo!Role, ppoSteps + 1)
<1>1. /\ ppoStarts \in Nat /\ ppoStarts <= PpoMaxStarts /\ Ppo!Total \in Nat /\ PpoMaxStarts \in Nat
      /\ ppoSteps \in 1..(Ppo!Total + ppoStarts)
  BY PpoConstants DEF PpoInv, PpoTyped, PpoPlace
<1>2. /\ ppoSteps \in 1..(Ppo!Total + PpoMaxStarts) /\ ppoSteps \in Nat \ {0} /\ ppoSteps + 1 \in Nat \ {0}
  BY <1>1
<1>3. ppoTracker \in Int /\ 0 <= ppoTracker /\ ppoTracker < ppoSteps
  BY PpoConstants DEF PpoInv, PpoTyped, PpoTracked
<1>4. ppoTracker > 0 => ppoTracker \in 1..(Ppo!Total + PpoMaxStarts)
  BY <1>1, <1>2, <1>3
<1>5. Ppo!Role = PpoRoles[asked] /\ asked \in DOMAIN PpoRoles /\ Ppo!Role \in Ppo!RoleSet
  BY PpoNames DEF PpoInv, PpoTyped, Ppo!Role
<1>6. \A k \in Ranks : ppoModel[Ppo!Role][k] = Ppo!Learned(Ppo!Role, ppoSteps + 1)
  BY <1>5 DEF PpoInv, PpoPlace, PpoModel
<1>7. ppoFolders \in [Ppo!Steps -> PpoFolder]
  BY DEF PpoInv, PpoTyped
<1>. QED
  BY <1>2, <1>3, <1>4, <1>5, <1>6, <1>7, PpoNames

\* The other groups and the other folders stay as they are.
LEMMA PpoRotate == ASSUME PpoInv, MaxKeep # 1, Ppo!Rotate PROVE PpoInv'
<1>. DEFINE R == Ppo!Role
            gone == Ppo!Range(Ppo!Outdated(ppoSaved[R]))
<1>1. /\ ppoPc = "rotate" /\ ppoPc' = "shards" /\ ppoToSave' = Ranks
      /\ ppoFolders' = [s \in Ppo!Steps |->
           [here  |-> ppoFolders[s].here \/ s = ppoSteps,
            shard |-> IF s \in gone
                        THEN [ppoFolders[s].shard EXCEPT ![R] = Ppo!NoShards[R]]
                        ELSE ppoFolders[s].shard,
            data  |-> ppoFolders[s].data]]
      /\ ppoSaved' = [ppoSaved EXCEPT ![R] = Ppo!StillKept(@)]
      /\ UNCHANGED <<ppoTracker, ppoStarts, asked, ppoSteps, ppoEpoch, ppoPos, ppoModel>>
  BY DEF Ppo!Rotate, Ppo!progress
<1>2. /\ ppoTracker \in Nat /\ ppoTracker < ppoSteps
      /\ ppoSteps \in Ppo!Steps /\ ppoSteps \in Nat \ {0}
      /\ ppoTracker > 0 => ppoTracker \in Ppo!Steps
      /\ ppoFolders \in [Ppo!Steps -> PpoFolder]
      /\ R = PpoRoles[asked] /\ asked \in DOMAIN PpoRoles /\ R \in Ppo!RoleSet
  BY <1>1, PpoSaving DEF Saving
<1>3. Climbs(ppoSaved[R], ppoTracker)
  <2>1. ~HasSaved(asked)
    BY <1>1, <1>2, PpoNames DEF HasSaved
  <2>. QED
    BY <1>1, <1>2, <2>1 DEF PpoInv, PpoSaved, Saving
<1>4. Climbs(Ppo!StillKept(ppoSaved[R]), ppoTracker) /\ \A s \in gone : s < ppoTracker
  BY <1>2, <1>3, PpoOutdated
<1>. HIDE DEF gone, R
<1>5. ASSUME NEW s \in Ppo!Steps
      PROVE  /\ ppoFolders'[s] \in PpoFolder
             /\ ppoFolders'[s].here = (ppoFolders[s].here \/ s = ppoSteps)
             /\ ppoFolders'[s].data = ppoFolders[s].data
             /\ s \notin gone => ppoFolders'[s].shard = ppoFolders[s].shard
             /\ \A o \in Ppo!RoleSet, k \in Ranks :
                  ppoFolders'[s].shard[o][k] \in {ppoFolders[s].shard[o][k], Ppo!NoShard}
  <2>1. ppoFolders[s] \in PpoFolder
    BY <1>2
  <2>2. Ppo!NoShards[R] \in [Ranks -> Seq(Int)] /\ \A k \in Ranks : Ppo!NoShards[R][k] = Ppo!NoShard
    BY <1>2, PpoNames
  <2>3. CASE s \in gone
    <3>1. ppoFolders'[s].shard = [ppoFolders[s].shard EXCEPT ![R] = Ppo!NoShards[R]]
      BY <1>1, <2>3
    <3>. QED
      BY <1>1, <1>2, <2>1, <2>2, <2>3, <3>1 DEF PpoFolder
  <2>4. CASE s \notin gone
    BY <1>1, <2>1, <2>4 DEF PpoFolder
  <2>. QED
    BY <2>3, <2>4
<1>6. PpoTyped'
  <2>1. ppoFolders' \in [Ppo!Steps -> PpoFolder]
    BY <1>1, <1>5
  <2>. QED
    BY <1>1, <2>1 DEF PpoInv, PpoTyped, Saving
<1>7. PpoShards' /\ PpoPlace'
  BY <1>1, <1>5 DEF PpoInv, PpoShards, PpoPlace, Saving
<1>8. PpoTracked'
  <2>1. ppoTracker > 0 => ppoTracker \in Ppo!Steps /\ ppoTracker \notin gone
    BY <1>2, <1>4
  <2>. QED
    BY <1>1, <1>5, <2>1 DEF PpoInv, PpoTracked, PpoShardsOf, Saving
<1>9. \A i \in DOMAIN PpoRoles : HasSaved(i)' = HasSaved(i) /\ ~HasSaved(asked)
  BY <1>1, <1>2, PpoNames DEF HasSaved
<1>10. PpoWritten'
  <2>1. ppoSteps \notin gone
    BY <1>2, <1>4
  <2>2. ppoFolders'[ppoSteps].here /\ ppoFolders'[ppoSteps].shard = ppoFolders[ppoSteps].shard
    BY <1>2, <1>5, <2>1
  <2>3. \A i \in DOMAIN PpoRoles : HasSaved(i) => PpoShardsOf(ppoSteps, PpoRoles[i], Ranks)
    BY DEF PpoInv, PpoWritten
  <2>4. ppoSteps' = ppoSteps /\ ppoPc' = "shards" /\ Ranks \ ppoToSave' = {}
    BY <1>1
  <2>5. \A i \in DOMAIN PpoRoles : HasSaved(i)' => PpoShardsOf(ppoSteps, PpoRoles[i], Ranks)'
    BY <1>9, <2>2, <2>3, <2>4 DEF PpoShardsOf
  <2>6. PpoShardsOf(ppoSteps, PpoRoles[asked], Ranks \ ppoToSave)'
    BY <2>4 DEF PpoShardsOf
  <2>. QED
    BY <2>2, <2>4, <2>5, <2>6 DEF PpoWritten
<1>11. PpoSaved'
  <2>1. ppoSaved \in [Ppo!RoleSet -> Seq(Ppo!Steps)]
    BY DEF PpoInv, PpoSaved
  <2>2. Ppo!StillKept(ppoSaved[R]) \in Seq(Ppo!Steps)
    BY <1>2, <2>1, KeptAmong
  <2>3. ppoSaved' \in [Ppo!RoleSet -> Seq(Ppo!Steps)]
    BY <1>1, <2>1, <2>2
  <2>4. ASSUME NEW i \in DOMAIN PpoRoles
        PROVE  Climbs(ppoSaved'[PpoRoles[i]], IF HasSaved(i) THEN ppoSteps ELSE ppoTracker)
    <3>1. CASE i = asked
      BY <1>1, <1>2, <1>4, <1>9, <2>1, <3>1
    <3>2. CASE i # asked
      <4>1. PpoRoles[i] # R /\ PpoRoles[i] \in Ppo!RoleSet
        BY <1>2, <3>2, PpoNames
      <4>2. ppoSaved'[PpoRoles[i]] = ppoSaved[PpoRoles[i]]
        BY <1>1, <2>1, <4>1
      <4>. QED
        BY <1>1, <4>2 DEF PpoInv, PpoSaved, Saving
    <3>. QED
      BY <3>1, <3>2
  <2>. QED
    BY <1>1, <1>9, <2>3, <2>4 DEF PpoSaved
<1>. QED
  BY <1>6, <1>7, <1>8, <1>10, <1>11 DEF PpoInv

\* A rank writes its own shard of this step.
LEMMA PpoSaveShard == ASSUME PpoInv, NEW k \in Ranks, Ppo!SaveShard(k) PROVE PpoInv'
<1>. DEFINE R == Ppo!Role
<1>1. /\ ppoPc = "shards" /\ ppoPc' = "shards" /\ ppoToSave' = ppoToSave \ {k}
      /\ ppoFolders' = [ppoFolders EXCEPT ![ppoSteps].shard[R][k] = ppoModel[R][k]]
      /\ UNCHANGED <<ppoTracker, ppoStarts, asked, ppoSteps, ppoEpoch, ppoPos, ppoModel, ppoSaved>>
  BY DEF Ppo!SaveShard, Ppo!progress
<1>2. /\ ppoTracker \in Nat /\ ppoTracker < ppoSteps
      /\ ppoSteps \in Ppo!Steps /\ ppoSteps \in Nat \ {0} /\ ppoSteps + 1 \in Nat \ {0}
      /\ ppoTracker > 0 => ppoTracker \in Ppo!Steps
      /\ ppoFolders \in [Ppo!Steps -> PpoFolder]
      /\ R = PpoRoles[asked] /\ asked \in DOMAIN PpoRoles /\ R \in Ppo!RoleSet
      /\ ppoModel[R][k] = Ppo!Learned(R, ppoSteps + 1)
  BY <1>1, PpoSaving DEF Saving
<1>. HIDE DEF R
<1>3. ASSUME NEW s \in Ppo!Steps
      PROVE  /\ ppoFolders'[s] \in PpoFolder
             /\ ppoFolders'[s].here = ppoFolders[s].here /\ ppoFolders'[s].data = ppoFolders[s].data
             /\ s # ppoSteps => ppoFolders'[s].shard = ppoFolders[s].shard
             /\ \A o \in Ppo!RoleSet, j \in Ranks : <<o, j>> # <<R, k>> =>
                  ppoFolders'[s].shard[o][j] = ppoFolders[s].shard[o][j]
             /\ ppoFolders'[ppoSteps].shard[R][k] = Ppo!Learned(R, ppoSteps + 1)
  <2>1. /\ ppoFolders[s] \in PpoFolder /\ ppoFolders[ppoSteps] \in PpoFolder
        /\ Ppo!Learned(R, ppoSteps + 1) \in Seq(Int)
    BY <1>2, LearnedFacts
  <2>2. CASE s # ppoSteps
    BY <1>1, <1>2, <2>1, <2>2 DEF PpoFolder
  <2>3. CASE s = ppoSteps
    BY <1>1, <1>2, <2>1, <2>3 DEF PpoFolder
  <2>. QED
    BY <2>2, <2>3
<1>4. PpoTyped'
  <2>1. ppoFolders' \in [Ppo!Steps -> PpoFolder]
    BY <1>1, <1>2, <1>3
  <2>. QED
    BY <1>1, <2>1 DEF PpoInv, PpoTyped, Saving
<1>5. PpoShards' /\ PpoPlace'
  <2>1. PpoShards'
    BY <1>3 DEF PpoInv, PpoShards
  <2>. QED
    BY <1>1, <2>1 DEF PpoInv, PpoPlace, Saving
<1>6. PpoTracked'
  <2>1. ppoTracker > 0 => ppoTracker \in Ppo!Steps /\ ppoTracker # ppoSteps
    BY <1>2
  <2>. QED
    BY <1>1, <1>3, <2>1 DEF PpoInv, PpoTracked, PpoShardsOf, Saving
<1>7. \A i \in DOMAIN PpoRoles :
        HasSaved(i)' = HasSaved(i) /\ (HasSaved(i) => PpoRoles[i] # R /\ PpoRoles[i] \in Ppo!RoleSet)
  BY <1>1, <1>2, PpoNames DEF HasSaved
<1>8. PpoWritten'
  <2>1. ppoFolders'[ppoSteps].here
    BY <1>1, <1>2, <1>3 DEF PpoInv, PpoWritten
  <2>2. \A i \in DOMAIN PpoRoles : HasSaved(i) => PpoShardsOf(ppoSteps, PpoRoles[i], Ranks)'
    BY <1>1, <1>2, <1>3, <1>7 DEF PpoInv, PpoWritten, PpoShardsOf
  <2>3. PpoShardsOf(ppoSteps, R, Ranks \ ppoToSave)'
    <3>1. \A j \in Ranks \ ppoToSave : ppoFolders[ppoSteps].shard[R][j] = Ppo!Learned(R, ppoSteps + 1)
      BY <1>1, <1>2 DEF PpoInv, PpoWritten, PpoShardsOf
    <3>2. ASSUME NEW j \in Ranks \ ppoToSave'
          PROVE  ppoFolders'[ppoSteps].shard[R][j] = Ppo!Learned(R, ppoSteps + 1)
      BY <1>1, <1>2, <1>3, <3>1
    <3>. QED
      BY <1>1, <3>2 DEF PpoShardsOf, R, Ppo!Role
  <2>. QED
    BY <1>1, <1>2, <1>7, <2>1, <2>2, <2>3 DEF PpoWritten, PpoShardsOf, R, Ppo!Role
<1>9. PpoSaved'
  BY <1>1, <1>7 DEF PpoInv, PpoSaved, Saving
<1>. QED
  BY <1>4, <1>5, <1>6, <1>8, <1>9 DEF PpoInv

\* The next group saves, or the driver goes on.
LEMMA PpoAllSaved == ASSUME PpoInv, Ppo!AllSaved PROVE PpoInv'
<1>. DEFINE R == Ppo!Role
<1>1. /\ ppoPc = "shards" /\ ppoToSave = {}
      /\ ppoSaved' = [ppoSaved EXCEPT ![R] = Append(@, ppoSteps)]
      /\ \/ asked < Len(PpoRoles) /\ asked' = asked + 1 /\ ppoPc' = "rotate"
         \/ ~(asked < Len(PpoRoles)) /\ asked' = asked /\ ppoPc' = "data"
      /\ UNCHANGED <<ppoTracker, ppoFolders, ppoStarts, ppoToSave, ppoSteps, ppoEpoch, ppoPos, ppoModel>>
  BY DEF Ppo!AllSaved, Ppo!disk, Ppo!progress
<1>2. /\ ppoTracker \in Nat /\ ppoTracker < ppoSteps
      /\ ppoSteps \in Ppo!Steps /\ ppoSteps \in Nat \ {0}
      /\ R = PpoRoles[asked] /\ asked \in DOMAIN PpoRoles /\ R \in Ppo!RoleSet
  BY <1>1, PpoSaving DEF Saving
<1>. HIDE DEF R
<1>3. /\ asked \in Nat /\ asked <= Len(PpoRoles) /\ Len(PpoRoles) \in Nat
      /\ asked' \in DOMAIN PpoRoles
  BY <1>1, <1>2, PpoNames
<1>4. ASSUME NEW i \in DOMAIN PpoRoles
      PROVE  HasSaved(i)' = (HasSaved(i) \/ i = asked) /\ ~HasSaved(asked)
  <2>1. i \in Nat /\ i <= Len(PpoRoles)
    BY PpoNames
  <2>2. CASE asked < Len(PpoRoles) /\ asked' = asked + 1 /\ ppoPc' = "rotate"
    BY <1>1, <1>3, <2>1, <2>2 DEF HasSaved
  <2>3. CASE ~(asked < Len(PpoRoles)) /\ asked' = asked /\ ppoPc' = "data"
    BY <1>1, <1>3, <2>1, <2>3 DEF HasSaved
  <2>. QED
    BY <1>1, <2>2, <2>3
<1>5. PpoTyped'
  BY <1>1, <1>3 DEF PpoInv, PpoTyped, Saving
<1>6. PpoPlace' /\ PpoShards'
  BY <1>1 DEF PpoInv, PpoShards, PpoPlace, Saving
<1>7. PpoTracked'
  BY <1>1 DEF PpoInv, PpoTracked, PpoShardsOf, Saving
<1>8. PpoWritten'
  <2>1. ppoFolders[ppoSteps].here /\ PpoShardsOf(ppoSteps, PpoRoles[asked], Ranks)
    BY <1>1 DEF PpoInv, PpoWritten
  <2>. QED
    BY <1>1, <1>4, <2>1 DEF PpoInv, PpoWritten, PpoShardsOf
<1>9. PpoSaved'
  <2>1. ppoSaved \in [Ppo!RoleSet -> Seq(Ppo!Steps)]
    BY DEF PpoInv, PpoSaved
  <2>2. ppoSaved' \in [Ppo!RoleSet -> Seq(Ppo!Steps)]
    BY <1>1, <1>2, <2>1
  <2>3. ASSUME NEW i \in DOMAIN PpoRoles
        PROVE  Climbs(ppoSaved'[PpoRoles[i]], IF HasSaved(i)' THEN ppoSteps ELSE ppoTracker)
    <3>1. CASE i = asked
      <4>1. Climbs(ppoSaved[R], ppoTracker)
        BY <1>1, <1>2, <1>4 DEF PpoInv, PpoSaved, Saving
      <4>2. ppoSaved'[R] = Append(ppoSaved[R], ppoSteps)
        BY <1>1, <1>2, <2>1
      <4>. QED
        BY <1>2, <1>4, <3>1, <4>1, <4>2, ClimbsOn
    <3>2. CASE i # asked
      <4>1. PpoRoles[i] # R /\ PpoRoles[i] \in Ppo!RoleSet
        BY <1>2, <3>2, PpoNames
      <4>2. ppoSaved'[PpoRoles[i]] = ppoSaved[PpoRoles[i]]
        BY <1>1, <2>1, <4>1
      <4>. QED
        BY <1>1, <1>4, <3>2, <4>2 DEF PpoInv, PpoSaved, Saving
    <3>. QED
      BY <3>1, <3>2
  <2>4. ppoPc' # "load"
    BY <1>1
  <2>. QED
    BY <1>1, <2>2, <2>3, <2>4 DEF PpoSaved
<1>. QED
  BY <1>5, <1>6, <1>7, <1>8, <1>9 DEF PpoInv

\* The loader's position is this step's.
LEMMA PpoSaveData == ASSUME PpoInv, Ppo!SaveData PROVE PpoInv'
<1>1. /\ ppoPc = "data" /\ ppoPc' = "tracker"
      /\ ppoFolders' = [ppoFolders EXCEPT ![ppoSteps].data = ppoPos]
      /\ UNCHANGED <<ppoTracker, ppoStarts, asked, ppoToSave, ppoSteps, ppoEpoch, ppoPos, ppoModel, ppoSaved>>
  BY DEF Ppo!SaveData, Ppo!progress
<1>2. /\ ppoTracker \in Nat /\ ppoTracker < ppoSteps /\ ppoSteps \in Ppo!Steps
      /\ ppoTracker > 0 => ppoTracker \in Ppo!Steps
      /\ ppoFolders \in [Ppo!Steps -> PpoFolder] /\ ppoPos \in 0..PpoEpochLen
  BY <1>1, PpoSaving DEF Saving, PpoInv, PpoTyped
<1>3. ASSUME NEW s \in Ppo!Steps
      PROVE  /\ ppoFolders'[s] \in PpoFolder
             /\ ppoFolders'[s].here = ppoFolders[s].here /\ ppoFolders'[s].shard = ppoFolders[s].shard
             /\ s # ppoSteps => ppoFolders'[s].data = ppoFolders[s].data
             /\ ppoFolders'[ppoSteps].data = ppoPos
  BY <1>1, <1>2 DEF PpoFolder
<1>4. PpoTyped'
  <2>1. ppoFolders' \in [Ppo!Steps -> PpoFolder]
    BY <1>1, <1>2, <1>3
  <2>. QED
    BY <1>1, <2>1 DEF PpoInv, PpoTyped, Saving
<1>5. PpoShards' /\ PpoPlace'
  BY <1>1, <1>3 DEF PpoInv, PpoShards, PpoPlace, Saving
<1>6. PpoTracked'
  <2>1. ppoTracker > 0 => ppoTracker \in Ppo!Steps /\ ppoTracker # ppoSteps
    BY <1>2
  <2>. QED
    BY <1>1, <1>3, <2>1 DEF PpoInv, PpoTracked, PpoShardsOf, Saving
<1>7. \A i \in DOMAIN PpoRoles : HasSaved(i)' /\ HasSaved(i)
  BY <1>1 DEF HasSaved
<1>8. PpoWritten'
  BY <1>1, <1>2, <1>3, <1>7 DEF PpoInv, PpoWritten, PpoShardsOf
<1>9. PpoSaved'
  BY <1>1, <1>7 DEF PpoInv, PpoSaved, Saving
<1>. QED
  BY <1>4, <1>5, <1>6, <1>8, <1>9 DEF PpoInv

\* The tracker names the step only when all of it is written.
LEMMA PpoWriteTracker == ASSUME PpoInv, Ppo!WriteTracker PROVE PpoInv'
<1>1. /\ ppoPc = "tracker" /\ ppoTracker' = ppoSteps /\ ppoSteps' = ppoSteps + 1
      /\ ppoPc' = IF ppoSteps >= Ppo!Total THEN "done" ELSE "train"
      /\ UNCHANGED <<ppoFolders, ppoStarts, asked, ppoToSave, ppoEpoch, ppoPos, ppoModel, ppoSaved>>
  BY DEF Ppo!WriteTracker, Ppo!NextStep, Ppo!IsLastStep
<1>2. /\ ppoSteps \in Nat \ {0} /\ ppoSteps \in 1..(Ppo!Total + ppoStarts)
      /\ ppoStarts \in Nat /\ Ppo!Total \in Nat
  BY <1>1, PpoConstants DEF PpoInv, PpoTyped, PpoPlace, Saving
<1>3. /\ ppoSteps \in 0..(Ppo!Total + ppoStarts) /\ ppoSteps + 1 \in 0..(Ppo!Total + ppoStarts + 1)
      /\ ppoPc' \in {"done", "train"}
      /\ ppoPc' = "train" => ppoSteps + 1 \in 1..(Ppo!Total + ppoStarts)
  BY <1>1, <1>2
<1>4. PpoTyped'
  BY <1>1, <1>3 DEF PpoInv, PpoTyped, Saving
<1>5. PpoShards' /\ PpoPlace'
  <2>1. ppoPos % PpoEpochLen = ((ppoSteps + 1) - 1) % PpoEpochLen
    <3>1. ppoPos = DataAt(ppoSteps)
      BY <1>1 DEF PpoInv, PpoPlace, Saving
    <3>. QED
      BY <1>2, <3>1, DataAtFacts
  <2>. QED
    BY <1>1, <1>3, <2>1 DEF PpoInv, PpoShards, PpoPlace, Saving
<1>6. \A i \in DOMAIN PpoRoles : HasSaved(i) /\ ~HasSaved(i)'
  BY <1>1, <1>3 DEF HasSaved
<1>7. PpoTracked'
  <2>1. /\ ppoFolders[ppoSteps].here /\ ppoFolders[ppoSteps].data = DataAt(ppoSteps)
        /\ \A i \in DOMAIN PpoRoles : PpoShardsOf(ppoSteps, PpoRoles[i], Ranks)
    BY <1>1, <1>6 DEF PpoInv, PpoWritten, PpoPlace, Saving
  <2>2. \A o \in Ppo!RoleSet : PpoShardsOf(ppoSteps, o, Ranks)
    BY <2>1, PpoNames
  <2>3. /\ ((ppoSteps + 1) - 1) - ppoSteps = 0 /\ ppoSteps < ppoSteps + 1 /\ 0 <= ppoSteps
        /\ (ppoSteps + 1) - 1 = ppoSteps
    BY <1>2
  <2>4. ppoSteps % PpoSaveFreq >= 0
    <3>1. ppoSteps % PpoSaveFreq \in 0..(PpoSaveFreq - 1)
      BY <1>2, OneMore, PpoConstants
    <3>. QED
      BY <3>1, PpoConstants
  <2>. QED
    BY <1>1, <1>3, <2>1, <2>2, <2>3, <2>4 DEF PpoTracked, PpoShardsOf, Saving
<1>8. PpoWritten'
  BY <1>1, <1>3, <1>6 DEF PpoWritten
<1>9. PpoSaved'
  BY <1>1, <1>3, <1>6 DEF PpoInv, PpoSaved, Saving
<1>. QED
  BY <1>4, <1>5, <1>7, <1>8, <1>9 DEF PpoInv

\* The file that is written when the job dies is the tracker, or none of the
\* tracked ones.
LEMMA PpoCrash == ASSUME PpoInv, Ppo!Crash PROVE PpoInv'
<1>. DEFINE R == Ppo!Role
            Dying(s) ==
              /\ ppoFolders'[s] \in PpoFolder
              /\ ppoFolders'[s] = ppoFolders[s] \/ (ppoPc \in Saving /\ s = ppoSteps)
              /\ \A o \in Ppo!RoleSet, k \in Ranks :
                   ppoFolders'[s].shard[o][k] \in {ppoFolders[s].shard[o][k], Ppo!TornShard}
<1>1. /\ ppoPc' = "off" /\ ppoTracker' \in {ppoTracker, -1}
      /\ UNCHANGED <<ppoStarts, asked, ppoToSave, ppoSteps, ppoEpoch, ppoPos, ppoModel, ppoSaved>>
  BY PpoNames DEF Ppo!Crash, Ppo!progress
<1>2. /\ ppoPc \in Saving => /\ ppoTracker < ppoSteps /\ ppoSteps \in Ppo!Steps /\ R \in Ppo!RoleSet
      /\ ppoTracker \in Int /\ ppoTracker <= Ppo!Total + PpoMaxStarts
      /\ ppoFolders \in [Ppo!Steps -> PpoFolder]
  <2>1. /\ ppoTracker \in Int /\ ppoTracker <= Ppo!Total + ppoStarts /\ ppoStarts \in Nat
        /\ ppoStarts <= PpoMaxStarts /\ PpoMaxStarts \in Nat /\ Ppo!Total \in Nat
    BY PpoConstants DEF PpoInv, PpoTyped
  <2>2. ppoFolders \in [Ppo!Steps -> PpoFolder]
    BY DEF PpoInv, PpoTyped
  <2>3. ppoPc \in Saving => /\ ppoTracker < ppoSteps /\ ppoSteps \in Ppo!Steps /\ R \in Ppo!RoleSet
    BY PpoSaving
  <2>. QED
    BY <2>1, <2>2, <2>3
<1>3. ASSUME NEW s \in Ppo!Steps
      PROVE  Dying(s)
  <2>0. ppoFolders[s] \in PpoFolder
    BY <1>2
  <2>1. CASE ppoFolders' = ppoFolders
    BY <2>0, <2>1
  <2>2. ASSUME NEW torn \in SUBSET ppoToSave, ppoPc = "shards",
               ppoFolders' = [ppoFolders EXCEPT ![ppoSteps].shard[R] =
                 [k \in Ranks |-> IF k \in torn THEN Ppo!TornShard ELSE ppoFolders[ppoSteps].shard[R][k]]]
        PROVE  Dying(s)
    <3>1. Ppo!TornShard \in Seq(Int) /\ ppoSteps \in Ppo!Steps /\ R \in Ppo!RoleSet /\ ppoPc \in Saving
      BY <1>2, <2>2, PpoNames DEF Saving
    <3>. HIDE DEF R
    <3>2. CASE s # ppoSteps
      BY <1>2, <2>0, <2>2, <3>1, <3>2
    <3>3. CASE s = ppoSteps
      BY <1>2, <2>0, <2>2, <3>1, <3>3 DEF PpoFolder
    <3>. QED
      BY <3>2, <3>3
  <2>3. ASSUME ppoPc = "data", ppoFolders' = [ppoFolders EXCEPT ![ppoSteps].data = -1]
        PROVE  Dying(s)
    BY <1>2, <2>0, <2>3 DEF PpoFolder, Saving
  <2>. QED
    BY <2>1, <2>2, <2>3, PpoNames DEF Ppo!Crash
<1>. HIDE DEF R
<1>4. PpoTyped'
  <2>1. ppoFolders' \in [Ppo!Steps -> PpoFolder]
    <3>1. ppoFolders' = [s \in Ppo!Steps |-> ppoFolders'[s]]
      BY <1>2 DEF Ppo!Crash
    <3>. QED
      BY <1>3, <3>1
  <2>. QED
    BY <1>1, <2>1 DEF PpoInv, PpoTyped, Saving
<1>5. PpoShards'
  BY <1>3 DEF PpoInv, PpoShards
<1>6. PpoPlace' /\ PpoSaved' /\ PpoWritten'
  BY <1>1 DEF PpoInv, PpoPlace, PpoSaved, PpoWritten, HasSaved, Saving
<1>7. PpoTracked'
  <2>1. ppoTracker > 0 => ppoTracker \in Ppo!Steps /\ ppoFolders'[ppoTracker] = ppoFolders[ppoTracker]
    BY <1>2, <1>3, PpoNames, PpoConstants
  <2>. QED
    BY <1>1, <2>1 DEF PpoInv, PpoTracked, PpoShardsOf, Saving
<1>. QED
  BY <1>4, <1>5, <1>6, <1>7 DEF PpoInv

\* A job that was never started has saved nothing.
LEMMA PpoInit == Ppo!Init => PpoInv
<1>. SUFFICES ASSUME Ppo!Init PROVE PpoInv
  OBVIOUS
<1>1. /\ ppoTracker = 0 /\ ppoFolders = [s \in Ppo!Steps |-> Ppo!EmptyFolder]
      /\ ppoStarts = 0 /\ ppoPc = "off" /\ asked = 1 /\ ppoToSave = {}
      /\ ppoSteps = 0 /\ ppoEpoch = 0 /\ ppoPos = 0 /\ ppoModel = Ppo!Untrained
      /\ ppoSaved = [o \in Ppo!RoleSet |-> <<>>]
  BY PpoNames DEF Ppo!Init
<1>2. PpoTyped
  BY <1>1, PpoNames, PpoConstants DEF PpoTyped
<1>3. PpoShards
  <2>1. \A s \in Ppo!Steps : ppoFolders[s].shard = Ppo!NoShards
    BY <1>1 DEF Ppo!EmptyFolder
  <2>. QED
    BY <2>1, PpoNames DEF PpoShards
<1>4. PpoPlace /\ PpoTracked /\ PpoWritten /\ PpoSaved
  BY <1>1 DEF PpoPlace, PpoTracked, PpoWritten, PpoSaved, HasSaved, Saving
<1>. QED
  BY <1>2, <1>3, <1>4 DEF PpoInv

\* Every step of the trainer keeps the invariant.
LEMMA PpoStep == ASSUME MaxKeep # 1, PpoInv, Ppo!Next \/ UNCHANGED ppoVars PROVE PpoInv'
<1>1. CASE UNCHANGED ppoVars
  <2>1. UNCHANGED <<ppoTracker, ppoFolders, ppoStarts, ppoPc, asked, ppoToSave, ppoSteps, ppoEpoch,
                    ppoPos, ppoModel, ppoSaved>>
    BY <1>1 DEF ppoVars
  <2>2. PpoTyped' /\ PpoShards' /\ PpoPlace'
    BY <2>1 DEF PpoInv, PpoTyped, PpoShards, PpoPlace
  <2>3. PpoTracked' /\ PpoWritten' /\ PpoSaved'
    BY <2>1 DEF PpoInv, PpoTracked, PpoShardsOf, PpoWritten, PpoSaved, HasSaved
  <2>. QED
    BY <2>2, <2>3 DEF PpoInv
<1>. QED
  BY <1>1, PpoStart, PpoLoadFails, PpoLoadNothing, PpoLoadCheckpoint, PpoTrainStep, PpoEndEpoch,
     PpoRotate, PpoSaveShard, PpoAllSaved, PpoSaveData, PpoWriteTracker, PpoCrash DEF Ppo!Next

\* What the invariant says of the job.
LEMMA PpoRight ==
  ASSUME PpoInv
  PROVE  Ppo!TypeOK /\ Ppo!TrainedOnce /\ Ppo!TrackedIsWhole /\ Ppo!LittleIsLost
<1>1. /\ ppoStarts \in Nat /\ ppoStarts <= PpoMaxStarts /\ PpoMaxStarts \in Nat /\ Ppo!Total \in Nat
      /\ ppoTracker \in Int /\ -1 <= ppoTracker /\ ppoTracker <= Ppo!Total + ppoStarts
      /\ ppoSteps \in Nat /\ ppoSteps <= Ppo!Total + ppoStarts + 1
  BY PpoConstants DEF PpoInv, PpoTyped
<1>2. /\ ppoTracker \in (1..(Ppo!Total + PpoMaxStarts)) \cup {0, -1}
      /\ ppoSteps \in 0..(Ppo!Total + PpoMaxStarts + 1)
  BY <1>1
<1>3. Ppo!TypeOK
  <2>1. ASSUME NEW s \in Ppo!Steps
        PROVE  /\ ppoFolders[s].here \in BOOLEAN
               /\ ppoFolders[s].data \in (0..PpoEpochLen) \cup {Ppo!Torn}
               /\ \A o \in Ppo!RoleSet, k \in Ranks :
                    \/ ppoFolders[s].shard[o][k] \in {Ppo!NoShard, Ppo!TornShard}
                    \/ Len(ppoFolders[s].shard[o][k]) <= s
    <3>1. ppoFolders[s] \in PpoFolder
      BY DEF PpoInv, PpoTyped
    <3>2. s + 1 \in Nat \ {0} /\ (s + 1) - 1 = s
      BY PpoNames, PpoConstants
    <3>3. \A o \in Ppo!RoleSet : Len(Ppo!Learned(o, s + 1)) <= s
      BY <3>2, LearnedFacts
    <3>. QED
      BY <3>1, <3>3, PpoNames DEF PpoFolder, PpoInv, PpoShards
  <2>2. \A o \in Ppo!RoleSet : Ppo!Range(ppoSaved[o]) \subseteq Ppo!Steps
    <3>1. \A o \in Ppo!RoleSet : ppoSaved[o] \in Seq(Ppo!Steps)
      BY DEF PpoInv, PpoSaved
    <3>. QED
      BY <3>1 DEF Ppo!Range
  <2>. QED
    BY <1>2, <2>1, <2>2, PpoNames DEF PpoInv, PpoTyped, Saving, Ppo!TypeOK
<1>4. Ppo!TrainedOnce
  BY DEF PpoInv, PpoPlace, PpoModel, Ppo!TrainedOnce
<1>5. Ppo!TrackedIsWhole
  BY DEF PpoInv, PpoTracked, PpoShardsOf, DataAt, Ppo!TrackedIsWhole
<1>6. Ppo!LittleIsLost
  <2>. SUFFICES ASSUME ppoPc = "train" PROVE ppoSteps - ppoTracker <= PpoSaveFreq
    BY DEF Ppo!LittleIsLost
  <2>1. (ppoSteps - 1) - ppoTracker <= (ppoSteps - 1) % PpoSaveFreq /\ ppoSteps \in Nat \ {0}
    BY PpoConstants DEF PpoInv, PpoTracked, PpoPlace, PpoTyped
  <2>2. ppoSteps - 1 \in Nat
    BY <2>1
  <2>3. (ppoSteps - 1) % PpoSaveFreq \in 0..(PpoSaveFreq - 1)
    BY <2>2, OneMore, PpoConstants
  <2>. QED
    BY <1>1, <2>1, <2>3, PpoConstants
<1>. QED
  BY <1>3, <1>4, <1>5, <1>6

(***************************************************************************)
(* SftTrainer, together.                                                   *)
(***************************************************************************)
LEMMA SftInit == Sft!Init => SftInv
<1>. SUFFICES ASSUME Sft!Init PROVE SftInv
  OBVIOUS
<1>1. /\ sftTracker = 0 /\ sftFolders = [s \in Sft!Steps |-> Sft!EmptyFolder]
      /\ sftStarts = 0 /\ sftPc = "off" /\ sftToSave = {}
      /\ step = 0 /\ sftEpoch = 0 /\ sftPos = 0 /\ sftSaved = <<>>
  BY SftNames DEF Sft!Init
<1>2. SftTyped
  BY <1>1, SftNames, SftConstants DEF SftTyped
<1>3. SftShards
  BY <1>1, SftNames DEF SftShards
<1>4. SftPlace /\ SftTracked /\ SftWritten /\ SftSaved
  BY <1>1, NoneSaved DEF SftPlace, SftTracked, SftWritten, SftSaved, Saving
<1>. QED
  BY <1>2, <1>3, <1>4 DEF SftInv

\* Every step of the trainer keeps the invariant.
LEMMA SftStep ==
  ASSUME MaxKeep # 1, SavesInEpochs, SftInv, Sft!Next \/ UNCHANGED sftVars PROVE SftInv'
<1>1. CASE UNCHANGED sftVars
  <2>1. UNCHANGED <<sftTracker, sftFolders, sftStarts, sftPc, sftToSave, step, sftEpoch, sftPos,
                    sftModel, sftSaved>>
    BY <1>1 DEF sftVars
  <2>2. SftTyped' /\ SftShards' /\ SftPlace' /\ SftSaved'
    BY <2>1 DEF SftInv, SftTyped, SftShards, SftPlace, SftSaved
  <2>3. SftTracked' /\ SftWritten'
    BY <2>1 DEF SftInv, SftTracked, SftShardsOf, SftDataOf, SftWritten
  <2>. QED
    BY <2>2, <2>3 DEF SftInv
<1>. QED
  BY <1>1, SftStart, SftLoadNothing, SftLoadCheckpoint, SftTrainStep, SftEndEpoch,
     SftRotate, SftSaveShard, SftAllSaved, SftSaveData, SftRenameTracker, SftCrash DEF Sft!Next

\* What the invariant says of the job.
LEMMA SftRight ==
  ASSUME SftInv
  PROVE  Sft!TypeOK /\ Sft!TrainedOnce /\ Sft!ResumesLatest /\ Sft!EndsComplete
<1>1. Sft!TypeOK
  <2>1. ASSUME NEW s \in Sft!Steps
        PROVE  /\ sftFolders[s].here \in BOOLEAN
               /\ sftFolders[s].data \in (0..SftEpochLen) \cup {Sft!Torn}
               /\ \A k \in Ranks :
                    \/ sftFolders[s].shard["model"][k] \in {Sft!NoShard, Sft!TornShard}
                    \/ Len(sftFolders[s].shard["model"][k]) = s
    <3>1. sftFolders[s] \in SftFolder
      BY DEF SftInv, SftTyped
    <3>2. Len(Sft!Batches(s)) = s
      BY BatchesFacts, SftNames, SftConstants
    <3>. QED
      BY <3>1, <3>2, SftNames DEF SftFolder, SftInv, SftShards
  <2>2. Sft!Range(sftSaved) \subseteq Sft!Steps
    <3>1. sftSaved \in Seq(Nat \ {0}) /\ \A i \in DOMAIN sftSaved : sftSaved[i] <= Sft!Total
      BY DEF SftInv, SftSaved, Climbs
    <3>2. ASSUME NEW i \in DOMAIN sftSaved
          PROVE  sftSaved[i] \in 1..Sft!Total
      <4>1. sftSaved[i] \in Nat \ {0} /\ sftSaved[i] <= Sft!Total
        BY <3>1
      <4>. QED
        BY <4>1, SftConstants
    <3>. QED
      BY <3>2, SftNames DEF Sft!Range
  <2>3. sftTracker \in Sft!Steps \cup {Sft!NoFile}
    BY SftNames, SftConstants DEF SftInv, SftTyped
  <2>. QED
    BY <2>1, <2>2, <2>3, SftNames DEF SftInv, SftTyped, Saving, Sft!TypeOK
<1>2. Sft!TrainedOnce
  BY DEF SftInv, SftPlace, Sft!TrainedOnce
<1>3. Sft!ResumesLatest
  BY SftFinds, SftNames DEF Sft!ResumesLatest
<1>4. Sft!EndsComplete
  BY SftNames, SftConstants DEF SftInv, SftTracked, SftShardsOf, Sft!EndsComplete
<1>. QED
  BY <1>1, <1>2, <1>3, <1>4

\* No step touches what the tracker names.
LEMMA SftNamed == ASSUME MaxKeep # 1, SftInv, Sft!Next PROVE Sft!NamedStep
<1>. SUFFICES ASSUME sftTracker # 0, sftTracker' = sftTracker
              PROVE  sftFolders'[sftTracker] = sftFolders[sftTracker]
  BY SftNames DEF Sft!NamedStep
<1>1. /\ sftTracker \in Nat /\ sftTracker \in Sft!Steps
      /\ sftFolders \in [Sft!Steps -> SftFolder] /\ sftFolders[sftTracker].here
      /\ sftPc \in Saving => sftTracker < step /\ step \in Nat
      /\ sftPc = "rotate" => Climbs(sftSaved, sftTracker)
  BY SftNames, SftConstants DEF SftInv, SftTyped, SftTracked, SftShardsOf, SftSaved
<1>2. CASE Sft!Rotate
  <2>1. sftTracker \notin Sft!Range(Sft!Outdated(sftSaved)) /\ sftTracker # step
    <3>1. sftPc = "rotate" /\ Climbs(sftSaved, sftTracker) /\ sftTracker < step
      BY <1>1, <1>2 DEF Sft!Rotate, Saving
    <3>2. \A s \in Sft!Range(Sft!Outdated(sftSaved)) : s < sftTracker
      BY <1>1, <3>1, SftOutdated
    <3>. QED
      BY <1>1, <3>1, <3>2
  <2>2. sftFolders'[sftTracker] = [sftFolders[sftTracker] EXCEPT !.here = @ \/ sftTracker = step]
    BY <1>1, <1>2, <2>1 DEF Sft!Rotate
  <2>. QED
    BY <1>1, <2>1, <2>2 DEF SftFolder
<1>3. CASE \E k \in Ranks : Sft!SaveShard(k)
  BY <1>1, <1>3 DEF Sft!SaveShard, Saving
<1>4. CASE Sft!SaveData
  BY <1>1, <1>4 DEF Sft!SaveData, Saving
<1>5. CASE Sft!Crash
  BY <1>1, <1>5 DEF Sft!Crash, Saving
<1>6. CASE Sft!Start \/ Sft!LoadNothing \/ Sft!LoadCheckpoint \/ Sft!TrainStep \/ Sft!EndEpoch
           \/ Sft!AllSaved \/ Sft!RenameTracker
  BY <1>6 DEF Sft!Start, Sft!LoadNothing, Sft!LoadCheckpoint, Sft!TrainStep, Sft!EndEpoch,
              Sft!AllSaved, Sft!RenameTracker, Sft!disk
<1>. QED
  BY <1>2, <1>3, <1>4, <1>5, <1>6 DEF Sft!Next

(***************************************************************************)
(* OneStepOff: how far the counters go.                                    *)
(***************************************************************************)
Trained == Seq(1..EpochLen)

\* A job that is resumed at its end makes one step more.
Bounds ==
  /\ starts \in 0..MaxStarts /\ epoch \in 0..Epochs
  /\ ckpt.steps <= Total + starts /\ steps <= Total + starts + 1
  /\ pc \in {"load", "validated"} => ckpt.steps < Total + starts
  /\ pc = "validated" => steps = ckpt.steps
  /\ pc \in {"draw", "launch", "get", "train", "save"} => steps <= Total + starts
  /\ actor \in Trained /\ rollout \in Trained /\ validated \in Trained /\ ckpt.weights \in Trained

\* There is a step to make.
LEMMA TotalFacts == Total \in Nat \ {0}
<1>1. \A a, b \in Nat \ {0} : a * b \in Nat \ {0}
  OBVIOUS
<1>. QED
  BY <1>1, OneStepOffAssumption DEF Total

\* No step goes further than the starts of the job allow.
LEMMA BoundsStep ==
  ASSUME IndInv, Bounds, [Next]_vars
  PROVE  Bounds'
<1>1. /\ Total \in Nat \ {0} /\ MaxStarts \in Nat /\ Epochs \in Nat \ {0} /\ EpochLen \in Nat \ {0}
      /\ starts \in Nat /\ steps \in Nat /\ ckpt.steps \in Nat /\ epoch \in Nat
      /\ <<>> \in Trained
  BY TotalFacts, OneStepOffAssumption DEF IndInv, Typed, Bounds, Trained
<1>2. ASSUME UNCHANGED <<ckpt, starts, epoch, actor, rollout, validated, steps>>,
             \/ pc' \in {pc, "off", "done"}
             \/ /\ pc \in {"draw", "launch", "get", "train", "save"}
                /\ pc' # "load" /\ pc' # "validated"
      PROVE  Bounds'
  BY <1>1, <1>2 DEF Bounds
<1>3. CASE Start
  <2>1. /\ starts' = starts + 1 /\ starts < MaxStarts /\ pc' = "load" /\ steps' = 0 /\ epoch' = 0
        /\ actor' = <<>> /\ rollout' = <<>> /\ validated' = <<>> /\ UNCHANGED ckpt
    BY <1>3 DEF Start
  <2>. QED
    BY <1>1, <2>1 DEF Bounds
<1>4. CASE Load
  <2>1. /\ pc = "load" /\ pc' = "validated" /\ actor' = ckpt.weights /\ steps' = ckpt.steps
        /\ UNCHANGED <<ckpt, starts, epoch, rollout, validated>>
    BY <1>4 DEF Load
  <2>. QED
    BY <1>1, <2>1 DEF Bounds
<1>5. CASE FirstStep
  <2>1. /\ pc = "validated" /\ pc' = "draw" /\ steps' = steps + 1
        /\ UNCHANGED <<ckpt, starts, epoch, actor, rollout, validated>>
    BY <1>5 DEF FirstStep, groups, place
  <2>. QED
    BY <1>1, <2>1 DEF Bounds
<1>6. CASE Draw \/ NoneLeft \/ Launch \/ Get
  BY <1>2, <1>6 DEF Draw, NoneLeft, Launch, Get, Continue, groups, place
<1>7. CASE NextEpoch
  <2>1. /\ epoch < Epochs /\ epoch' = epoch + 1
        /\ UNCHANGED <<ckpt, starts, pc, steps, actor, rollout, validated>>
    BY <1>7 DEF NextEpoch, groups
  <2>. QED
    BY <1>1, <2>1 DEF Bounds
<1>8. CASE Train
  <2>1. /\ pc = "train" /\ pc' = "save" /\ actor' = Append(actor, batch.at)
        /\ UNCHANGED <<ckpt, starts, steps, epoch, rollout, validated>>
    BY <1>8 DEF Train, place
  <2>2. batch.at \in 1..EpochLen
    <3>1. actor \in Weights
      BY DEF IndInv, Typed
    <3>2. Newest(actor) \in Batches
      <4>1. 0 \in Batches
        BY <1>1 DEF Batches
      <4>. QED
        BY <3>1, <4>1, NewestFacts
    <3>3. NextOf(Newest(actor)) \in 1..EpochLen /\ NextOf(Newest(actor)) \in Batches
      BY <3>2, NextFacts
    <3>4. NextOf(NextOf(Newest(actor))) \in 1..EpochLen
      BY <3>3, NextFacts
    <3>. QED
      BY <2>1, <3>3, <3>4 DEF IndInv, Turns, Due
  <2>3. actor' \in Trained
    BY <2>1, <2>2, AppendProperties DEF Bounds, Trained
  <2>. QED
    BY <1>1, <2>1, <2>3 DEF Bounds
<1>9. CASE Save
  <2>1. /\ pc = "save" /\ steps' = steps + 1 /\ UNCHANGED <<starts, epoch, actor, rollout, validated>>
        /\ \/ ckpt' = ckpt
           \/ ckpt' = [steps |-> steps, pos |-> pos, weights |-> actor, resumed |-> resumed]
        /\ \/ pc' = "done"
           \/ pc' = "get" /\ steps < Total
    BY <1>1, <1>9 DEF Save, groups, place, IsLastStep
  <2>2. /\ steps <= Total + starts /\ steps + 1 <= Total + starts + 1
        /\ steps < Total => steps + 1 <= Total + starts
    BY <1>1, <2>1 DEF Bounds
  <2>3. ckpt'.steps <= Total + starts /\ ckpt'.weights \in Trained
    BY <2>1, <2>2 DEF Bounds
  <2>. QED
    BY <1>1, <2>1, <2>2, <2>3 DEF Bounds
<1>10. CASE Groups
  <2>1. /\ UNCHANGED <<ckpt, starts, epoch, steps, pc>>
        /\ {actor', rollout', validated'} \subseteq {actor, rollout, validated}
    BY <1>10 DEF Groups, Sync, Generate, GenerateValidation, place
  <2>. QED
    BY <1>1, <2>1 DEF Bounds
<1>11. CASE Crash
  BY <1>2, <1>11 DEF Crash, place
<1>12. CASE UNCHANGED vars
  <2>1. UNCHANGED <<ckpt, starts, epoch, actor, rollout, validated, steps, pc>>
    BY <1>12 DEF vars, groups, place
  <2>. QED
    BY <2>1 DEF Bounds
<1>. QED
  BY <1>3, <1>4, <1>5, <1>6, <1>7, <1>8, <1>9, <1>10, <1>11, <1>12 DEF Next, Driver

\* A job that was never started has made no step.
LEMMA BoundsInit == Init => Bounds
<1>. SUFFICES ASSUME Init PROVE Bounds
  OBVIOUS
<1>1. <<>> \in Trained
  BY DEF Trained
<1>. QED
  BY <1>1, TotalFacts, OneStepOffAssumption DEF Init, Bounds, NoCheckpoint

\* The queues of the groups are short.
LEMMA QueuesShort == ASSUME IndInv PROVE calls.actor \in {<<>>, <<"sync">>} /\ Len(calls.rollout) <= 2
<1>1. calls \in {Idle, Both, OfRollout(<<"generate">>), OfRollout(<<"validate">>),
                 OfRollout(<<"generate", "validate">>)}
  BY DEF IndInv, Typed, Queues
<1>2. /\ Len(<<>>) <= 2 /\ Len(<<"sync">>) <= 2 /\ Len(<<"generate">>) <= 2 /\ Len(<<"validate">>) <= 2
      /\ Len(<<"generate", "validate">>) <= 2
  OBVIOUS
<1>3. CASE calls \in {Idle, Both}
  BY <1>2, <1>3, QueueFacts
<1>4. ASSUME NEW q, calls = OfRollout(q), Len(q) <= 2
      PROVE  calls.actor \in {<<>>, <<"sync">>} /\ Len(calls.rollout) <= 2
  BY <1>4, QueueFacts
<1>. QED
  BY <1>1, <1>2, <1>3, <1>4

\* A sequence over a set names nothing else.
LEMMA RangeWithin == ASSUME NEW S, NEW w \in Seq(S) PROVE Range(w) \subseteq S
<1>1. \A i \in DOMAIN w : w[i] \in S
  OBVIOUS
<1>. QED
  BY <1>1 DEF Range

\* What the two invariants say of the job.
LEMMA OneRight == ASSUME IndInv, Bounds PROVE TypeOK /\ FollowsOn
<1>1. /\ Total \in Nat /\ MaxStarts \in Nat /\ starts \in Nat /\ starts <= MaxStarts
      /\ steps \in Nat /\ ckpt.steps \in Nat /\ ckpt.steps <= Total + starts /\ steps <= Total + starts + 1
  BY TotalFacts, OneStepOffAssumption DEF IndInv, Typed, Bounds
<1>2. ckpt.steps \in 0..(Total + MaxStarts) /\ steps \in 0..(Total + MaxStarts + 1)
  BY <1>1
<1>3. \A w \in {actor, rollout, validated} : Range(w) \subseteq 1..EpochLen
  <2>1. ASSUME NEW w \in Trained
        PROVE  Range(w) \subseteq 1..EpochLen
    BY RangeWithin DEF Trained
  <2>. QED
    BY <2>1 DEF Bounds
<1>4. TypeOK
  BY <1>2, <1>3, QueuesShort DEF IndInv, Typed, Batches, Answers, Bounds, TypeOK
<1>5. FollowsOn
  BY DEF IndInv, Turns, Follows, FollowsOn
<1>. QED
  BY <1>4, <1>5

(***************************************************************************)
(* SpinTrainer.                                                            *)
(***************************************************************************)

\* A batch is drawn, and not trained on yet.
Early == {"sync", "generate", "log_prob", "score", "prepare", "update"}

\* What a step makes of the model and its checkpoint, in epochs of n batches.
SpinMoves(n) ==
  /\ spinPc' \in Early \cup {"off", "draw", "save", "finish", "ended"} /\ refDone' \in BOOLEAN
  /\ \/ /\ spinPc' = "draw" /\ spinSteps' = 1
        /\ spinBatch' = spinSaved.batch /\ left' = spinSaved.left /\ spinModel' = spinSaved.model
        /\ UNCHANGED spinSaved
     \/ /\ left > 0 /\ left' = left - 1 /\ spinBatch' = spinBatch + 1
        /\ spinPc = "draw"
        /\ UNCHANGED <<spinSaved, spinSteps, spinModel>>
     \/ /\ spinPc = "update" /\ spinPc' = "finish" /\ spinModel' = Append(spinModel, spinBatch)
        /\ UNCHANGED <<spinSaved, spinSteps, spinBatch, left>>
     \/ /\ spinPc' \in Early => spinPc \in Early
        /\ spinSteps' \in {spinSteps, spinSteps + 1} /\ left' \in {left, n}
        /\ spinSaved' \in {spinSaved, [step |-> spinSteps, model |-> spinModel,
                                       batch |-> spinBatch, left |-> left]}
        /\ UNCHANGED <<spinBatch, spinModel>>

\* The batches below b, each at most once and in order.
InOrder(m, b) ==
  /\ m \in Seq(Nat) /\ Len(m) <= b
  /\ \A i \in 2..Len(m) : m[i - 1] < m[i]
  /\ m # <<>> => m[Len(m)] <= b

SpinInv(n) ==
  /\ spinPc \in Early \cup {"off", "draw", "save", "finish", "ended"} /\ refDone \in BOOLEAN
  /\ spinSteps \in Nat /\ spinBatch \in Nat /\ left \in 0..n
  /\ spinSaved \in [step : Nat, model : Seq(Nat), batch : Nat, left : 0..n]
  /\ InOrder(spinSaved.model, spinSaved.batch)
  /\ InOrder(spinModel, IF spinPc \in Early THEN spinBatch - 1 ELSE spinBatch)

\* Another batch may be drawn, and then be trained on.
LEMMA InOrderFacts ==
  ASSUME NEW m, NEW b \in Int, InOrder(m, b)
  PROVE  /\ InOrder(m, b + 1) /\ InOrder(Append(m, b + 1), b + 1)
<1>1. m \in Seq(Nat) /\ Len(m) \in Nat /\ Len(m) <= b /\ b \in Nat
  BY DEF InOrder
<1>2. m # <<>> => m[Len(m)] \in Nat /\ m[Len(m)] <= b /\ Len(m) # 0
  BY <1>1 DEF InOrder
<1>3. InOrder(m, b + 1)
  BY <1>1, <1>2 DEF InOrder
<1>. DEFINE a == Append(m, b + 1)
            l == Len(m)
<1>4. /\ a \in Seq(Nat) /\ Len(a) = l + 1 /\ a[l + 1] = b + 1
      /\ \A i \in 1..l : a[i] = m[i]
  BY <1>1, AppendProperties
<1>. HIDE DEF a
<1>5. ASSUME NEW i \in 2..(l + 1)
      PROVE  a[i - 1] < a[i]
  <2>1. CASE i = l + 1
    <3>1. i - 1 = l /\ l \in 1..l /\ m # <<>>
      BY <1>1, <2>1
    <3>. QED
      BY <1>1, <1>2, <1>4, <2>1, <3>1
  <2>2. CASE i # l + 1
    <3>1. i \in 2..l /\ i - 1 \in 1..l /\ i \in 1..l
      BY <1>1, <2>2
    <3>. QED
      BY <1>4, <3>1 DEF InOrder
  <2>. QED
    BY <2>1, <2>2
<1>6. InOrder(a, b + 1)
  BY <1>1, <1>4, <1>5 DEF InOrder
<1>. QED
  BY <1>3, <1>6 DEF a

\* Nothing but the position of the loader is trained on twice.
LEMMA SpinStep ==
  ASSUME NEW n \in Nat, SpinInv(n), SpinMoves(n)
  PROVE  SpinInv(n)'
<1>1. /\ spinPc' \in Early \cup {"off", "draw", "save", "finish", "ended"} /\ refDone' \in BOOLEAN
      /\ spinSteps \in Nat /\ spinBatch \in Nat /\ left \in 0..n
      /\ spinSaved \in [step : Nat, model : Seq(Nat), batch : Nat, left : 0..n]
      /\ InOrder(spinSaved.model, spinSaved.batch)
      /\ InOrder(spinModel, IF spinPc \in Early THEN spinBatch - 1 ELSE spinBatch)
  BY DEF SpinInv, SpinMoves
<1>2. "draw" \notin Early /\ "finish" \notin Early /\ "update" \in Early
  BY DEF Early
<1>3. InOrder(spinModel, spinBatch) /\ spinModel \in Seq(Nat)
  <2>1. CASE spinPc \in Early
    <3>1. spinBatch - 1 \in Int /\ (spinBatch - 1) + 1 = spinBatch /\ InOrder(spinModel, spinBatch - 1)
      BY <1>1, <2>1
    <3>2. InOrder(spinModel, (spinBatch - 1) + 1)
      BY <3>1, InOrderFacts
    <3>. QED
      BY <3>1, <3>2 DEF InOrder
  <2>. QED
    BY <1>1, <2>1 DEF InOrder
<1>4. CASE /\ spinPc' = "draw" /\ spinSteps' = 1
           /\ spinBatch' = spinSaved.batch /\ left' = spinSaved.left /\ spinModel' = spinSaved.model
           /\ UNCHANGED spinSaved
  BY <1>1, <1>2, <1>4 DEF SpinInv
<1>5. CASE /\ left > 0 /\ left' = left - 1 /\ spinBatch' = spinBatch + 1 /\ spinPc = "draw"
           /\ UNCHANGED <<spinSaved, spinSteps, spinModel>>
  <2>1. left - 1 \in 0..n /\ spinBatch + 1 \in Nat /\ (spinBatch + 1) - 1 = spinBatch
    BY <1>1, <1>5
  <2>2. InOrder(spinModel, spinBatch + 1)
    BY <1>1, <1>3, InOrderFacts
  <2>. QED
    BY <1>1, <1>3, <1>5, <2>1, <2>2 DEF SpinInv
<1>6. CASE /\ spinPc = "update" /\ spinPc' = "finish" /\ spinModel' = Append(spinModel, spinBatch)
           /\ UNCHANGED <<spinSaved, spinSteps, spinBatch, left>>
  <2>1. spinBatch - 1 \in Int /\ (spinBatch - 1) + 1 = spinBatch /\ InOrder(spinModel, spinBatch - 1)
    BY <1>1, <1>2, <1>6
  <2>2. InOrder(Append(spinModel, (spinBatch - 1) + 1), (spinBatch - 1) + 1)
    BY <2>1, InOrderFacts
  <2>3. InOrder(spinModel', spinBatch)
    BY <1>6, <2>1, <2>2
  <2>. QED
    BY <1>1, <1>2, <1>6, <2>3 DEF SpinInv
<1>7. CASE /\ spinPc' \in Early => spinPc \in Early
           /\ spinSteps' \in {spinSteps, spinSteps + 1} /\ left' \in {left, n}
           /\ spinSaved' \in {spinSaved, [step |-> spinSteps, model |-> spinModel,
                                          batch |-> spinBatch, left |-> left]}
           /\ UNCHANGED <<spinBatch, spinModel>>
  <2>1. spinSteps' \in Nat /\ left' \in 0..n
    BY <1>1, <1>7
  <2>2. /\ spinSaved' \in [step : Nat, model : Seq(Nat), batch : Nat, left : 0..n]
        /\ InOrder(spinSaved'.model, spinSaved'.batch)
    BY <1>1, <1>3, <1>7
  <2>3. InOrder(spinModel', IF spinPc' \in Early THEN spinBatch' - 1 ELSE spinBatch')
    BY <1>1, <1>3, <1>7
  <2>. QED
    BY <1>1, <1>7, <2>1, <2>2, <2>3 DEF SpinInv
<1>. QED
  BY <1>4, <1>5, <1>6, <1>7 DEF SpinMoves

\* The steps of the trainer do no more.
LEMMA PairsMoves == ASSUME SpinInv(2), Pairs!Next PROVE SpinMoves(2)
<1>. USE DEF SpinMoves, SpinInv, Early
<1>1. CASE Pairs!Start
  BY <1>1 DEF Pairs!Start, Pairs!Reloaded
<1>2. CASE Pairs!Draw
  BY <1>2 DEF Pairs!Draw
<1>3. CASE Pairs!EndEpoch
  BY <1>3 DEF Pairs!EndEpoch, Pairs!NextEpoch
<1>4. CASE Pairs!SyncReference \/ Pairs!Generate \/ Pairs!LogProbs
  BY <1>4 DEF Pairs!SyncReference, Pairs!Generate, Pairs!LogProbs, Pairs!loop
<1>5. CASE Pairs!Score \/ Pairs!Prepare
  BY <1>5 DEF Pairs!Score, Pairs!Prepare, Pairs!loop
<1>6. CASE Pairs!Update
  BY <1>6 DEF Pairs!Update, Pairs!loop
<1>7. CASE Pairs!EndStep
  BY <1>7 DEF Pairs!EndStep, Pairs!NextEpoch, Pairs!Checkpoint
<1>8. CASE Pairs!Finish
  BY <1>8 DEF Pairs!Finish, Pairs!Checkpoint, Pairs!loop
<1>9. CASE Pairs!Crash
  BY <1>9 DEF Pairs!Crash, Pairs!loop
<1>. QED
  BY <1>1, <1>2, <1>3, <1>4, <1>5, <1>6, <1>7, <1>8, <1>9 DEF Pairs!Next
\* Nor with the rows balanced.
LEMMA MixedMoves == ASSUME SpinInv(3), Mixed!Next PROVE SpinMoves(3)
<1>. USE DEF SpinMoves, SpinInv, Early
<1>1. CASE Mixed!Start
  BY <1>1 DEF Mixed!Start, Mixed!Reloaded
<1>2. CASE Mixed!Draw
  BY <1>2 DEF Mixed!Draw
<1>3. CASE Mixed!EndEpoch
  BY <1>3 DEF Mixed!EndEpoch, Mixed!NextEpoch
<1>4. CASE Mixed!SyncReference \/ Mixed!Generate \/ Mixed!LogProbs
  BY <1>4 DEF Mixed!SyncReference, Mixed!Generate, Mixed!LogProbs, Mixed!loop
<1>5. CASE Mixed!Score \/ Mixed!Prepare
  BY <1>5 DEF Mixed!Score, Mixed!Prepare, Mixed!loop
<1>6. CASE Mixed!Update
  BY <1>6 DEF Mixed!Update, Mixed!loop
<1>7. CASE Mixed!EndStep
  BY <1>7 DEF Mixed!EndStep, Mixed!NextEpoch, Mixed!Checkpoint
<1>8. CASE Mixed!Finish
  BY <1>8 DEF Mixed!Finish, Mixed!Checkpoint, Mixed!loop
<1>9. CASE Mixed!Crash
  BY <1>9 DEF Mixed!Crash, Mixed!loop
<1>. QED
  BY <1>1, <1>2, <1>3, <1>4, <1>5, <1>6, <1>7, <1>8, <1>9 DEF Mixed!Next

\* A job that was never started has trained on nothing.
LEMMA SpinInit == (Pairs!Init => SpinInv(2)) /\ (Mixed!Init => SpinInv(3))
<1>1. <<>> \in Seq(Nat) /\ Len(<<>>) = 0
  OBVIOUS
<1>2. InOrder(<<>>, 0)
  BY <1>1 DEF InOrder
<1>3. "off" \notin Early
  BY DEF Early
<1>4. ASSUME NEW n \in Nat,
             spinSaved = [step |-> 0, model |-> <<>>, batch |-> 0, left |-> n], spinPc = "off",
             spinSteps = 0, spinBatch = 0, left = n, spinModel = <<>>, refDone = FALSE
      PROVE  SpinInv(n)
  <2>1. n \in 0..n
    BY <1>4
  <2>2. spinSaved \in [step : Nat, model : Seq(Nat), batch : Nat, left : 0..n]
    BY <1>1, <1>4, <2>1
  <2>. QED
    BY <1>2, <1>3, <1>4, <2>1, <2>2 DEF SpinInv
<1>5. Pairs!Init => SpinInv(2)
  BY <1>4 DEF Pairs!Init, Pairs!NoCheckpoint
<1>6. Mixed!Init => SpinInv(3)
  BY <1>4 DEF Mixed!Init, Mixed!NoCheckpoint
<1>. QED
  BY <1>5, <1>6

\* What the invariant of SPIN says of the model.
LEMMA SpinRight ==
  /\ SpinInv(2) => Pairs!TypeOK /\ Pairs!TrainedInOrder
  /\ SpinInv(3) => Mixed!TypeOK /\ Mixed!TrainedInOrder
<1>1. ASSUME NEW n \in Nat, SpinInv(n)
      PROVE  InOrder(spinModel, spinBatch)
  <2>1. spinBatch \in Nat /\ InOrder(spinModel, IF spinPc \in Early THEN spinBatch - 1 ELSE spinBatch)
    BY <1>1 DEF SpinInv
  <2>2. CASE spinPc \in Early
    <3>1. spinBatch - 1 \in Int /\ (spinBatch - 1) + 1 = spinBatch /\ InOrder(spinModel, spinBatch - 1)
      BY <2>1, <2>2
    <3>2. InOrder(spinModel, (spinBatch - 1) + 1)
      BY <3>1, InOrderFacts
    <3>. QED
      BY <3>1, <3>2
  <2>. QED
    BY <2>1, <2>2
<1>2. ASSUME SpinInv(2)
      PROVE  Pairs!TypeOK /\ Pairs!TrainedInOrder
  BY <1>1, <1>2 DEF SpinInv, InOrder, Early, Pairs!TypeOK, Pairs!TrainedInOrder
<1>3. ASSUME SpinInv(3)
      PROVE  Mixed!TypeOK /\ Mixed!TrainedInOrder
  BY <1>1, <1>3 DEF SpinInv, InOrder, Early, Mixed!TypeOK, Mixed!TrainedInOrder
<1>. QED
  BY <1>2, <1>3

(***************************************************************************)
(* The jobs, together.                                                     *)
(***************************************************************************)
SpinTurns ==
  IF part = "balanced" THEN SpinInv(3) ELSE SpinInv(2)

TrainingInv ==
  /\ PpoInv /\ SftInv
  /\ IndInv /\ Bounds
  /\ SpinTurns

\* A step that leaves a trainer alone leaves its invariant alone.
LEMMA OneRests == ASSUME IndInv, Bounds, UNCHANGED vars PROVE IndInv' /\ Bounds'
<1>1. [Next]_vars
  OBVIOUS
<1>. QED
  BY <1>1, TypedStep, QueuesStep, AgesStep, TurnsStep, BoundsStep DEF IndInv

\* A step of the trainer keeps its invariant.
LEMMA OneMoves == ASSUME IndInv, Bounds, Next PROVE IndInv' /\ Bounds'
<1>1. [Next]_vars
  OBVIOUS
<1>. QED
  BY <1>1, TypedStep, QueuesStep, AgesStep, TurnsStep, BoundsStep DEF IndInv

\* The same of SPIN.
LEMMA SpinRest == ASSUME SpinTurns, UNCHANGED <<part, spinVars>> PROVE SpinTurns'
<1>1. UNCHANGED <<part, spinSaved, spinPc, spinSteps, spinBatch, left, spinModel, refDone>>
  BY DEF spinVars
<1>2. ASSUME NEW n \in Nat, SpinInv(n)
      PROVE  SpinInv(n)'
  BY <1>1, <1>2 DEF SpinInv
<1>. QED
  BY <1>1, <1>2 DEF SpinTurns

\* None of the jobs was ever started.
LEMMA TrainingInvInit == TrainingInit => TrainingInv
<1>. SUFFICES ASSUME TrainingInit PROVE TrainingInv
  OBVIOUS
<1>1. PpoInv /\ SftInv
  BY PpoInit, SftInit DEF TrainingInit
<1>2. IndInv /\ Bounds
  BY InitInv, BoundsInit DEF TrainingInit
<1>3. SpinTurns
  <2>1. IF part = "balanced" THEN Mixed!Init ELSE Pairs!Init
    BY DEF TrainingInit, SpinRests
  <2>. QED
    BY <2>1, SpinInit DEF SpinTurns
<1>. QED
  BY <1>1, <1>2, <1>3 DEF TrainingInv

\* A step of one of the jobs leaves the others where they are.
LEMMA TrainingInvStep ==
  ASSUME MaxKeep # 1, SavesInEpochs, TrainingInv, [TrainingNext]_trainingVars
  PROVE  TrainingInv'
<1>. USE DEF TrainingInv
<1>1. CASE part = "ppo" /\ Ppo!Next /\ PpoOnly
  <2>1. UNCHANGED <<part, sftVars, vars, spinVars>>
    BY <1>1 DEF PpoOnly
  <2>2. PpoInv'
    BY <1>1, PpoStep
  <2>3. SftInv'
    BY <2>1, SftStep
  <2>. QED
    BY <2>1, <2>2, <2>3, OneRests, SpinRest
<1>2. CASE part = "sft" /\ Sft!Next /\ SftOnly
  <2>1. UNCHANGED <<part, ppoVars, vars, spinVars>>
    BY <1>2 DEF SftOnly
  <2>2. PpoInv'
    BY <2>1, PpoStep
  <2>3. SftInv'
    BY <1>2, SftStep
  <2>. QED
    BY <2>1, <2>2, <2>3, OneRests, SpinRest
<1>3. CASE part = "one" /\ Next /\ OneOnly
  <2>1. UNCHANGED <<part, ppoVars, sftVars, spinVars>>
    BY <1>3 DEF OneOnly
  <2>2. PpoInv'
    BY <2>1, PpoStep
  <2>3. SftInv'
    BY <2>1, SftStep
  <2>. QED
    BY <1>3, <2>1, <2>2, <2>3, OneMoves, SpinRest
<1>4. CASE UNCHANGED <<part, ppoVars, sftVars, vars>> /\ (\/ part = "pairs" /\ Pairs!Next
                                                          \/ part = "balanced" /\ Mixed!Next)
  <2>1. UNCHANGED <<part, ppoVars, sftVars, vars>>
    BY <1>4
  <2>2. PpoInv'
    BY <2>1, PpoStep
  <2>3. SftInv'
    BY <2>1, SftStep
  <2>4. SpinTurns'
    <3>1. CASE part = "pairs" /\ Pairs!Next
      <4>1. SpinInv(2) /\ part' # "balanced"
        BY <2>1, <3>1 DEF SpinTurns
      <4>2. SpinMoves(2)
        BY <3>1, <4>1, PairsMoves
      <4>3. SpinInv(2)'
        BY <4>1, <4>2, SpinStep
      <4>. QED
        BY <4>1, <4>3 DEF SpinTurns
    <3>2. CASE part = "balanced" /\ Mixed!Next
      <4>1. SpinInv(3) /\ part' = "balanced"
        BY <2>1, <3>2 DEF SpinTurns
      <4>2. SpinMoves(3)
        BY <3>2, <4>1, MixedMoves
      <4>3. SpinInv(3)'
        BY <4>1, <4>2, SpinStep
      <4>. QED
        BY <4>1, <4>3 DEF SpinTurns
    <3>. QED
      BY <1>4, <3>1, <3>2
  <2>. QED
    BY <2>1, <2>2, <2>3, <2>4, OneRests
<1>5. CASE UNCHANGED <<part, ppoVars, sftVars, vars, spinVars>>
  <2>1. PpoInv'
    BY <1>5, PpoStep
  <2>2. SftInv'
    BY <1>5, SftStep
  <2>. QED
    BY <1>5, <2>1, <2>2, OneRests, SpinRest
<1>. QED
  BY <1>1, <1>2, <1>3, <1>4, <1>5 DEF TrainingNext, trainingVars, DapoOnly, SpinOnly, MergerOnly

\* The invariant holds in every state of every execution.
LEMMA TrainingInvariance ==
  ASSUME MaxKeep # 1, SavesInEpochs
  PROVE  TrainingSpec => []TrainingInv
BY TrainingInvInit, TrainingInvStep, PTL DEF TrainingSpec

(* However often a job of PPO, of SFT, of the trainer one step ahead or of  *)
(* SPIN dies and is resumed, and wherever it dies, the batches are trained  *)
(* on in their turn, each once: with any number of ranks, epochs and starts.*)
THEOREM InTurnEverywhere ==
  ASSUME MaxKeep # 1, SavesInEpochs
  PROVE  TrainingSpec => []TrainedInTurn
<1>1. TrainingInv => TrainedInTurn
  BY PpoRight, SftRight, OneRight, SpinRight DEF TrainingInv, SpinTurns, TrainedInTurn
<1>. QED
  BY <1>1, TrainingInvariance, PTL

(* The step the tracker names has all its shards and the position of its    *)
(* data, at every moment of a save, of a rotation and of a resumed job; a   *)
(* crash loses no more than the steps since it.                             *)
THEOREM CheckpointsHold ==
  ASSUME MaxKeep # 1, SavesInEpochs
  PROVE  TrainingSpec => []TrackedIsWhole
<1>1. TrainingInv => TrackedIsWhole
  BY PpoRight, SftRight DEF TrainingInv, TrackedIsWhole
<1>. QED
  BY <1>1, TrainingInvariance, PTL

(* As long as the tracker names a checkpoint, no step of SFT touches it.    *)
THEOREM TrackedIsKept ==
  ASSUME MaxKeep # 1, SavesInEpochs
  PROVE  TrainingSpec => NamedIsKept
<1>1. ASSUME TrainingInv, [TrainingNext]_trainingVars
      PROVE  [part = "sft" => Sft!NamedStep]_trainingVars
  <2>1. CASE part = "sft" /\ TrainingNext
    <3>1. Sft!Next
      BY <2>1 DEF TrainingNext
    <3>. QED
      BY <1>1, <3>1, SftNamed DEF TrainingInv
  <2>. QED
    BY <1>1, <2>1
<1>. QED
  BY <1>1, TrainingInvariance, PTL DEF TrainingSpec, NamedIsKept
=============================================================================
