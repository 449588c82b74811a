------------------------- MODULE ActivationOffload -------------------------
(***************************************************************************)
(* The activations that layers save for the backward pass are copied to    *)
(* the CPU while later layers run and are copied back before they are      *)
(* needed.  The host runs ahead of the device and only puts work into three*)
(* streams: computation, copies out, copies in.  Work of one stream is done*)
(* in order, and that of two streams in any order unless one waits.        *)
(*                                                                         *)
(* What a layer saves is one block of memory: saved tensors that share     *)
(* their memory are copied once, and parameters are not copied.  Memory is *)
(* free when the host drops the last reference, and is given again at once *)
(* to work of the stream it was taken for: the allocator is external, and  *)
(* so are the autograd engine and the pinned memory of the CPU.            *)
(***************************************************************************)
EXTENDS Integers, Sequences

CONSTANTS
  Sizes,    \* layers of a model, and how many of them are copied
  Batches,  \* micro-batches, each a forward and a backward pass
  Blocks    \* blocks of memory of a stream

\* The memory holds a block of every layer, and another.
ActivationOffloadAssumption ==
  /\ \A z \in Sizes : z[1] \in 1..(Blocks - 1) /\ z[2] \in 1..z[1]
  /\ {Batches, Blocks} \subseteq Nat \ {0}

VARIABLES
  sizes,                  \* num_model_group and num_offload_group, which never change
  batch, pc, layer,       \* the host: micro-batch, what is next, and of which layer
  tag,                    \* the group a layer's block was saved under
  current_group,
  offloaded_group_count,
  tensor_tag_to_state,    \* [group -> saved block, Copied, or None]
  tensor_tag_to_buf,      \* [group -> block that is kept while it is copied, or None]
  group_offload_mapping,  \* groups that have been copied and not copied back
  queue, done,            \* of every stream: work to do, and how much is done
  memory,                 \* what is in a block, and in the copy of a group
  wrong                   \* a layer has read what it did not save

handler == <<current_group, offloaded_group_count, tensor_tag_to_state,
             tensor_tag_to_buf, group_offload_mapping>>
device == <<done, memory, wrong>>
vars == <<sizes, batch, pc, layer, tag, handler, queue, device>>

Layers == sizes[1]
Offload == sizes[2]
Groups == 0..(Layers - 1)
Streams == {"compute", "d2h", "h2d"}
Device == {"compute", "h2d"} \X (1..Blocks)
Cpu(g) == <<"cpu", g>>
Memory == Device \cup {Cpu(g) : g \in Groups}

None == <<>>
Copied == <<"copied">>

Init ==
  /\ sizes \in Sizes
  /\ batch = 1 /\ pc = "forward" /\ layer = 0
  /\ tag = [l \in Groups |-> 0]
  /\ current_group = 0 /\ offloaded_group_count = 0
  /\ tensor_tag_to_state = [g \in Groups |-> None]
  /\ tensor_tag_to_buf = [g \in Groups |-> None]
  /\ group_offload_mapping = {}
  /\ queue = [s \in Streams |-> <<>>] /\ done = [s \in Streams |-> 0]
  /\ memory = [c \in Memory |-> None]
  /\ wrong = FALSE

(***************************************************************************)
(* The streams, and the memory nothing refers to.  A piece of work names   *)
(* the memory it reads from and writes to, and what of it is meant to be   *)
(* there: the block of a layer in a micro-batch.                           *)
(***************************************************************************)
Put(q, s, work) == [q EXCEPT ![s] = Append(@, work)]

\* Mutation: a stream waits for what the other has done.
WaitStreamDone(q, s, t) == Put(q, s, [op |-> "wait", on |-> t, for |-> done[t]])
\* s.wait_stream(t): for all work that t has been given up to now.
WaitStream(q, s, t) ==
  Put(q, s, [op |-> "wait", on |-> t, for |-> done[t] + Len(q[t])])

\* Blocks of a stream that nothing refers to.
Free(s) ==
  {b \in {s} \X (1..Blocks) :
     \A g \in Groups : tensor_tag_to_state[g] # b /\ tensor_tag_to_buf[g] # b}

\* The first of them is given, so that memory is used again as soon as it can be.
Given(s) == CHOOSE b \in Free(s) : \A c \in Free(s) : b[2] <= c[2]

\* Mutation: every layer has a window.
WindowOfOne(i) == i
\* layer_window_map: the layer at whose end group i has been copied.
Window(i) ==
  (Layers \div Offload) * (i + 1) - 1 + (IF i < Layers % Offload THEN i + 1
                                         ELSE Layers % Offload)

Fails ==
  /\ pc' = "failed"
  /\ UNCHANGED <<sizes, batch, layer, tag, handler, queue, device>>

-----------------------------------------------------------------------------
\* tensor_push, as a layer saves its block.
Push ==
  /\ pc = "forward"
  /\ IF current_group \notin Groups \/ tensor_tag_to_state[current_group] # None
     THEN Fails
     ELSE /\ queue' = Put(queue, "compute",
                           [op |-> "write", to |-> Given("compute"),
                            of |-> <<batch, layer>>])
          /\ tensor_tag_to_state' =
               [tensor_tag_to_state EXCEPT ![current_group] = Given("compute")]
          /\ tensor_tag_to_buf' =
               IF current_group < Offload
               THEN [tensor_tag_to_buf EXCEPT ![current_group] = Given("compute")]
               ELSE tensor_tag_to_buf
          /\ tag' = [tag EXCEPT ![layer] = current_group]
          /\ pc' = "commit forward"
          /\ UNCHANGED <<sizes, batch, layer, current_group, offloaded_group_count,
                         group_offload_mapping, device>>

\* bulk_offload_group
Offloaded(q, g) ==
  IF tensor_tag_to_state[g] = None THEN q
  ELSE Put(q, "d2h", [op |-> "copy", from |-> tensor_tag_to_state[g], to |-> Cpu(g),
                      of |-> <<batch, g>>])

\* The groups a commit copies: the first at its own end, and then the next whenever
\* the one before has had its window.
Kickstarts == current_group = 0
WindowEnds == Window(offloaded_group_count) = current_group
CopiesNow ==
  {g \in 0..(Offload - 1) :
     \/ Kickstarts /\ g = 0
     \/ WindowEnds /\ g = offloaded_group_count + 1}

\* on_group_commit_forward, at the end of a layer.
CommitForward ==
  /\ pc = "commit forward"
  /\ IF offloaded_group_count >= Offload
        \/ \E g \in CopiesNow : tensor_tag_to_state[g] = Copied
     THEN Fails
     ELSE LET first == IF Kickstarts
                       THEN Offloaded(WaitStream(queue, "d2h", "compute"), 0)
                       ELSE queue
              both == WaitStream(WaitStream(first, "d2h", "compute"),
                                 "compute", "d2h")
          IN  /\ queue' = (IF ~WindowEnds THEN first
                           ELSE IF offloaded_group_count < Offload - 1
                                THEN Offloaded(both, offloaded_group_count + 1)
                                ELSE both)
              /\ tensor_tag_to_state' =
                   [g \in Groups |->
                      IF g \in CopiesNow /\ tensor_tag_to_state[g] # None THEN Copied
                      ELSE tensor_tag_to_state[g]]
              /\ tensor_tag_to_buf' =
                   IF WindowEnds
                   THEN [tensor_tag_to_buf EXCEPT ![offloaded_group_count] = None]
                   ELSE tensor_tag_to_buf
              /\ group_offload_mapping' = group_offload_mapping \cup CopiesNow
              /\ offloaded_group_count' =
                   offloaded_group_count + (IF WindowEnds THEN 1 ELSE 0)
              /\ current_group' = current_group + 1
              /\ IF layer < Layers - 1 THEN layer' = layer + 1 /\ pc' = "forward"
                 ELSE pc' = "commit backward" /\ UNCHANGED layer
              /\ UNCHANGED <<sizes, batch, tag, device>>

\* bulk_reload_group: the copy is in a block of the stream of copies in.
Reloaded(q, g) ==
  IF tensor_tag_to_state[g] # Copied THEN q
  ELSE Put(q, "h2d", [op |-> "copy", from |-> Cpu(g), to |-> Given("h2d"),
                      of |-> <<batch, g>>])

\* Mutation: nothing is counted down.
CountedKept(n) == n
Counted(n) == IF n > 1 THEN n - 1 ELSE n

\* on_group_commit_backward, before the backward pass of a layer.
CommitBackward ==
  LET g == offloaded_group_count - 1
      current == current_group - 1
      reloads == Window(g) = current
  IN  /\ pc = "commit backward"
      /\ IF current < 0 \/ g < 0 \/ (reloads /\ g \notin group_offload_mapping)
         THEN Fails
         ELSE /\ LET both == WaitStream(WaitStream(queue, "h2d", "compute"),
                                         "compute", "h2d")
                     q == IF reloads THEN Reloaded(both, g) ELSE queue
                 IN  queue' = (IF current = 0 THEN WaitStream(q, "compute", "h2d")
                               ELSE q)
              /\ tensor_tag_to_state' =
                   IF reloads /\ tensor_tag_to_state[g] = Copied
                   THEN [tensor_tag_to_state EXCEPT ![g] = Given("h2d")]
                   ELSE tensor_tag_to_state
              /\ group_offload_mapping' =
                   group_offload_mapping \ (IF reloads THEN {g} ELSE {})
              /\ offloaded_group_count' =
                   (IF current = 0 THEN 0
                    ELSE IF reloads THEN Counted(offloaded_group_count)
                    ELSE offloaded_group_count)
              /\ current_group' = current
              /\ pc' = "backward"
              /\ UNCHANGED <<sizes, batch, layer, tag, tensor_tag_to_buf, device>>

\* tensor_pop, as the backward pass of a layer asks for its block, reads it and
\* lets it go.
Pop ==
  LET b == tensor_tag_to_state[tag[layer]]
  IN  /\ pc = "backward"
      /\ IF b \in {None, Copied} THEN Fails
         ELSE /\ queue' = Put(queue, "compute",
                           [op |-> "read", from |-> b, of |-> <<batch, layer>>])
              /\ tensor_tag_to_state' =
                   [tensor_tag_to_state EXCEPT ![tag[layer]] = None]
              /\ tensor_tag_to_buf' = [tensor_tag_to_buf EXCEPT ![tag[layer]] = None]
              /\ IF layer > 0
                 THEN layer' = layer - 1 /\ pc' = "commit backward" /\ UNCHANGED batch
                 ELSE /\ batch' = batch + 1 /\ UNCHANGED layer
                      /\ pc' = (IF batch < Batches THEN "forward" ELSE "done")
              /\ UNCHANGED <<sizes, tag, current_group, offloaded_group_count,
                             group_offload_mapping, device>>

\* A stream does its next work.
Work(s) ==
  /\ queue[s] # <<>>
  /\ LET w == Head(queue[s]) IN
       /\ w.op = "wait" => done[w.on] >= w.for
       /\ memory' = (CASE w.op = "write" -> [memory EXCEPT ![w.to] = w.of]
                       [] w.op = "copy" -> [memory EXCEPT ![w.to] = memory[w.from]]
                       [] OTHER -> memory)
       /\ wrong' = (wrong \/ (w.op = "read" /\ memory[w.from] # w.of))
  /\ queue' = [queue EXCEPT ![s] = Tail(@)]
  /\ done' = [done EXCEPT ![s] = @ + 1]
  /\ UNCHANGED <<sizes, batch, pc, layer, tag, handler>>

Host == Push \/ CommitForward \/ CommitBackward \/ Pop

Next == Host \/ \E s \in Streams : Work(s)

\* The host and every stream go on as long as they can.
Fairness == WF_vars(Host) /\ \A s \in Streams : WF_vars(Work(s))

Spec == Init /\ [][Next]_vars

FairSpec == Spec /\ Fairness

-----------------------------------------------------------------------------
TypeOK ==
  /\ sizes \in Sizes /\ batch \in 1..(Batches + 1) /\ layer \in Groups
  /\ pc \in {"forward", "commit forward", "commit backward", "backward",
             "done", "failed"}
  /\ current_group \in 0..Layers /\ offloaded_group_count \in 0..Offload
  /\ \A g \in Groups :
       /\ tensor_tag_to_state[g] \in Device \cup {None, Copied}
       /\ tensor_tag_to_buf[g] \in Device \cup {None}
  /\ group_offload_mapping \subseteq 0..(Offload - 1)

\* A layer's backward pass reads what its forward pass has saved, in the same
\* micro-batch, however slow the copies are and whatever memory is used again.
ReadsOwn == ~wrong

\* None of the handler's assertions fails, nothing is asked for that is not there,
\* and a backward pass leaves nothing behind for the next forward pass.
NothingLeft ==
  /\ pc # "failed"
  /\ (pc = "forward" /\ layer = 0) \/ pc = "done" =>
       /\ current_group = 0 /\ offloaded_group_count = 0
       /\ group_offload_mapping = {}
       /\ \A g \in Groups :
            tensor_tag_to_state[g] = None /\ tensor_tag_to_buf[g] = None

\* Groups that have a block on the device.
OnDevice ==
  {g \in Groups :
     tensor_tag_to_state[g] \in Device \/ tensor_tag_to_buf[g] \in Device}

\* With all layers but one copied there are at most two groups of activations on
\* the device, as enable_activation_offloading says.
TwoGroups ==
  Offload = Layers - 1 => \A a, b, c \in OnDevice : a = b \/ b = c \/ a = c

Ended == pc = "done" /\ \A s \in Streams : queue[s] = <<>>

\* No two streams wait for each other for ever.
PassesEnd == <>Ended
=============================================================================
