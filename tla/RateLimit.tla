------------------------------ MODULE RateLimit -----------------------------
(***************************************************************************)
(* The limiter of the code tool (verl/tools/sandbox_fusion_tools.py): one  *)
(* TokenBucketWorker for the cluster, an ExecutionWorker for every data    *)
(* parallel rank.  An execution worker runs a call in one of its threads:  *)
(* it asks the limiter for a permit, waits, calls the sandbox and gives    *)
(* the permit back by a call of its own that nobody waits for.             *)
(*                                                                         *)
(* The limiter has a thread for the calls of acquire, which it takes in    *)
(* their order, and others for those of release (concurrency groups).      *)
(***************************************************************************)
EXTENDS Integers, Sequences, FiniteSets

CONSTANTS
  Workers,    \* execution workers
  Calls,      \* calls of the tool at each
  NumWorkers, \* num_workers: threads of an execution worker
  RateLimit,  \* rate_limit
  Limited     \* workers of tools with enable_global_rate_limit

RateLimitAssumption ==
  /\ IsFiniteSet(Workers) /\ IsFiniteSet(Calls)
  /\ {NumWorkers, RateLimit} \subseteq Nat \ {0}
  /\ Limited \subseteq Workers

VARIABLES
  call,     \* where a call of a worker is
  asked,    \* calls of acquire at the limiter, in the order of their arrival
  returned, \* calls of release at the limiter
  permits   \* _semaphore

vars == <<call, asked, returned, permits>>

All == Workers \X Calls
At(where) == {c \in All : call[c] \in where}
InThread(w) == {c \in At({"started", "waits", "runs"}) : c[1] = w}

Init ==
  /\ call = [c \in All |-> "submitted"]
  /\ asked = <<>> /\ returned = 0
  /\ permits = RateLimit

Start(c) ==
  /\ call[c] = "submitted" /\ Cardinality(InThread(c[1])) < NumWorkers
  /\ call' = [call EXCEPT ![c] = "started"]
  /\ UNCHANGED <<asked, returned, permits>>

Ask(c) ==
  /\ call[c] = "started" /\ c[1] \in Limited
  /\ call' = [call EXCEPT ![c] = "waits"]
  /\ asked' = Append(asked, c)
  /\ UNCHANGED <<returned, permits>>

\* None has no release.
Raise(c) ==
  /\ call[c] = "started" /\ c[1] \notin Limited
  /\ call' = [call EXCEPT ![c] = "raised"]
  /\ UNCHANGED <<asked, returned, permits>>

\* acquire
Grant ==
  /\ asked # <<>> /\ permits > 0
  /\ permits' = permits - 1
  /\ call' = [call EXCEPT ![Head(asked)] = "runs"]
  /\ asked' = Tail(asked)
  /\ UNCHANGED returned

\* Mutation: release is called after the call and by the exit of the stack.
OverTwice(c) ==
  /\ call[c] = "runs"
  /\ call' = [call EXCEPT ![c] = "result"]
  /\ returned' = returned + 2
  /\ UNCHANGED <<asked, permits>>

\* The call returns or raises; the exit of the stack calls release.
Over(c) ==
  /\ call[c] = "runs"
  /\ \E result \in {"result", "nothing"} : call' = [call EXCEPT ![c] = result]
  /\ returned' = returned + 1
  /\ UNCHANGED <<asked, permits>>

\* Mutation: acquire and release share one thread.
ReleaseInTurn ==
  /\ returned > 0 /\ asked = <<>>
  /\ returned' = returned - 1 /\ permits' = permits + 1
  /\ UNCHANGED <<call, asked>>

\* release
Release ==
  /\ returned > 0
  /\ returned' = returned - 1 /\ permits' = permits + 1
  /\ UNCHANGED <<call, asked>>

Next ==
  \/ Grant \/ Release
  \/ \E c \in All : Start(c) \/ Ask(c) \/ Raise(c) \/ Over(c)

Spec == Init /\ [][Next]_vars

\* Threads that can go on do; a call of the sandbox has a timeout.
Fairness ==
  /\ WF_vars(Grant) /\ WF_vars(Release)
  /\ \A c \in All :
       WF_vars(Start(c)) /\ WF_vars(Ask(c)) /\ WF_vars(Raise(c)) /\ WF_vars(Over(c))

FairSpec == Spec /\ Fairness

-----------------------------------------------------------------------------
TypeOK ==
  /\ call \in [All -> {"submitted", "started", "waits", "runs", "result", "nothing", "raised"}]
  /\ asked \in Seq(All) /\ returned \in Nat
  /\ permits \in 0..RateLimit

\* No more than rate_limit calls of all workers are at the sandbox at a time,
\* though permits come back late and in any order
\* (docs/sglang_multiturn/sandbox_fusion.rst:73).
WithinRate == Cardinality(At({"runs"})) <= RateLimit

CallsEnded == At({"result", "nothing", "raised"}) = All

\* Every call gets its turn: the wait for a permit never keeps the permits of the
\* calls that are over from coming back
\* (docs/sglang_multiturn/sandbox_fusion.rst:97).
EveryCallEnds == <>CallsEnded

\* A call runs whether the limiter is enabled or not
\* (docs/sglang_multiturn/sandbox_fusion.rst:79).
NoneRaises == At({"raised"}) = {}
=============================================================================
