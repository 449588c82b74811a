----------------------------- MODULE Advantages -----------------------------
(***************************************************************************)
(* The advantage estimators of verl.  In a response the words of the model *)
(* may be interrupted by words of tools, and padding follows; the mask has *)
(* the model's tokens, and the score of the response is the reward of its  *)
(* last token, whoever wrote it.  A penalty may be taken from any of the   *)
(* model's tokens.                                                         *)
(*                                                                         *)
(* Numbers are exact: gamma and lam are halves, and everything computed    *)
(* with them is a multiple of 1 / Scale; quotients are pairs.  What whitens*)
(* or divides by a deviation shifts or scales all advantages alike and is  *)
(* left out.                                                               *)
(***************************************************************************)
EXTENDS Integers, Sequences, FiniteSetsExt

CONSTANTS
  ResponseLength,
  Scores,      \* rewards of whole responses
  Values,      \* what the critic says of a token
  Halves,      \* gamma and lam, in halves
  GroupKinds   \* who writes the tokens, for the estimators that compare responses

T == ResponseLength

AdvantagesAssumption ==
  /\ T \in Nat \ {0} /\ Scores \subseteq Int /\ Values \subseteq Int
  /\ Halves \subseteq Nat \ {0}
  /\ \A k \in GroupKinds : k \in [1..T -> {"model", "tool", "pad"}]

VARIABLES
  rows,        \* uid, who writes the tokens, rewards, values, baseline
  gamma, lam,
  pc,          \* the estimator, when it is done
  advantages   \* [row -> [token -> quotient]]

vars == <<rows, gamma, lam, pc, advantages>>

Masked(row, t) == row.kind[t] = "model"
ModelTokens(row) == {t \in 1..T : Masked(row, t)}

\* A response begins with a word of the model, and padding is at its end.
Kinds ==
  {k \in [1..T -> {"model", "tool", "pad"}] :
     /\ k[1] = "model"
     /\ \A t \in 2..T : k[t - 1] = "pad" => k[t] = "pad"}
LastToken(kind) == Max({t \in 1..T : kind[t] # "pad"})

\* The reward manager's tensor, less the penalties.
Rewards(kind, score, penalty) ==
  [t \in 1..T |-> (IF t = LastToken(kind) THEN score ELSE 0)
                  - (IF kind[t] = "model" THEN penalty[t] ELSE 0)]

\* One response with penalties and values; or three of one or two prompts.
Init ==
  /\ \/ /\ \E kind \in Kinds, score \in Scores, penalty \in [1..T -> {0, 1}],
              values \in [1..T -> Values], baseline \in Scores :
             rows = << [uid |-> 1, kind |-> kind, values |-> values,
                        baseline |-> baseline,
                        rewards |-> Rewards(kind, score, penalty)] >>
        /\ gamma \in Halves /\ lam \in Halves
     \/ /\ \E uid \in {<<1, 1, 1>>, <<1, 2, 1>>}, kind \in [1..3 -> GroupKinds],
              score \in [1..3 -> Scores] :
             rows = [i \in 1..3 |->
               [uid |-> uid[i], kind |-> kind[i], values |-> [t \in 1..T |-> 0],
                baseline |-> 0,
                rewards |-> Rewards(kind[i], score[i], [t \in 1..T |-> 0])]]
        /\ gamma = 2 /\ lam = 2
  /\ pc = "batch" /\ advantages = <<>>

-----------------------------------------------------------------------------
\* What is computed from the last token to the first.
Scale == 4 ^ (T + 1)
Half(h, x) == (h * x) \div 2

\* Mutation: what is carried is dropped at a token of a tool.
CarriedUntilTool(row, t, this, later) ==
  IF Masked(row, t) THEN this ELSE [value |-> 0, sum |-> 0]
\* nextvalues and lastgaelam, which skip the tokens of tools.
Carried(row, t, this, later) == IF Masked(row, t) THEN this ELSE later

\* compute_gae_advantage_return
GaeOf(row) ==
  LET carried[t \in 1..(T + 1)] ==
        IF t = T + 1 THEN [value |-> 0, sum |-> 0]
        ELSE LET later == carried[t + 1]
                 delta == Scale * row.rewards[t] + Half(gamma, later.value)
                          - Scale * row.values[t]
             IN  Carried(row, t, [value |-> Scale * row.values[t],
                                  sum |-> delta + Half(lam, Half(gamma, later.sum))],
                         later)
  IN  [t \in 1..T |-> <<carried[t].sum, Scale>>]

\* compute_reinforce_plus_plus_outcome_advantage: the return is reset where the
\* mask is 0.
ReturnsOf(row) ==
  LET running[t \in 1..(T + 1)] ==
        IF t = T + 1 THEN 0
        ELSE Scale * row.rewards[t]
             + Half(gamma, IF t < T /\ ~Masked(row, t + 1) THEN 0 ELSE running[t + 1])
  IN  [t \in 1..T |-> IF Masked(row, t) THEN <<running[t], Scale>> ELSE <<0, 1>>]

\* compute_remax_outcome_advantage
RemaxOf(row) ==
  [t \in 1..T |->
     << MapThenSumSet(LAMBDA s : row.rewards[s], {s \in ModelTokens(row) : s >= t})
          - (IF Masked(row, t) THEN row.baseline ELSE 0), 1 >>]

Score(i) == MapThenSumSet(LAMBDA t : rows[i].rewards[t], 1..T)
Length(i) == Cardinality(ModelTokens(rows[i]))
\* id2score
Group(i) == {j \in DOMAIN rows : rows[j].uid = rows[i].uid}
Total(i) == MapThenSumSet(Score, Group(i))
Alone(i) == Cardinality(Group(i)) = 1

\* compute_grpo_outcome_advantage: less the mean of the group, but for one alone.
Grpo(i) ==
  LET n == Cardinality(Group(i)) IN
    IF Alone(i) THEN <<Score(i), 1>> ELSE <<n * Score(i) - Total(i), n>>

\* Mutation: both terms keep their factor.
RlooOfAll(i) ==
  LET n == Cardinality(Group(i)) IN
    IF Alone(i) THEN <<Score(i), 1>> ELSE <<n * Score(i) - Total(i), n>>
\* compute_rloo_outcome_advantage
Rloo(i) ==
  LET n == Cardinality(Group(i)) IN
    IF Alone(i) THEN <<Score(i), 1>> ELSE <<n * Score(i) - Total(i), n - 1>>

\* compute_opo_outcome_advantage: the mean is weighted by the lengths.
Opo(i) ==
  LET lengths == MapThenSumSet(Length, Group(i))
      weighted == MapThenSumSet(LAMBDA j : Length(j) * Score(j), Group(i))
  IN  IF Alone(i) THEN <<Score(i), 1>>
      ELSE <<lengths * Score(i) - weighted, lengths>>

\* compute_gpg_outcome_advantage: a batch with few right answers counts more.
Gpg(i) ==
  LET right == Cardinality({j \in DOMAIN rows : Score(j) # 0})
      g == Grpo(i)
  IN  <<Cardinality(DOMAIN rows) * g[1], Max({right, 1}) * g[2]>>

\* Every model token has the advantage of its response.
Spread(adv) ==
  [i \in DOMAIN rows |-> [t \in 1..T |->
     IF Masked(rows[i], t) THEN adv[i] ELSE <<0, 1>>]]

Estimate(name, adv) ==
  /\ pc = "batch" /\ pc' = name /\ advantages' = adv
  /\ UNCHANGED <<rows, gamma, lam>>

Gae == Estimate("gae", [i \in DOMAIN rows |-> GaeOf(rows[i])])
ReinforcePlusPlus ==
  Estimate("reinforce++", [i \in DOMAIN rows |-> ReturnsOf(rows[i])])
Remax == Estimate("remax", [i \in DOMAIN rows |-> RemaxOf(rows[i])])
GrpoAdvantage == Estimate("grpo", Spread([i \in DOMAIN rows |-> Grpo(i)]))
RlooAdvantage == Estimate("rloo", Spread([i \in DOMAIN rows |-> Rloo(i)]))
OpoAdvantage == Estimate("opo", Spread([i \in DOMAIN rows |-> Opo(i)]))
GpgAdvantage == Estimate("gpg", Spread([i \in DOMAIN rows |-> Gpg(i)]))

\* compute_grpo_passk_outcome_advantage: one best response of every group, by how
\* much it is better than the next.
Second(i) ==
  LET best == Max({Score(j) : j \in Group(i)})
      below == {Score(j) : j \in Group(i)} \ {best}
  IN  IF Cardinality({j \in Group(i) : Score(j) = best}) > 1 THEN best ELSE Max(below)
PassK ==
  /\ \A i \in DOMAIN rows : ~Alone(i)
  /\ \E best \in [{rows[i].uid : i \in DOMAIN rows} -> DOMAIN rows] :
       /\ \A u \in DOMAIN best :
            /\ rows[best[u]].uid = u
            /\ \A j \in Group(best[u]) : Score(j) <= Score(best[u])
       /\ Estimate("pass@k", Spread([i \in DOMAIN rows |->
            IF best[rows[i].uid] = i THEN <<Score(i) - Second(i), 1>> ELSE <<0, 1>>]))
\* A group of one raises.
PassKRaises ==
  /\ \E i \in DOMAIN rows : Alone(i)
  /\ Estimate("raised", <<>>)

Next ==
  \/ Gae \/ ReinforcePlusPlus \/ Remax \/ GrpoAdvantage \/ RlooAdvantage
  \/ OpoAdvantage \/ GpgAdvantage \/ PassK \/ PassKRaises

Spec == Init /\ [][Next]_vars

-----------------------------------------------------------------------------
TypeOK ==
  /\ pc \in {"batch", "gae", "reinforce++", "remax", "grpo", "rloo", "opo", "gpg",
             "pass@k", "raised"}
  /\ pc \notin {"batch", "raised"} => DOMAIN advantages = DOMAIN rows
  /\ \A i \in DOMAIN advantages : DOMAIN advantages[i] = 1..T

\* The advantage of a model token is the discounted sum of the errors of the
\* model's tokens from it on: what tools said in between, and padding, is as if it
\* were not there.
Steps(row, t, s) == Cardinality({u \in ModelTokens(row) : t <= u /\ u < s})
ErrorAt(row, s) ==
  LET later == {u \in ModelTokens(row) : u > s}
      next == IF later = {} THEN 0 ELSE row.values[Min(later)]
  IN  Scale * (row.rewards[s] - row.values[s]) + Half(gamma, Scale * next)
GaeRight ==
  pc = "gae" =>
    \A i \in DOMAIN rows : \A t \in ModelTokens(rows[i]) :
      advantages[i][t] =
        << MapThenSumSet(LAMBDA s :
             ((gamma * lam) ^ Steps(rows[i], t, s) * ErrorAt(rows[i], s))
                \div (4 ^ Steps(rows[i], t, s)),
             {s \in ModelTokens(rows[i]) : s >= t}), Scale >>

OneOf(i) == advantages[i][1][1]
\* The estimators that compare responses say nothing of a group of equal scores,
\* prefer none of a group as a whole (by length, for OPO), and have 0 at every token
\* that is not the model's.
GroupsBalanced ==
  pc \in {"grpo", "rloo", "opo", "gpg"} =>
    \A i \in DOMAIN rows :
      /\ ~Alone(i) =>
           0 = MapThenSumSet(LAMBDA j :
                 OneOf(j) * (IF pc = "opo" THEN Length(j) ELSE 1), Group(i))
      /\ (~Alone(i) /\ \A j \in Group(i) : Score(j) = Score(i)) => OneOf(i) = 0
      /\ \A t \in 1..T : ~Masked(rows[i], t) => advantages[i][t][1] = 0

\* RLOO compares a response with the mean of the others of its group.
LeavesOneOut ==
  pc = "rloo" =>
    \A i \in DOMAIN rows : ~Alone(i) =>
      LET others == Group(i) \ {i}
          n == Cardinality(others)
      IN  advantages[i][1] = <<n * Score(i) - MapThenSumSet(Score, others), n>>

\* With pass@k a group has at most one response with an advantage: a best one, and
\* none if two are best.
BestAlone ==
  pc = "pass@k" =>
    \A i \in DOMAIN rows : OneOf(i) # 0 =>
      \A j \in Group(i) \ {i} : OneOf(j) = 0 /\ Score(j) < Score(i)

\* The score of a response reaches all of the model's tokens: the return is reset
\* "after EOS" (core_algos.py:562).  A token of a tool resets it as well, and GAE
\* does not see a score that is on one.
ScoreReaches ==
  pc \in {"reinforce++", "gae"} =>
    \A i \in DOMAIN rows :
      LET row == rows[i] IN
        (gamma = 2 /\ lam = 2 /\ \A t \in 1..T : row.values[t] = 0) =>
          advantages[i][1] = <<Scale * Score(i), Scale>>
=============================================================================
