-------------------------------- MODULE Learning --------------------------------
(***************************************************************************)
(* record_feedback (xnative/learning/feedback_store.py): a feedback row,   *)
(* the weight of the suggestion's variant, moved by a reward and clamped,  *)
(* and a style example, written by several processes, each in one          *)
(* transaction whose first statement is an INSERT.  Weights are hundredths *)
(* and rounding errors of floats are left out.                             *)
(***************************************************************************)
EXTENDS Integers, Sequences, FiniteSets

CONSTANTS
    Clients,       \* processes that record feedback
    Variants,      \* variant labels of the suggestions there are
    NoSuggestion,  \* feedback on a suggestion that does not exist
    StartWeights,  \* what a weight may have been moved to before
    MaxFeedback    \* bound: rows of feedback

VARIABLES
    start,     \* the weights when the clients start
    feedback,  \* the committed rows of feedback, in the order of their ids
    weights,   \* learning_weights; a missing row counts as 100
    examples,  \* the rows of style_examples
    entry      \* the call of each client, or Idle

learningVars == <<start, feedback, weights, examples, entry>>

Idle == [step |-> "idle"]

LearningInit ==
    /\ start \in StartWeights
    /\ weights = [v \in Variants |-> start]
    /\ feedback = <<>>
    /\ examples = 0
    /\ entry = [c \in Clients |-> Idle]

Rewards ==
    [approved |-> 5, posted_manually |-> 6, edited |-> 2, ignored |-> -1, rejected |-> -5]

\* The learning rate times REWARD; an action that is not listed earns nothing.
Reward(action) == IF action \in DOMAIN Rewards THEN Rewards[action] ELSE 0

\* update_weight and clamp
UpdatedWeight(old, action) ==
    LET sum == old + Reward(action)
    IN IF sum < 20 THEN 20 ELSE IF sum > 200 THEN 200 ELSE sum

\* Mutant: the weight is read before the transaction has begun.
MayInsertAnyTime(c) == entry[c] = Idle

\* SQLite gives the write lock to one INSERT; another waits for it.
MayInsert(c) == \A d \in Clients : entry[d] = Idle

Insert(c, v, action, edited) ==
    /\ MayInsert(c)
    /\ Len(feedback) < MaxFeedback
    /\ entry' = [entry EXCEPT ![c] =
           [step |-> "inserted", row |-> [variant |-> v, action |-> action, edited |-> edited]]]
    /\ UNCHANGED <<start, feedback, weights, examples>>

ReadWeight(c) ==
    /\ entry[c].step = "inserted"
    /\ entry' = [entry EXCEPT ![c] =
           [step |-> "read", row |-> entry[c].row,
            old |-> IF entry[c].row.variant \in Variants THEN weights[entry[c].row.variant] ELSE 0]]
    /\ UNCHANGED <<start, feedback, weights, examples>>

CommitFeedback(c) ==
    /\ entry[c].step = "read"
    /\ LET row == entry[c].row
       IN /\ feedback' = Append(feedback, row)
          /\ weights' = [v \in Variants |-> IF v = row.variant
                                            THEN UpdatedWeight(entry[c].old, row.action)
                                            ELSE weights[v]]
          /\ examples' = examples + (IF row.edited THEN 1 ELSE 0)
    /\ entry' = [entry EXCEPT ![c] = Idle]
    /\ UNCHANGED start

\* An exception or the end of the process before the commit.
DropFeedback(c) ==
    /\ entry[c] # Idle
    /\ entry' = [entry EXCEPT ![c] = Idle]
    /\ UNCHANGED <<start, feedback, weights, examples>>

LearningNext ==
    \E c \in Clients :
        \/ \E v \in Variants \cup {NoSuggestion}, action \in DOMAIN Rewards \cup {"approve"},
              edited \in BOOLEAN : Insert(c, v, action, edited)
        \/ ReadWeight(c)
        \/ CommitFeedback(c)
        \/ DropFeedback(c)

LearningSpec == LearningInit /\ [][LearningNext]_learningVars

-----------------------------------------------------------------------------

\* The weight of a variant after these rows of feedback, one after another.
Replayed(rows, v) ==
    LET weight[n \in 0 .. Len(rows)] ==
            IF n = 0 THEN start
            ELSE IF rows[n].variant = v THEN UpdatedWeight(weight[n - 1], rows[n].action)
            ELSE weight[n - 1]
    IN weight[Len(rows)]

\* A weight is what the stored feedback on its variant makes of it, row after
\* row and within its bounds, and there is an example for every edited text:
\* no update is lost between two clients, and none is half done.
WeightsFollowFeedback ==
    /\ \A v \in Variants : weights[v] = Replayed(feedback, v)
    /\ examples = Cardinality({n \in DOMAIN feedback : feedback[n].edited})

=============================================================================
