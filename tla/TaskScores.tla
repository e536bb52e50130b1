----------------------------- MODULE TaskScores -----------------------------
(***************************************************************************)
(* Task benchmarks on a streamed model (vqlab/score/                        *)
(* score_tasks_streaming.py): all requests of a call, a context and a       *)
(* continuation each, go through every block in padded buckets before the   *)
(* block is freed; then the rows that predict a continuation's tokens are   *)
(* stacked, projected together and summed by owner.  A model that fits in   *)
(* memory is called whole, bucket by bucket.                                *)
(*                                                                         *)
(* Numbers are symbolic: an activation is the padded tokens it was computed *)
(* from and the blocks it went through; a score is the list of activations  *)
(* and targets it sums.                                                    *)
(***************************************************************************)
EXTENDS Naturals, Sequences, SequencesExt, FiniteSetsExt

CONSTANTS Requests,   \* what lm-eval may ask: sequences of items, see ItemType
          Later,      \* what it may ask in another call (bound)
          Buckets,    \* sequences per bucket
          Blocks      \* blocks of the model

\* How a tokenizer cuts a context, the join with its continuation, and the
\* continuation alone: in so many tokens.
ItemType == [ctx : Nat, join : Nat, cont : Nat]

VARIABLES mode,   \* "streamed" or "direct"
          bos,    \* the tokenizer declares a BOS that encode() leaves out
          items,  \* the requests of the call
          left,   \* blocks the model in use still has
          rows,   \* the buckets' activations, each under its item
          depth,  \* blocks they went through
          scores, \* each item's score
          phase   \* "asked", "blocks", "project" or "done"

tvars == <<mode, bos, items, left, rows, depth, scores, phase>>

-----------------------------------------------------------------------------
\* Tokens of item i, with the BOS in front where it is missing.
CtxLen(i) == items[i].ctx + (IF bos THEN 1 ELSE 0)
JoinLen(i) == items[i].join + (IF bos THEN 1 ELSE 0)

\* A join that swallows the seam is encoded as context and continuation.
Length(i) == IF JoinLen(i) <= CtxLen(i) THEN CtxLen(i) + items[i].cont ELSE JoinLen(i)
Cont(i) == IF Length(i) - CtxLen(i) < 1 THEN 1 ELSE Length(i) - CtxLen(i)
Ids(i) == [k \in 1..Length(i) |-> <<i, k>>]
Pad == <<0, 0>>

\* Mutant: padding goes in front of the tokens.
PaddedLeft(i, n) == [k \in 1..(n - Length(i)) |-> Pad] \o Ids(i)

\* Padding is on the right: no token attends to it.
Padded(i, n) == Ids(i) \o [k \in 1..(n - Length(i)) |-> Pad]

\* The requests by length, cut into buckets.
ByLength == SortSeq([i \in 1..Len(items) |-> i],
                    LAMBDA i, j : Length(i) < Length(j) \/ (Length(i) = Length(j) /\ i < j))
Bucket(n) == SubSeq(ByLength, (n - 1) * Buckets + 1,
                    IF n * Buckets < Len(items) THEN n * Buckets ELSE Len(items))
BucketOf(i) == CHOOSE n \in 1..Len(items) : i \in ToSet(Bucket(n))
Longest(n) == Max({Length(i) : i \in ToSet(Bucket(n))})

-----------------------------------------------------------------------------
Init ==
  /\ mode \in {"streamed", "direct"} /\ bos \in BOOLEAN
  /\ items \in Requests
  /\ left = {} /\ rows = <<>> /\ depth = 0 /\ scores = <<>>
  /\ phase = "asked"

\* loglikelihood: a streamed pass loads a model of its own, since the pass
\* destroys it; a direct call keeps the one it loaded.
Embed ==
  /\ phase = "asked"
  /\ left' = 1..Blocks
  /\ rows' = [i \in 1..Len(items) |-> Padded(i, Longest(BucketOf(i)))]
  /\ depth' = 0
  /\ phase' = "blocks"
  /\ UNCHANGED <<mode, bos, items, scores>>

\* Every bucket goes through one block, which is then freed.
StreamBlock ==
  /\ phase = "blocks" /\ mode = "streamed" /\ depth < Blocks
  /\ depth + 1 \in left
  /\ left' = left \ {depth + 1}
  /\ depth' = depth + 1
  /\ UNCHANGED <<mode, bos, items, rows, scores, phase>>

CallModel ==
  /\ phase = "blocks" /\ mode = "direct" /\ depth < Blocks /\ left = 1..Blocks
  /\ depth' = Blocks
  /\ UNCHANGED <<mode, bos, items, left, rows, scores, phase>>

\* What position p of item i was computed from, causally.
Activation(i, p) == SubSeq(rows[i], 1, p)

\* Mutant: a row is scored with the token it has seen last.
SeenToken(i, p) == IF p \in 1..Length(i) THEN <<<<i, p>>>> ELSE <<>>

\* The token position p predicts, if there is one.
NextToken(i, p) == IF p + 1 \in 1..Length(i) THEN <<<<i, p + 1>>>> ELSE <<>>

\* Positions before the first that is scored, and the last one, of each path.
Skipped(i) == IF CtxLen(i) = 0 THEN 0 ELSE CtxLen(i) - 1
Upto(i) ==
  LET end == Skipped(i) + Cont(i)
      bound == IF mode = "direct" THEN Length(i) - 1 ELSE Length(i)
  IN  IF Length(i) = 0 THEN 0 ELSE IF end < bound THEN end ELSE bound

\* Streamed: rows and targets of all items are stacked apart; targets run
\* short where a row predicts nothing, and are filled up at the end.
Stacked ==
  LET From(i) == IF Upto(i) <= Skipped(i) THEN 0 ELSE Skipped(i)
      To(i) == IF Upto(i) <= Skipped(i) THEN IF Length(i) > 0 THEN 1 ELSE 0 ELSE Upto(i)
      all == [i \in 1..Len(items) |-> [k \in 1..(To(i) - From(i)) |-> <<i, From(i) + k>>]]
      places == FlattenSeq(all)
      found == FlattenSeq([k \in 1..Len(places) |-> NextToken(places[k][1], places[k][2])])
      targets == found \o [k \in 1..(Len(places) - Len(found)) |-> Pad]
  IN  [k \in 1..Len(places) |->
         [owner |-> places[k][1], from |-> Activation(places[k][1], places[k][2]),
          target |-> targets[k]]]

Project ==
  /\ phase = "blocks" /\ depth = Blocks
  /\ scores' =
       [i \in 1..Len(items) |->
          IF mode = "streamed"
          THEN SelectSeq(Stacked, LAMBDA x : x.owner = i)
          ELSE [k \in 1..(IF Upto(i) > Skipped(i) THEN Upto(i) - Skipped(i) ELSE 0) |->
                  [owner |-> i, from |-> Activation(i, Skipped(i) + k),
                   target |-> NextToken(i, Skipped(i) + k)[1]]]]
  /\ phase' = "done"
  /\ UNCHANGED <<mode, bos, items, left, rows, depth>>

\* lm-eval asks again, maybe for another task.
Again(next) ==
  /\ phase = "done"
  /\ items' = next /\ phase' = "asked"
  /\ UNCHANGED <<mode, bos, left, rows, depth, scores>>

Next == Embed \/ StreamBlock \/ CallModel \/ Project \/ \E next \in Later : Again(next)

-----------------------------------------------------------------------------
\* What an item's score should sum: each token of the continuation, given all
\* tokens before it.
Wanted(i) ==
  [k \in 1..(Length(i) - CtxLen(i)) |->
     [owner |-> i, from |-> SubSeq(Ids(i), 1, CtxLen(i) + k - 1),
      target |-> <<i, CtxLen(i) + k>>]]

\* A request with no context tokens, or no continuation.
Degenerate(i) == CtxLen(i) = 0 \/ Length(i) <= CtxLen(i)

\* Streamed or direct, in whatever bucket, a request is scored on its own
\* continuation: on the streamed path as long as no request of the call is
\* degenerate, on the direct path whatever the others are.
ScoresAreOwn ==
  phase = "done" =>
    \A i \in 1..Len(items) :
      (IF mode = "direct" THEN ~Degenerate(i) ELSE \A j \in 1..Len(items) : ~Degenerate(j)) =>
        scores[i] = Wanted(i)

\* No call finds a model whose blocks are gone.
ModelIsWhole == phase = "blocks" => left = (depth + 1)..Blocks \/ mode = "direct"

TasksAreScored == ScoresAreOwn /\ ModelIsWhole

=============================================================================
