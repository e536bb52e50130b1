---------------------------- MODULE StreamedPass ----------------------------
(***************************************************************************)
(* Scoring a model larger than the machine (vqlab/score/stream_score.py,    *)
(* vqlab/score/referee/score_streaming.py): one decoder block is loaded,    *)
(* walks the whole sequence in chunks with a cache of its own, and is       *)
(* dropped.  The resident model the numbers must equal runs one chunk       *)
(* through every block.                                                    *)
(*                                                                         *)
(* Numbers are symbolic: what a block gives at a position is a record of    *)
(* all it was computed from.  A recurrent block ("linear") depends on how   *)
(* the sequence was cut into chunks, an attending one ("full") on the       *)
(* positions before only; a block with n-gram tables (PLE) also on the ids  *)
(* just before its chunk.                                                  *)
(***************************************************************************)
EXTENDS Naturals, Integers, Sequences, SequencesExt, FiniteSetsExt, FiniteSets

CONSTANTS Passes,  \* what is scored: see PassType
          Grams    \* ids before a chunk that an n-gram lookup reads

VARIABLES pass,    \* the pass at work
          blocks,  \* blocks the model still has
          loaded,  \* bytes of weights evaluated, per block
          cache,   \* each block's cache: chunks seen, and its n-gram history
          h,       \* the activations, one per position
          parts,   \* what the block has given so far
          at,      \* the block, and the first position of its next chunk
          logits,  \* of the trials that are over
          phase    \* "embed", "load", "walk", "head", "done" or "refused"

pvars == <<pass, blocks, loaded, cache, h, parts, at, logits, phase>>

PassType ==
  [scorer : {"qwen4_exp", "glm5_next", "qwen3_5_moe", "layer_type", "classic"},
   S : Nat, C : Nat, kinds : Seq({"linear", "full"}), ple : SUBSET Nat,
   caches : BOOLEAN,  \* the model makes caches of its own
   trials : Nat, sizes : Seq(Nat), budget : Nat]

Layers == 1..Len(pass.kinds)
EmptyCache == [chunks |-> <<>>, history |-> <<>>]

\* Scorers that cut the sequence; the classic referee runs it whole.
Chunked(p) == p.scorer # "classic"
ChunkOf(p) == IF Chunked(p) THEN p.C ELSE p.S

\* The last n-gram ids before position s, "eos" before the first.
Before(s) == [k \in 1..Grams |-> LET p == s - Grams - 1 + k IN IF p < 1 THEN 0 ELSE p]

\* What block l gives for a chunk: `seen` are the chunks before it, `offset`
\* the position its mask starts from, `ctx` the ids before it.
Block(l, kind, seen, chunk, offset, ctx) ==
  [k \in 1..Len(chunk) |->
     [block |-> l, ctx |-> ctx,
      from |-> IF kind = "linear" THEN Append(seen, chunk)
               ELSE <<FlattenSeq(seen) \o SubSeq(chunk, 1, k)>>,
      row |-> IF kind = "linear" THEN k ELSE offset + k]]

\* The resident model at chunk size c: every chunk through every block.
Resident(p, c) ==
  LET Cut(xs, s) == SubSeq(xs, s, IF s + c - 1 < p.S THEN s + c - 1 ELSE p.S)
      Starts(n) == [k \in 1..n |-> 1 + (k - 1) * c]
      Chunks(xs, n) == [k \in 1..n |-> Cut(xs, Starts(n)[k])]
      All == (p.S + c - 1) \div c
      after[l \in 0..Len(p.kinds)] ==
        IF l = 0 THEN [k \in 1..p.S |-> [id |-> k]]
        ELSE LET xs == after[l - 1]
             IN  FlattenSeq([n \in 1..All |->
                   Block(l, p.kinds[l], Chunks(xs, n - 1), Chunks(xs, All)[n], (n - 1) * c,
                         IF l \in p.ple THEN Before(1 + (n - 1) * c) ELSE <<>>)])
  IN  after[Len(p.kinds)]

-----------------------------------------------------------------------------
Init ==
  /\ pass \in Passes
  /\ blocks = 1..Len(pass.kinds) /\ loaded = [l \in 1..Len(pass.kinds) |-> 0]
  /\ cache = <<>> /\ h = <<>> /\ parts = <<>> /\ logits = <<>>
  /\ at = [block |-> 1, s |-> 1]
  /\ phase = "embed"

\* The referee shares no n-gram history between blocks, and refuses a model
\* that does, or one whose caches it cannot pair with its blocks.
Refuses(p) == p.scorer = "layer_type" /\ (Cardinality(p.ple) > 1 \/ ~p.caches)

Refuse ==
  /\ phase = "embed" /\ Refuses(pass)
  /\ phase' = "refused"
  /\ UNCHANGED <<pass, blocks, loaded, cache, h, parts, at, logits>>

\* A trial starts: embeddings and new caches; glm5_next's may be none.
Embed ==
  /\ phase = "embed" /\ ~Refuses(pass)
  /\ h' = [k \in 1..pass.S |-> [id |-> k]]
  /\ cache' = [l \in Layers |-> EmptyCache]
  /\ at' = [block |-> 1, s |-> 1]
  /\ phase' = "load"
  /\ UNCHANGED <<pass, blocks, loaded, parts, logits>>

\* Mutant: the largest tensors are taken first.
LargestFirst(sizes, budget) ==
  FoldLeft(LAMBDA kept, x : IF kept = 0 \/ kept + x <= budget THEN kept + x ELSE kept, 0,
           SortSeq(sizes, >))

\* eval_params_budgeted: the cheapest tensors that fit, the rest stays lazy.
Evaluated(sizes, budget) ==
  FoldLeft(LAMBDA kept, x : IF kept + x <= budget THEN kept + x ELSE kept, 0,
           SortSeq(sizes, <))

\* Scorers that walk with stream_layers have a budget, the others evaluate all.
Budgeted(p) == p.scorer \in {"qwen4_exp", "qwen3_5_moe"}

Load ==
  /\ phase = "load" /\ at.block \in blocks
  /\ loaded' = [loaded EXCEPT ![at.block] =
                  IF Budgeted(pass) THEN Evaluated(pass.sizes, pass.budget) ELSE FoldSeq(+, 0, pass.sizes)]
  /\ phase' = "walk"
  /\ UNCHANGED <<pass, blocks, cache, h, parts, at, logits>>

\* Mutant: every chunk sees the sequence as if it were the first.
ForgetsChunks(c, chunk, history) == [EmptyCache EXCEPT !.history = history]

\* What a block's cache holds after a chunk.
Remembers(c, chunk, history) ==
  [chunks |-> Append(c.chunks, chunk), history |-> history]

\* Mutant: the ids from the chunk's own first one on.
OneIdLate(s, c) == Before(s + 1)

\* The ids before a chunk: cut from the ids themselves, or in the referee
\* kept in the block's cache, empty before the first chunk.
Context(s, c) ==
  IF pass.scorer = "layer_type"
  THEN IF c.history = <<>> THEN [k \in 1..Grams |-> 0] ELSE c.history
  ELSE Before(s)

\* One chunk through the block, with its mask, cache and context.
Walk ==
  /\ phase = "walk" /\ at.s <= pass.S
  /\ LET l == at.block
         e == IF at.s + ChunkOf(pass) - 1 < pass.S THEN at.s + ChunkOf(pass) - 1 ELSE pass.S
         chunk == SubSeq(h, at.s, e)
         c == cache[l]
         ctx == IF l \in pass.ple THEN Context(at.s, c) ELSE <<>>
         recalls == IF Len(ctx) = 0 THEN <<>>
                    ELSE LET all == ctx \o [k \in 1..(e - at.s + 1) |-> at.s + k - 1]
                         IN  SubSeq(all, Len(all) - Grams + 1, Len(all))
         stateless == ~Chunked(pass) \/ ~pass.caches
     IN  /\ parts' = parts \o Block(l, pass.kinds[l], c.chunks, chunk,
                                    Len(FlattenSeq(c.chunks)), ctx)
         /\ cache' = IF stateless THEN cache
                     ELSE [cache EXCEPT ![l] = Remembers(c, chunk, recalls)]
         /\ at' = [at EXCEPT !.s = e + 1]
  /\ UNCHANGED <<pass, blocks, loaded, h, logits, phase>>

\* The block has walked the sequence: it is dropped with its cache.
Drop ==
  /\ phase = "walk" /\ at.s > pass.S
  /\ h' = parts /\ parts' = <<>>
  /\ blocks' = blocks \ {at.block}
  /\ loaded' = [loaded EXCEPT ![at.block] = 0]
  /\ cache' = [cache EXCEPT ![at.block] = EmptyCache]
  /\ at' = [block |-> at.block + 1, s |-> 1]
  /\ phase' = IF at.block = Len(pass.kinds) THEN "head" ELSE "load"
  /\ UNCHANGED <<pass, logits>>

\* The head, position by position; another trial loads the blocks again.
Score ==
  /\ phase = "head"
  /\ logits' = Append(logits, h)
  /\ IF Len(logits) + 1 < pass.trials
     THEN phase' = "embed" /\ blocks' = Layers
     ELSE phase' = "done" /\ UNCHANGED blocks
  /\ UNCHANGED <<pass, loaded, cache, h, parts, at>>

Next == Refuse \/ Embed \/ Load \/ Walk \/ Drop \/ Score

-----------------------------------------------------------------------------
\* Every trial's logits are the resident model's at the chunk size the scorer
\* uses; without recurrent blocks or n-grams they do not depend on it.  (A
\* glm5_next without make_cache must fit one chunk.)
StreamedIsResident ==
  \A n \in 1..Len(logits) :
    (pass.caches \/ pass.S <= ChunkOf(pass)) =>
      /\ logits[n] = Resident(pass, ChunkOf(pass))
      /\ (\A l \in Layers : pass.kinds[l] = "full") /\ pass.ple = {} =>
           \A c \in 1..pass.S : logits[n] = Resident(pass, c)

\* One block at a time has weights evaluated, of stream_layers' blocks no more
\* than the budget.
OneBlockAtATime ==
  /\ Cardinality({l \in Layers : loaded[l] > 0}) <= 1
  /\ \A l \in Layers : loaded[l] > 0 /\ Budgeted(pass) => loaded[l] <= pass.budget

\* A pass ends: no block is asked for that was dropped.
NeverStuck == phase = "load" => at.block \in blocks

PassIsFaithful == StreamedIsResident /\ OneBlockAtATime /\ NeverStuck

=============================================================================
