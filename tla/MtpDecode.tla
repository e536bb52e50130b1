------------------------------ MODULE MtpDecode ------------------------------
(***************************************************************************)
(* The speculative decode loop: vqlab/mtp/loop.py (mtp_stream_generate)    *)
(* with mtp/caches.py (snapshot, restore), mtp/capture.py (the trunk's     *)
(* hidden state of the last forward) and the verdict of mtp/sampling.py    *)
(* (rejection_correct).                                                    *)
(*                                                                         *)
(* Each step reads the first token of a pair and a drafted second one in   *)
(* a single two-token forward of the trunk.  A draft the trunk admits is   *)
(* kept; otherwise the caches go back and the pair is read again with the  *)
(* trunk's own token.  What a cache holds is the sequence of tokens it has *)
(* read: attention caches roll back by offset, recurrent ones only to a    *)
(* saved state, so the two are kept apart.                                 *)
(*                                                                         *)
(* A trunk answers a context with a set of tokens, its support: greedy     *)
(* decoding is the case of one token, for which the sampled verdict below  *)
(* is the comparison with the argmax that loop.py makes at temperature 0.  *)
(* The drafting head may propose any token.                                *)
(***************************************************************************)
EXTENDS Naturals, Sequences, SequencesExt

CONSTANTS
  Token, Eos, Trunk(_), Process(_, _),   \* see PlainDecode
  Requests   \* generations to start, records of the set RequestType

\* Families: whether a snapshot copies recurrent state (cache_semantics) and
\* whether the architecture writes that state in place.
RequestType ==
  [prompt : Seq(Token),     \* the prompt's tokens
   held   : Seq(Token),     \* tokens a caller-supplied cache already holds
   limit  : Nat \ {0},      \* max_tokens
   width  : Nat \ {0},      \* prefill_chunk_size
   align  : {"committed", "legacy"},
   copies : BOOLEAN, inplace : BOOLEAN]

\* A family goes without copies only once check_snapshot_semantics has found
\* that it does not write in place (mtp/registry.py).
ASSUME RequestAssumption ==
  /\ Requests \subseteq RequestType
  /\ \A r \in Requests : r.prompt # <<>> /\ (r.inplace => r.copies)
  /\ Eos \subseteq Token

VARIABLES
  req,      \* the request being served
  pc,       \* where the generator is
  at,       \* prompt tokens read so far
  attn,     \* what the attention caches hold
  rec,      \* what the recurrent caches have read
  rows,     \* the last forward: for each of its tokens, the state it was read in
  row1,     \* row_t1 and h_last: the row the first token of the pair came from
  t1, t2,   \* the pair
  drafted,  \* ok: the second token is an accepted draft
  saved,    \* the snapshot
  head,     \* the head's own cache: a trunk row and the token after it
  out,      \* the tokens yielded, each with the row its logprobs come from
  finish    \* finish_reason

vars == <<req, pc, at, attn, rec, rows, row1, t1, t2, drafted, saved, head, out, finish>>

-----------------------------------------------------------------------------
\* A row of a forward: the tokens either kind of cache had read by then.
Row(a, r) == [attn |-> a, rec |-> r]
Rows(a, r, ts) == [j \in DOMAIN ts |-> Row(a \o SubSeq(ts, 1, j), r \o SubSeq(ts, 1, j))]

\* The trunk's answer.  Nothing is known of one read in caches that drifted
\* apart.
Logits(row) == IF row.attn = row.rec THEN Trunk(row.attn) ELSE Token

Committed == req.align = "committed"
Tokens    == [k \in DOMAIN out |-> out[k].token]
Base      == req.held \o req.prompt

\* One forward of the trunk over ts, from what the caches hold.
Forward(a, r, ts) ==
  /\ attn' = a \o ts
  /\ rec' = r \o ts
  /\ rows' = Rows(a, r, ts)

Init ==
  /\ req \in Requests
  /\ pc = "start" /\ at = 0
  /\ attn = req.held /\ rec = req.held
  /\ rows = <<>> /\ row1 = Row(<<>>, <<>>)
  /\ t1 = (CHOOSE t \in Token : TRUE) /\ t2 = t1 /\ drafted = FALSE
  /\ saved = [attn |-> 0, rec |-> <<>>, head |-> 0]
  /\ head = <<>> /\ out = <<>> /\ finish = "none"

-----------------------------------------------------------------------------
\* The head is seeded from position 0: a trunk cache in use is refused.
Refuses == Committed /\ req.held # <<>>

Refuse ==
  /\ pc = "start" /\ Refuses
  /\ pc' = "refused"
  /\ UNCHANGED <<req, at, attn, rec, rows, row1, t1, t2, drafted, saved, head, out, finish>>

Begin ==
  /\ pc = "start" /\ ~Refuses
  /\ pc' = "prefill"
  /\ UNCHANGED <<req, at, attn, rec, rows, row1, t1, t2, drafted, saved, head, out, finish>>

\* What seeding gives the head for the chunk up to `end`: each row with the
\* token after it.
Seed(end) == Zip(rows', SubSeq(req.prompt, at + 2, end + 1))

\* One chunk of the prompt, never its last token.
PrefillChunk ==
  /\ pc = "prefill" /\ at < Len(req.prompt) - 1
  /\ LET end == IF at + req.width < Len(req.prompt) - 1 THEN at + req.width
                ELSE Len(req.prompt) - 1
     IN /\ Forward(attn, rec, SubSeq(req.prompt, at + 1, end))
        /\ at' = end
        /\ head' = IF Committed THEN head \o Seed(end) ELSE head
  /\ UNCHANGED <<req, pc, row1, t1, t2, drafted, saved, out, finish>>

\* The chunks have read all but the last token.
LastIsNext == at >= Len(req.prompt) - 1

\* The last prompt token gives the first token, and the bootstrap draft.
First ==
  /\ pc = "prefill" /\ LastIsNext
  /\ Forward(attn, rec, <<req.prompt[Len(req.prompt)]>>)
  /\ row1' = rows'[1]
  /\ \E t \in Process(Logits(rows'[1]), <<>>) :
       /\ t1' = t
       /\ head' = IF Committed THEN Append(head, <<row1', t>>) ELSE head
  /\ at' = Len(req.prompt)
  /\ pc' = "step"
  /\ UNCHANGED <<req, t2, drafted, saved, out, finish>>

-----------------------------------------------------------------------------
\* snapshot: an offset of an attention cache, the state of a recurrent one.
\* Without a copy that state is whatever the forward over ts makes of it.
\* Mutant: states are never copied.
SnapshotUncopied(ts) ==
  [attn |-> Len(attn), rec |-> IF req.inplace THEN rec \o ts ELSE rec, head |-> Len(head)]

Snapshot(ts) ==
  [attn |-> Len(attn),
   rec  |-> IF req.inplace /\ ~req.copies THEN rec \o ts ELSE rec,
   head |-> Len(head)]

\* Draft, save, and read the pair.  The legacy scheme drafts here, from a head
\* cache it must be able to roll back.
Verify ==
  /\ pc = "step"
  /\ \E d \in Token :
       /\ t2' = d
       /\ saved' = Snapshot(<<t1, d>>)
       /\ Forward(attn, rec, <<t1, d>>)
  /\ head' = IF Committed THEN head ELSE Append(head, <<row1, t1>>)
  /\ pc' = "judge"
  /\ UNCHANGED <<req, at, row1, t1, drafted, out, finish>>

Accept ==
  /\ pc = "judge" /\ t2 \in Logits(rows[1])
  /\ drafted' = TRUE /\ pc' = "first"
  /\ UNCHANGED <<req, at, attn, rec, rows, row1, t1, t2, saved, head, out, finish>>

\* restore: attention caches are trimmed by the offset delta.
\* Mutant: they are trimmed by one.
RestoredByOne == [attn |-> SubSeq(attn, 1, Len(attn) - 1), rec |-> saved.rec]

Restored == [attn |-> SubSeq(attn, 1, saved.attn), rec |-> saved.rec]

\* The draft falls: a token of the residual takes its place (sampling.py), and
\* the pair is replayed from the snapshot.
Reject ==
  /\ pc = "judge"
  /\ \E t \in Logits(rows[1]) \ {t2} :
       /\ t2' = t
       /\ Forward(Restored.attn, Restored.rec, <<t1, t>>)
  /\ head' = IF Committed THEN head ELSE SubSeq(head, 1, saved.head)
  /\ drafted' = FALSE /\ pc' = "first"
  /\ UNCHANGED <<req, at, row1, t1, saved, out, finish>>

-----------------------------------------------------------------------------
\* Mutant: one token more than max_tokens.
EndsAtLate(tokens) ==
  IF Last(tokens) \in Eos THEN "stop"
  ELSE IF Len(tokens) > req.limit THEN "length" ELSE "none"

EndsAt(tokens) ==
  IF Last(tokens) \in Eos THEN "stop"
  ELSE IF Len(tokens) >= req.limit THEN "length" ELSE "none"

\* One MTPResponse.
Yield(token, isDraft, row, next) ==
  /\ out' = Append(out, [token |-> token, draft |-> isDraft, row |-> row])
  /\ finish' = EndsAt(Append(Tokens, token))
  /\ pc' = IF finish' = "none" THEN next ELSE "done"
  /\ UNCHANGED <<req, at, attn, rec, rows, row1, t1, t2, drafted, saved, head>>

YieldFirst == pc = "first" /\ Yield(t1, FALSE, row1, "second")

\* Mutant: the logprobs of the row after the token.
YieldSecondNextRow == pc = "second" /\ Yield(t2, drafted, rows[2], "advance")

YieldSecond == pc = "second" /\ Yield(t2, drafted, rows[1], "advance")

\* The next pair's first token; the head reads the two positions that just
\* committed.
\* Mutant: the head reads one of them.
AdvanceHeadByOne ==
  /\ pc = "advance"
  /\ row1' = rows[2]
  /\ \E t \in Process(Logits(rows[2]), Tokens) :
       /\ t1' = t
       /\ head' = IF Committed THEN Append(head, <<rows[2], t>>) ELSE head
  /\ pc' = "step"
  /\ UNCHANGED <<req, at, attn, rec, rows, t2, drafted, saved, out, finish>>

Advance ==
  /\ pc = "advance"
  /\ row1' = rows[2]
  /\ \E t \in Process(Logits(rows[2]), Tokens) :
       /\ t1' = t
       /\ head' = IF Committed THEN head \o <<<<rows[1], t2>>, <<rows[2], t>>>> ELSE head
  /\ pc' = "step"
  /\ UNCHANGED <<req, at, attn, rec, rows, t2, drafted, saved, out, finish>>

\* The caller drops the generator at a yield (a stop string, a client gone).
Close ==
  /\ pc \in {"second", "advance"}
  /\ pc' = "closed"
  /\ UNCHANGED <<req, at, attn, rec, rows, row1, t1, t2, drafted, saved, head, out, finish>>

Ended == pc \in {"refused", "done", "closed"}

Stay == Ended /\ UNCHANGED vars

Next ==
  \/ Refuse \/ Begin \/ PrefillChunk \/ First
  \/ Verify \/ Accept \/ Reject
  \/ YieldFirst \/ YieldSecond \/ Advance \/ Close
  \/ Stay

Spec == Init /\ [][Next]_vars

-----------------------------------------------------------------------------
\* Types; no generation is longer than max_tokens.
TypeOK ==
  /\ req \in Requests
  /\ pc \in {"start", "refused", "prefill", "step", "judge", "first", "second", "advance",
             "done", "closed"}
  /\ at \in 0..Len(req.prompt)
  /\ attn \in Seq(Token) /\ rec \in Seq(Token)
  /\ \A j \in DOMAIN rows : rows[j] \in [attn : Seq(Token), rec : Seq(Token)]
  /\ row1 \in [attn : Seq(Token), rec : Seq(Token)]
  /\ t1 \in Token /\ t2 \in Token /\ drafted \in BOOLEAN
  /\ saved \in [attn : Nat, rec : Seq(Token), head : Nat]
  /\ \A j \in DOMAIN head : head[j][1] \in [attn : Seq(Token), rec : Seq(Token)] /\ head[j][2] \in Token
  /\ \A k \in DOMAIN out : out[k].token \in Token /\ out[k].draft \in BOOLEAN
  /\ Len(out) <= req.limit
  /\ finish \in {"none", "stop", "length"}

\* Tokens of the pair the caches have read and the caller has not got yet.
Unyielded ==
  CASE pc \in {"judge", "first"} -> <<t1, t2>>
    [] pc = "second" -> <<t2>>
    [] OTHER -> <<>>

\* The two kinds of cache never drift apart (caches.py): at every point they
\* have read the same tokens, the prompt's and the emitted ones and at most
\* the rest of the pair at hand, rejected drafts leaving nothing behind.
CachesAgree ==
  /\ attn = rec
  /\ pc = "prefill" => attn = req.held \o SubSeq(req.prompt, 1, at)
  /\ pc \in {"step", "judge", "first", "second", "advance"} => attn = Base \o Tokens \o Unyielded
  /\ pc \in {"done", "closed"} => attn \in {Base \o Tokens, Append(Base \o Tokens, t2)}

\* One head row per committed token (loop.py, align="committed"): whenever a
\* draft is made, the head has read position after position, each with the
\* trunk's state at that position and the token that truly followed it, so
\* its cache offset is the true position whatever the chunk width was and
\* whichever drafts fell.
HeadAligned ==
  Committed /\ pc = "step" =>
    LET s == Append(Base \o Tokens, t1)
    IN head = [j \in 1..Len(s) - 1 |-> <<Row(SubSeq(s, 1, j), SubSeq(s, 1, j)), s[j + 1]>>]

\* Nothing of a dropped draft stays in what the next forward reads: the
\* trunk's two kinds of cache and the head's are all at the same token.
StateInStep == CachesAgree /\ HeadAligned

\* The logprobs reported for a token are the trunk's, from the state just
\* before that token, for accepted drafts and replacements alike.
LogprobsHonest ==
  \A k \in DOMAIN out :
    LET before == Base \o SubSeq(Tokens, 1, k - 1)
    IN out[k].row = Row(before, before)

\* Whatever the head drafts, what is emitted is what the trunk alone would
\* emit token by token with the same processors, and it ends where that ends.
Plain == INSTANCE PlainDecode WITH
  context <- Base, limit <- req.limit, emitted <- Tokens
DecodesPlainly == Plain!Spec

-----------------------------------------------------------------------------
(* Values for the constants, for TLC.                                      *)

\* Three tokens; the last one ends a generation.
MCToken == 0..2
MCEos == {2}

\* A trunk whose answer depends on every token it has read and on their order,
\* sometimes a single token, sometimes a choice.
Hash(s) == FoldLeftDomain(LAMBDA h, i : (3 * h + i + s[i] + 1) % 7, 0, s)
MCTrunk(s) == <<{0}, {1}, {0, 1}, {0}, {1}, {0, 1, 2}, {1, 2}>>[Hash(s) + 1]

NoProcessor(allowed, seen) == allowed

\* A logit_bias of -100 on token 0.
LogitBias(allowed, seen) == IF allowed = {0} THEN {1} ELSE allowed \ {0}

\* A family that writes in place is one that copies.
Families == {f \in [copies : BOOLEAN, inplace : BOOLEAN] : f.inplace => f.copies}

MCRequests ==
  {[prompt |-> p, held |-> h, limit |-> n, width |-> w, align |-> a, copies |-> f.copies, inplace |-> f.inplace] :
     p \in {<<0>>, <<1, 0>>, <<0, 1, 1, 0>>}, h \in {<<>>, <<1>>}, n \in {1, 4, 5}, w \in {1, 2},
     a \in {"committed", "legacy"}, f \in Families}

=============================================================================
