---------------------------- MODULE RuntimeProofs ----------------------------
(***************************************************************************)
(* The drafting loop's caches, head and logprobs, for any trunk, head,      *)
(* request and vocabulary, and its output that of decoding without drafts   *)
(* (MtpDecode); and the KL ladder's records and index, for any ladder       *)
(* (KlLadder).                                                             *)
(***************************************************************************)
EXTENDS MCRuntime, SequenceTheorems, TLAPS

-----------------------------------------------------------------------------
(* The drafting loop (MtpDecode).                                          *)

\* Trunk and processors answer with tokens.
AnswersTokens ==
  /\ \A s \in Seq(Token) : Trunk(s) \subseteq Token
  /\ \A a \in SUBSET Token, s \in Seq(Token) : Process(a, s) \subseteq Token

\* No logits processor is given.
Unprocessed == \A a \in SUBSET Token, s \in Seq(Token) : Process(a, s) = a

Context == Base \o Tokens

\* A head that has read s, one row for each token but the first.
HeadOf(s) == [j \in 1..Len(s) - 1 |-> <<Row(SubSeq(s, 1, j), SubSeq(s, 1, j)), s[j + 1]>>]

TokenRow == [attn : Seq(Token), rec : Seq(Token)]
Response == [token : Token, draft : BOOLEAN, row : TokenRow]

DecodeTypes ==
  /\ req \in Requests /\ at \in 0..Len(req.prompt)
  /\ attn \in Seq(Token) /\ rec = attn
  /\ t1 \in Token /\ t2 \in Token /\ drafted \in BOOLEAN
  /\ out \in Seq(Response)

\* The prompt as far as it was read; the head has the token after it too.
PromptRead ==
  /\ pc \in {"start", "refused", "prefill"} => out = <<>>
  /\ pc = "start" => at = 0 /\ attn = req.held /\ head = <<>>
  /\ pc = "prefill" =>
       /\ at < Len(req.prompt)
       /\ attn = req.held \o SubSeq(req.prompt, 1, at)
       /\ Committed => req.held = <<>> /\ head = HeadOf(SubSeq(req.prompt, 1, at + 1))

\* Before a pair is read: the caches hold what was emitted, the head also the
\* pair's first token.
BeforePair ==
  pc = "step" => /\ attn = Context
                 /\ Committed => head = HeadOf(Append(Context, t1))

\* From then on the caches hold the pair, and the two rows are of the state
\* before its second token and after it, wherever the caller has got to.
PairIsRead ==
  pc \in {"judge", "first", "second", "advance"} =>
    /\ rows[1] \in TokenRow /\ rows[1].rec = rows[1].attn /\ rows[1].attn # <<>>
    /\ attn = Append(rows[1].attn, t2)
    /\ rows[2] = Row(attn, attn)
    /\ Committed => head = HeadOf(rows[1].attn)
    /\ pc \in {"judge", "first"} => rows[1].attn = Append(Context, t1)
    /\ pc = "second" => rows[1].attn = Context
    /\ pc = "advance" => attn = Context

\* What the snapshot goes back to is the state the pair was read in.
SavedBefore ==
  pc = "judge" => saved.attn = Len(Context) /\ saved.rec = Context

\* The tokens at hand are the trunk's own.
TokensAllowed ==
  /\ pc \in {"step", "judge", "first"} => /\ t1 \in Process(Trunk(Context), Tokens)
                                          /\ row1 = Row(Context, Context)
  /\ pc \in {"first", "second"} => t2 \in Trunk(rows[1].attn)

EndedRead ==
  /\ pc \in {"done", "closed"} => attn \in {Context, Append(Context, t2)}
  /\ pc # "done" => finish = "none"

DecodeInv ==
  /\ DecodeTypes /\ PromptRead /\ BeforePair /\ PairIsRead
  /\ SavedBefore /\ TokensAllowed /\ EndedRead /\ LogprobsHonest

-----------------------------------------------------------------------------
(* Sequences of tokens.                                                    *)

LEMMA TwoAppended ==
  ASSUME NEW S, NEW a \in Seq(S), NEW x \in S, NEW y \in S
  PROVE  a \o <<x, y>> = Append(Append(a, x), y)
  <1>1. Append(Append(a, x), y) \in Seq(S) /\ a \o <<x, y>> \in Seq(S)
    OBVIOUS
  <1>2. Len(a \o <<x, y>>) = Len(a) + 2 /\ Len(Append(Append(a, x), y)) = Len(a) + 2
    OBVIOUS
  <1>3. ASSUME NEW i \in 1..(Len(a) + 2)
        PROVE  (a \o <<x, y>>)[i] = Append(Append(a, x), y)[i]
    OBVIOUS
  <1>4. QED
    BY <1>1, <1>2, <1>3, SeqEqual

LEMMA AppendedPrefix ==
  ASSUME NEW S, NEW a \in Seq(S), NEW x \in S, NEW n \in 0..Len(a)
  PROVE  SubSeq(Append(a, x), 1, n) = SubSeq(a, 1, n)
  OBVIOUS

LEMMA WholePrefix ==
  ASSUME NEW S, NEW a \in Seq(S)
  PROVE  SubSeq(a, 1, Len(a)) = a
  OBVIOUS

LEMMA NextPrefix ==
  ASSUME NEW S, NEW a \in Seq(S), NEW n \in 0..(Len(a) - 1)
  PROVE  SubSeq(a, 1, n + 1) = Append(SubSeq(a, 1, n), a[n + 1])
  OBVIOUS

\* A further token on a prefix, behind what came before it.
LEMMA AppendedBehind ==
  ASSUME NEW S, NEW a \in Seq(S), NEW b \in Seq(S), NEW x \in S
  PROVE  a \o Append(b, x) = Append(a \o b, x)
  OBVIOUS

\* A stretch of a sequence behind the prefix before it.
LEMMA NextStretch ==
  ASSUME NEW S, NEW a \in Seq(S), NEW m \in 0..Len(a), NEW n \in m..Len(a)
  PROVE  SubSeq(a, 1, m) \o SubSeq(a, m + 1, n) = SubSeq(a, 1, n)
  BY ConcatAdjacentSubSeq

LEMMA TokensJoin ==
  ASSUME NEW a \in Seq(Token), NEW b \in Seq(Token), NEW c \in Seq(Token)
  PROVE  (a \o b) \o c = a \o (b \o c)
  BY ConcatAssociative

LEMMA TokenBehind ==
  ASSUME NEW a \in Seq(Token), NEW b \in Seq(Token), NEW t \in Token
  PROVE  a \o Append(b, t) = Append(a \o b, t)
  BY AppendedBehind

LEMMA RowOfTokens ==
  ASSUME NEW s \in Seq(Token)
  PROVE  Row(s, s) \in TokenRow
  BY DEF Row, TokenRow

LEMMA HeadIsSeq ==
  ASSUME NEW s \in Seq(Token), s # <<>>
  PROVE  /\ HeadOf(s) \in Seq(TokenRow \X Token)
         /\ Len(HeadOf(s)) = Len(s) - 1
  <1>1. Len(s) \in Nat \ {0}
    OBVIOUS
  <1>2. ASSUME NEW j \in 1..Len(s) - 1
        PROVE  <<Row(SubSeq(s, 1, j), SubSeq(s, 1, j)), s[j + 1]>> \in TokenRow \X Token
    BY DEF Row, TokenRow
  <1>3. HeadOf(s) \in [1..(Len(s) - 1) -> TokenRow \X Token]
    BY <1>1, <1>2 DEF HeadOf
  <1>4. QED
    BY <1>1, <1>3

\* The head reads one token more.
LEMMA HeadGrows ==
  ASSUME NEW s \in Seq(Token), s # <<>>, NEW t \in Token
  PROVE  Append(HeadOf(s), <<Row(s, s), t>>) = HeadOf(Append(s, t))
  <1> DEFINE S == TokenRow \X Token
             more == Append(HeadOf(s), <<Row(s, s), t>>)
             all == HeadOf(Append(s, t))
  <1>1. Append(s, t) \in Seq(Token) /\ Append(s, t) # <<>> /\ Len(Append(s, t)) = Len(s) + 1
    OBVIOUS
  <1>2. <<Row(s, s), t>> \in S
    BY DEF Row, TokenRow
  <1>3. more \in Seq(S) /\ Len(more) = Len(s)
    BY <1>2, HeadIsSeq
  <1>4. all \in Seq(S) /\ Len(all) = Len(s)
    <2> DEFINE longer == Append(s, t)
    <2>1. longer \in Seq(Token) /\ longer # <<>> /\ Len(longer) - 1 = Len(s)
      BY <1>1
    <2> HIDE DEF longer
    <2>2. HeadOf(longer) \in Seq(S) /\ Len(HeadOf(longer)) = Len(longer) - 1
      BY <2>1, HeadIsSeq
    <2>3. QED
      BY <2>1, <2>2 DEF longer
  <1>5. ASSUME NEW k \in 1..Len(s)
        PROVE  more[k] = all[k]
    <2>1. all[k] = <<Row(SubSeq(Append(s, t), 1, k), SubSeq(Append(s, t), 1, k)), Append(s, t)[k + 1]>>
      BY <1>1 DEF HeadOf
    <2>2. SubSeq(Append(s, t), 1, k) = SubSeq(s, 1, k)
      BY AppendedPrefix
    <2>3. CASE k = Len(s)
      <3>1. more[k] = <<Row(s, s), t>>
        BY <1>2, <2>3, HeadIsSeq
      <3>2. SubSeq(s, 1, k) = s
        BY <2>3, WholePrefix
      <3>3. Append(s, t)[k + 1] = t
        BY <2>3
      <3>4. QED
        BY <2>1, <2>2, <3>1, <3>2, <3>3
    <2>4. CASE k # Len(s)
      <3>1. more[k] = HeadOf(s)[k]
        BY <1>2, <2>4, HeadIsSeq
      <3>2. HeadOf(s)[k] = <<Row(SubSeq(s, 1, k), SubSeq(s, 1, k)), s[k + 1]>>
        BY <2>4 DEF HeadOf
      <3>3. Append(s, t)[k + 1] = s[k + 1]
        BY <2>4
      <3>4. QED
        BY <2>1, <2>2, <3>1, <3>2, <3>3
    <2>5. QED
      BY <2>3, <2>4
  <1> HIDE DEF more, all, S
  <1>6. more = all
    BY <1>3, <1>4, <1>5, SeqEqual
  <1>7. QED
    BY <1>6 DEF more, all

\* The rows of a forward over one token and over a pair.
LEMMA RowsOfOne ==
  ASSUME NEW a \in Seq(Token), NEW x \in Token
  PROVE  /\ a \o <<x>> = Append(a, x)
         /\ Rows(a, a, <<x>>)[1] = Row(Append(a, x), Append(a, x))
  <1>1. a \o <<x>> = Append(a, x)
    BY AppendIsConcat
  <1>2. SubSeq(<<x>>, 1, 1) = <<x>>
    <2> DEFINE ts == <<x>>
    <2>1. ts \in Seq(Token) /\ Len(ts) = 1
      OBVIOUS
    <2> HIDE DEF ts
    <2>2. SubSeq(ts, 1, Len(ts)) = ts
      BY <2>1, WholePrefix
    <2>3. QED
      BY <2>1, <2>2 DEF ts
  <1>3. 1 \in DOMAIN <<x>>
    OBVIOUS
  <1>4. Rows(a, a, <<x>>)[1] = Row(a \o SubSeq(<<x>>, 1, 1), a \o SubSeq(<<x>>, 1, 1))
    BY <1>3 DEF Rows
  <1>5. QED
    BY <1>1, <1>2, <1>4

LEMMA RowsOfPair ==
  ASSUME NEW a \in Seq(Token), NEW x \in Token, NEW y \in Token
  PROVE  /\ a \o <<x, y>> = Append(Append(a, x), y)
         /\ Rows(a, a, <<x, y>>)[1] = Row(Append(a, x), Append(a, x))
         /\ Rows(a, a, <<x, y>>)[2] = Row(Append(Append(a, x), y), Append(Append(a, x), y))
  <1>1. a \o <<x, y>> = Append(Append(a, x), y)
    BY TwoAppended
  <1>2. a \o <<x>> = Append(a, x)
    BY AppendIsConcat
  <1> DEFINE ts == <<x, y>>
             one == <<x>>
  <1>3. /\ ts \in Seq(Token) /\ Len(ts) = 2 /\ ts = Append(one, y)
        /\ one \in Seq(Token) /\ Len(one) = 1
    OBVIOUS
  <1> HIDE DEF ts, one
  <1>4. SubSeq(ts, 1, 2) = ts
    BY <1>3, WholePrefix
  <1>5. SubSeq(ts, 1, 1) = one
    <2>1. SubSeq(Append(one, y), 1, 1) = SubSeq(one, 1, 1)
      BY <1>3, AppendedPrefix
    <2>2. SubSeq(one, 1, 1) = one
      BY <1>3, WholePrefix
    <2>3. QED
      BY <1>3, <2>1, <2>2
  <1>6. 1 \in DOMAIN ts /\ 2 \in DOMAIN ts
    BY <1>3
  <1>7. /\ Rows(a, a, ts)[1] = Row(a \o SubSeq(ts, 1, 1), a \o SubSeq(ts, 1, 1))
        /\ Rows(a, a, ts)[2] = Row(a \o SubSeq(ts, 1, 2), a \o SubSeq(ts, 1, 2))
    BY <1>6 DEF Rows
  <1>8. QED
    BY <1>1, <1>2, <1>4, <1>5, <1>7 DEF ts, one

-----------------------------------------------------------------------------
(* What a request is, and what was emitted of it.                          *)

LEMMA Requested ==
  ASSUME req \in Requests
  PROVE  /\ req.prompt \in Seq(Token) /\ req.prompt # <<>> /\ req.held \in Seq(Token)
         /\ req.limit \in Nat \ {0} /\ req.width \in Nat \ {0}
         /\ Base \in Seq(Token) /\ Base # <<>>
  <1>1. req \in RequestType /\ req.prompt # <<>>
    BY RequestAssumption
  <1>2. /\ req.prompt \in Seq(Token) /\ req.held \in Seq(Token)
        /\ req.limit \in Nat \ {0} /\ req.width \in Nat \ {0}
    BY <1>1 DEF RequestType
  <1>3. Len(req.held \o req.prompt) = Len(req.held) + Len(req.prompt) /\ Len(req.prompt) > 0
    BY <1>1, <1>2
  <1>4. QED
    BY <1>1, <1>2, <1>3 DEF Base

LEMMA Emitted ==
  ASSUME out \in Seq(Response)
  PROVE  /\ Tokens \in Seq(Token) /\ Len(Tokens) = Len(out)
         /\ \A k \in 1..Len(out) : Tokens[k] = out[k].token
  <1>1. ASSUME NEW k \in 1..Len(out)
        PROVE  out[k].token \in Token
    <2>1. out[k] \in Response
      OBVIOUS
    <2>2. QED
      BY <2>1 DEF Response
  <1>2. DOMAIN out = 1..Len(out) /\ Len(out) \in Nat
    OBVIOUS
  <1>3. Tokens \in [1..Len(out) -> Token]
    BY <1>1, <1>2 DEF Tokens
  <1>4. QED
    BY <1>2, <1>3 DEF Tokens

LEMMA ContextSeq ==
  ASSUME req \in Requests, out \in Seq(Response)
  PROVE  Context \in Seq(Token) /\ Context # <<>>
  <1>1. Base \in Seq(Token) /\ Base # <<>> /\ Tokens \in Seq(Token)
    BY Requested, Emitted
  <1>2. Len(Base \o Tokens) = Len(Base) + Len(Tokens) /\ Len(Base) > 0
    BY <1>1
  <1>3. QED
    BY <1>1, <1>2 DEF Context

LEMMA EmittedGrows ==
  ASSUME req \in Requests, UNCHANGED req, out \in Seq(Response),
         NEW r \in Response, out' = Append(out, r)
  PROVE  /\ out' \in Seq(Response)
         /\ Tokens' = Append(Tokens, r.token) /\ Context' = Append(Context, r.token)
  <1>1. out' \in Seq(Response) /\ Len(out') = Len(out) + 1
    OBVIOUS
  <1>2. r.token \in Token
    BY DEF Response
  <1>3. Tokens \in Seq(Token) /\ Len(Tokens) = Len(out)
    BY Emitted
  <1>4. Tokens' \in Seq(Token) /\ Len(Tokens') = Len(out')
    <2>1. DOMAIN out' = 1..Len(out')
      BY <1>1
    <2>2. ASSUME NEW k \in 1..Len(out')
          PROVE  out'[k].token \in Token
      <3>1. out'[k] \in Response
        BY <1>1
      <3>2. QED
        BY <3>1 DEF Response
    <2>3. Tokens' \in [1..Len(out') -> Token]
      BY <2>1, <2>2 DEF Tokens
    <2>4. QED
      BY <1>1, <2>3
  <1>5. ASSUME NEW k \in 1..Len(out')
        PROVE  Tokens'[k] = Append(Tokens, r.token)[k]
    <2>1. Tokens'[k] = out'[k].token
      BY <1>1 DEF Tokens
    <2>2. CASE k \in 1..Len(out)
      <3>1. out'[k] = out[k]
        BY <2>2
      <3>2. Append(Tokens, r.token)[k] = Tokens[k]
        BY <1>2, <1>3, <2>2
      <3>3. Tokens[k] = out[k].token
        BY <2>2, Emitted
      <3>4. QED
        BY <2>1, <3>1, <3>2, <3>3
    <2>3. CASE k = Len(out) + 1
      <3>1. out'[k] = r
        BY <2>3
      <3>2. Append(Tokens, r.token)[k] = r.token
        BY <1>2, <1>3, <2>3
      <3>3. QED
        BY <2>1, <3>1, <3>2
    <2>4. k \in 1..Len(out) \/ k = Len(out) + 1
      BY <1>1
    <2>5. QED
      BY <2>2, <2>3, <2>4
  <1>6. Tokens' = Append(Tokens, r.token)
    <2>1. Append(Tokens, r.token) \in Seq(Token) /\ Len(Append(Tokens, r.token)) = Len(out')
      BY <1>1, <1>2, <1>3
    <2>2. QED
      BY <1>4, <1>5, <2>1, SeqEqual
  <1>7. Base' = Base /\ Base \in Seq(Token)
    BY Requested DEF Base
  <1>8. Context' = Append(Context, r.token)
    BY <1>2, <1>3, <1>6, <1>7, AppendedBehind DEF Context
  <1>9. QED
    BY <1>1, <1>6, <1>8

LEMMA SameOutput ==
  ASSUME UNCHANGED <<req, out>>, LogprobsHonest
  PROVE  /\ Tokens' = Tokens /\ Context' = Context /\ Base' = Base
         /\ Committed' = Committed /\ LogprobsHonest'
  BY DEF Tokens, Context, Base, Committed, LogprobsHonest

\* A response with the row before its token keeps the logprobs honest.
LEMMA HonestResponse ==
  ASSUME req \in Requests, UNCHANGED req, out \in Seq(Response), LogprobsHonest,
         NEW r \in Response, r.row = Row(Context, Context), out' = Append(out, r)
  PROVE  LogprobsHonest'
  <1>1. /\ Tokens' = Append(Tokens, r.token) /\ Tokens \in Seq(Token)
        /\ Len(Tokens) = Len(out) /\ r.token \in Token /\ Base' = Base
    BY EmittedGrows, Emitted DEF Response, Base
  <1>2. DOMAIN out' = 1..(Len(out) + 1) /\ DOMAIN out = 1..Len(out)
    OBVIOUS
  <1>3. ASSUME NEW k \in 1..(Len(out) + 1)
        PROVE  out'[k].row = Row(Base \o SubSeq(Tokens', 1, k - 1), Base \o SubSeq(Tokens', 1, k - 1))
    <2>1. SubSeq(Tokens', 1, k - 1) = SubSeq(Tokens, 1, k - 1)
      <3>1. k - 1 \in 0..Len(Tokens)
        BY <1>1
      <3>2. QED
        BY <1>1, <3>1, AppendedPrefix
    <2>2. CASE k \in 1..Len(out)
      <3>1. out'[k] = out[k]
        BY <2>2
      <3>2. out[k].row = Row(Base \o SubSeq(Tokens, 1, k - 1), Base \o SubSeq(Tokens, 1, k - 1))
        BY <1>2, <2>2 DEF LogprobsHonest
      <3>3. QED
        BY <2>1, <3>1, <3>2
    <2>3. CASE k = Len(out) + 1
      <3>1. out'[k] = r
        BY <2>3
      <3>2. k - 1 = Len(Tokens)
        BY <1>1, <2>3
      <3>3. SubSeq(Tokens, 1, k - 1) = Tokens
        BY <1>1, <3>2, WholePrefix
      <3>4. QED
        BY <2>1, <3>1, <3>3 DEF Context
    <2>4. QED
      BY <2>2, <2>3
  <1>4. QED
    BY <1>1, <1>2, <1>3 DEF LogprobsHonest

-----------------------------------------------------------------------------
(* The prompt.                                                             *)

LEMMA EmptyHead ==
  ASSUME NEW s \in Seq(Token), Len(s) = 1
  PROVE  HeadOf(s) = <<>>
  <1>1. s # <<>>
    OBVIOUS
  <1>2. HeadOf(s) \in Seq(TokenRow \X Token) /\ Len(HeadOf(s)) = 0
    BY <1>1, HeadIsSeq
  <1> DEFINE h == HeadOf(s)
  <1>3. h \in Seq(TokenRow \X Token) /\ Len(h) = 0
    BY <1>2
  <1> HIDE DEF h
  <1>4. h = <<>>
    BY <1>3
  <1>5. QED
    BY <1>4 DEF h

\* What seeding does for a chunk is to read it.
LEMMA HeadReads ==
  ASSUME NEW p \in Seq(Token), NEW m \in 0..(Len(p) - 1), NEW n \in m..(Len(p) - 1)
  PROVE  HeadOf(SubSeq(p, 1, m + 1))
           \o Zip(Rows(SubSeq(p, 1, m), SubSeq(p, 1, m), SubSeq(p, m + 1, n)), SubSeq(p, m + 2, n + 1))
         = HeadOf(SubSeq(p, 1, n + 1))
  <1> DEFINE S == TokenRow \X Token
             old == HeadOf(SubSeq(p, 1, m + 1))
             chunk == SubSeq(p, m + 1, n)
             rws == Rows(SubSeq(p, 1, m), SubSeq(p, 1, m), chunk)
             next == SubSeq(p, m + 2, n + 1)
             seed == Zip(rws, next)
             new == HeadOf(SubSeq(p, 1, n + 1))
             Read(k) == <<Row(SubSeq(p, 1, k), SubSeq(p, 1, k)), p[k + 1]>>
  <1>1. ASSUME NEW l \in 0..(Len(p) - 1)
        PROVE  /\ HeadOf(SubSeq(p, 1, l + 1)) \in Seq(S) /\ Len(HeadOf(SubSeq(p, 1, l + 1))) = l
               /\ \A k \in 1..l : HeadOf(SubSeq(p, 1, l + 1))[k] = Read(k)
    <2> DEFINE q == SubSeq(p, 1, l + 1)
    <2>1. q \in Seq(Token) /\ Len(q) = l + 1 /\ q # <<>>
      OBVIOUS
    <2>2. ASSUME NEW k \in 1..l
          PROVE  SubSeq(q, 1, k) = SubSeq(p, 1, k) /\ q[k + 1] = p[k + 1]
      BY SMTT(20)
    <2> HIDE DEF q
    <2>3. HeadOf(q) \in Seq(S) /\ Len(HeadOf(q)) = l
      BY <2>1, HeadIsSeq
    <2>4. ASSUME NEW k \in 1..l
          PROVE  HeadOf(q)[k] = Read(k)
      <3>1. HeadOf(q)[k] = <<Row(SubSeq(q, 1, k), SubSeq(q, 1, k)), q[k + 1]>>
        BY <2>1 DEF HeadOf
      <3>2. QED
        BY <3>1, <2>2
    <2>5. QED
      BY <2>3, <2>4 DEF q
  <1>2. /\ chunk \in Seq(Token) /\ Len(chunk) = n - m
        /\ next \in Seq(Token) /\ Len(next) = n - m
        /\ \A k \in 1..(n - m) : next[k] = p[m + k + 1]
    OBVIOUS
  <1>3. ASSUME NEW k \in 1..(n - m)
        PROVE  rws[k] = Row(SubSeq(p, 1, m + k), SubSeq(p, 1, m + k))
    <2>1. SubSeq(chunk, 1, k) = SubSeq(p, m + 1, m + k)
      OBVIOUS
    <2>2. SubSeq(p, 1, m) \o SubSeq(p, m + 1, m + k) = SubSeq(p, 1, m + k)
      BY NextStretch
    <2>3. k \in DOMAIN chunk
      BY <1>2
    <2> HIDE DEF chunk
    <2>4. rws[k] = Row(SubSeq(p, 1, m) \o SubSeq(chunk, 1, k), SubSeq(p, 1, m) \o SubSeq(chunk, 1, k))
      BY <2>3 DEF Rows
    <2>5. QED
      BY <2>1, <2>2, <2>4
  <1>4. Len(rws) = n - m
    <2>1. DOMAIN chunk = 1..(n - m) /\ n - m \in Nat
      BY <1>2
    <2> HIDE DEF chunk
    <2>2. QED
      BY <2>1 DEF Rows
  <1> HIDE DEF rws, next
  <1>5. /\ seed \in Seq(S) /\ Len(seed) = n - m
        /\ \A k \in 1..(n - m) : seed[k] = Read(m + k)
    <2>1. seed = [k \in 1..(n - m) |-> <<rws[k], next[k]>>]
      BY <1>2, <1>4 DEF Zip
    <2>2. ASSUME NEW k \in 1..(n - m)
          PROVE  <<rws[k], next[k]>> = Read(m + k) /\ <<rws[k], next[k]>> \in S
      <3>1. <<rws[k], next[k]>> = Read(m + k)
        BY <1>2, <1>3
      <3>2. SubSeq(p, 1, m + k) \in Seq(Token) /\ next[k] \in Token
        BY <1>2
      <3>3. rws[k] \in TokenRow
        BY <1>3, <3>2, RowOfTokens
      <3>4. QED
        BY <3>1, <3>2, <3>3
    <2> HIDE DEF S, Read, seed
    <2>3. seed \in [1..(n - m) -> S] /\ n - m \in Nat
      BY <2>1, <2>2
    <2>4. seed \in Seq(S) /\ Len(seed) = n - m
      BY <2>3
    <2>5. ASSUME NEW k \in 1..(n - m)
          PROVE  seed[k] = Read(m + k)
      BY <2>1, <2>2
    <2>6. QED
      BY <2>4, <2>5
  <1>6. /\ old \in Seq(S) /\ Len(old) = m /\ \A k \in 1..m : old[k] = Read(k)
        /\ new \in Seq(S) /\ Len(new) = n /\ \A k \in 1..n : new[k] = Read(k)
    <2>1. m \in 0..(Len(p) - 1) /\ n \in 0..(Len(p) - 1)
      OBVIOUS
    <2> HIDE DEF S, Read
    <2>2. old \in Seq(S) /\ Len(old) = m /\ \A k \in 1..m : old[k] = Read(k)
      BY <1>1, <2>1
    <2>3. new \in Seq(S) /\ Len(new) = n /\ \A k \in 1..n : new[k] = Read(k)
      BY <1>1, <2>1
    <2>4. QED
      BY <2>2, <2>3
  <1> HIDE DEF S, old, new, seed, Read
  <1>7. old \o seed \in Seq(S) /\ Len(old \o seed) = n
    <2>1. m \in Nat /\ n \in Nat
      OBVIOUS
    <2>2. old \in Seq(S) /\ seed \in Seq(S)
      BY <1>5, <1>6
    <2>3. old \o seed \in Seq(S) /\ Len(old \o seed) = Len(old) + Len(seed)
      BY <2>2
    <2>4. QED
      BY <1>5, <1>6, <2>1, <2>3
  <1>8. ASSUME NEW k \in 1..n
        PROVE  (old \o seed)[k] = new[k]
    <2>1. CASE k \in 1..m
      BY <2>1, <1>5, <1>6
    <2>2. CASE k \notin 1..m
      <3>1. (old \o seed)[k] = seed[k - m] /\ k - m \in 1..(n - m)
        BY <2>2, <1>5, <1>6
      <3>2. seed[k - m] = Read(m + (k - m)) /\ m + (k - m) = k
        BY <3>1, <1>5
      <3>3. QED
        BY <3>1, <3>2, <1>6
    <2>3. QED
      BY <2>1, <2>2
  <1>9. old \o seed = new
    BY <1>6, <1>7, <1>8, SeqEqual
  <1>10. QED
    BY <1>9 DEF old, seed, new, rws, next

-----------------------------------------------------------------------------
(* Every step keeps the loop's invariant.                                  *)

LEMMA DecodeStarts ==
  ASSUME Init
  PROVE  DecodeInv
  <1>1. /\ req \in Requests /\ pc = "start" /\ at = 0 /\ attn = req.held /\ rec = req.held
        /\ t1 = (CHOOSE t \in Token : TRUE) /\ t2 = t1 /\ drafted = FALSE
        /\ head = <<>> /\ out = <<>> /\ finish = "none"
    BY DEF Init
  <1>2. req.held \in Seq(Token) /\ req.prompt \in Seq(Token) /\ Len(req.prompt) > 0
    BY <1>1, Requested
  <1>3. t1 \in Token
    <2>1. req.prompt[1] \in Token
      BY <1>2
    <2>2. QED
      BY <1>1, <2>1
  <1>4. out \in Seq(Response)
    BY <1>1
  <1>5. DecodeTypes
    <2>1. at \in 0..Len(req.prompt)
      BY <1>1, <1>2
    <2>2. drafted \in BOOLEAN
      BY <1>1
    <2>3. attn \in Seq(Token) /\ rec = attn /\ t2 \in Token
      BY <1>1, <1>2, <1>3
    <2>4. QED
      BY <1>1, <1>3, <1>4, <2>1, <2>2, <2>3 DEF DecodeTypes
  <1>6. LogprobsHonest
    BY <1>1 DEF LogprobsHonest
  <1>7. PromptRead /\ BeforePair /\ PairIsRead /\ SavedBefore /\ TokensAllowed /\ EndedRead
    BY <1>1 DEF PromptRead, BeforePair, PairIsRead, SavedBefore, TokensAllowed, EndedRead
  <1>8. QED
    BY <1>5, <1>6, <1>7 DEF DecodeInv

LEMMA RefuseKeeps ==
  ASSUME DecodeInv, Refuse
  PROVE  DecodeInv'
  <1>1. /\ pc = "start" /\ pc' = "refused"
        /\ UNCHANGED <<req, at, attn, rec, t1, t2, drafted, head, out, finish>>
    BY DEF Refuse
  <1>2. DecodeTypes /\ PromptRead /\ EndedRead /\ LogprobsHonest
    BY DEF DecodeInv
  <1>3. DecodeTypes'
    BY <1>1, <1>2 DEF DecodeTypes
  <1>4. LogprobsHonest'
    BY <1>1, <1>2, SameOutput
  <1>5. PromptRead' /\ BeforePair' /\ PairIsRead' /\ SavedBefore' /\ TokensAllowed' /\ EndedRead'
    BY <1>1, <1>2 DEF PromptRead, BeforePair, PairIsRead, SavedBefore, TokensAllowed, EndedRead
  <1>6. QED
    BY <1>3, <1>4, <1>5 DEF DecodeInv

LEMMA BeginKeeps ==
  ASSUME DecodeInv, Begin
  PROVE  DecodeInv'
  <1>1. /\ pc = "start" /\ pc' = "prefill" /\ (Committed => req.held = <<>>)
        /\ UNCHANGED <<req, at, attn, rec, t1, t2, drafted, head, out, finish>>
    BY DEF Begin, Refuses
  <1>2. DecodeTypes /\ PromptRead /\ EndedRead /\ LogprobsHonest
    BY DEF DecodeInv
  <1>3. DecodeTypes'
    BY <1>1, <1>2 DEF DecodeTypes
  <1>4. LogprobsHonest' /\ Committed' = Committed
    BY <1>1, <1>2, SameOutput
  <1>5. /\ req.prompt \in Seq(Token) /\ Len(req.prompt) > 0 /\ req.held \in Seq(Token)
        /\ out = <<>> /\ at = 0 /\ attn = req.held /\ head = <<>>
    BY <1>1, <1>2, Requested DEF DecodeTypes, PromptRead
  <1>6. HeadOf(SubSeq(req.prompt, 1, at + 1)) = <<>>
    <2>1. SubSeq(req.prompt, 1, at + 1) \in Seq(Token) /\ Len(SubSeq(req.prompt, 1, at + 1)) = 1
      BY <1>5
    <2>2. QED
      BY <2>1, EmptyHead
  <1>7. req.held \o SubSeq(req.prompt, 1, at) = req.held
    <2>1. SubSeq(req.prompt, 1, 0) = <<>>
      BY <1>5
    <2>2. QED
      BY <1>5, <2>1
  <1>8. PromptRead'
    BY <1>1, <1>4, <1>5, <1>6, <1>7 DEF PromptRead, HeadOf
  <1>9. BeforePair' /\ PairIsRead' /\ SavedBefore' /\ TokensAllowed' /\ EndedRead'
    BY <1>1, <1>2 DEF BeforePair, PairIsRead, SavedBefore, TokensAllowed, EndedRead
  <1>10. QED
    BY <1>3, <1>4, <1>8, <1>9 DEF DecodeInv

LEMMA PrefillChunkKeeps ==
  ASSUME DecodeInv, PrefillChunk
  PROVE  DecodeInv'
  <1> DEFINE p == req.prompt
             end == IF at + req.width < Len(p) - 1 THEN at + req.width ELSE Len(p) - 1
             chunk == SubSeq(p, at + 1, end)
  <1>1. /\ pc = "prefill" /\ at < Len(p) - 1 /\ pc' = "prefill"
        /\ attn' = attn \o chunk /\ rec' = rec \o chunk /\ rows' = Rows(attn, rec, chunk)
        /\ at' = end
        /\ head' = IF Committed THEN head \o Zip(rows', SubSeq(p, at + 2, end + 1)) ELSE head
        /\ UNCHANGED <<req, t1, t2, drafted, out, finish>>
    BY DEF PrefillChunk, Forward, Seed
  <1>2. DecodeTypes /\ PromptRead /\ EndedRead /\ LogprobsHonest
    BY DEF DecodeInv
  <1>3. /\ p \in Seq(Token) /\ Len(p) > 0 /\ req.held \in Seq(Token) /\ req.width \in Nat \ {0}
        /\ at \in 0..Len(p) /\ rec = attn
    BY <1>2, Requested DEF DecodeTypes
  <1>4. /\ out = <<>> /\ attn = req.held \o SubSeq(p, 1, at)
        /\ Committed => req.held = <<>> /\ head = HeadOf(SubSeq(p, 1, at + 1))
    BY <1>1, <1>2 DEF PromptRead
  <1>5. at \in 0..(Len(p) - 1) /\ end \in at..(Len(p) - 1)
    <2>1. at \in Nat /\ Len(p) \in Nat /\ req.width \in Nat /\ at < Len(p) - 1
      BY <1>1, <1>3
    <2>2. at \in 0..(Len(p) - 1)
      BY <2>1
    <2> HIDE DEF p
    <2>3. end \in Nat /\ at <= end /\ end <= Len(p) - 1
      BY <2>1
    <2> HIDE DEF end
    <2>4. QED
      BY <2>1, <2>2, <2>3
  <1> HIDE DEF end, p
  <1>6. attn' = req.held \o SubSeq(p, 1, end)
    <2>1. SubSeq(p, 1, at) \o chunk = SubSeq(p, 1, end)
      BY <1>3, <1>5, NextStretch
    <2> DEFINE read == SubSeq(p, 1, at)
    <2>2. read \in Seq(Token) /\ chunk \in Seq(Token)
      BY <1>3, <1>5
    <2>3. attn' = (req.held \o read) \o chunk
      BY <1>1, <1>4
    <2>4. read \o chunk = SubSeq(p, 1, end)
      BY <2>1
    <2> HIDE DEF chunk, read
    <2>5. (req.held \o read) \o chunk = req.held \o (read \o chunk)
      BY <1>3, <2>2, TokensJoin
    <2>6. QED
      BY <2>3, <2>4, <2>5
  <1>7. attn' \in Seq(Token) /\ rec' = attn' /\ at' \in 0..Len(p)
    <2>1. SubSeq(p, 1, end) \in Seq(Token)
      BY <1>3, <1>5
    <2>2. attn' \in Seq(Token)
      BY <1>3, <1>6, <2>1
    <2>3. rec' = attn'
      BY <1>1, <1>3
    <2>4. Len(p) \in Nat /\ end \in 0..Len(p)
      BY <1>3, <1>5
    <2>5. QED
      BY <1>1, <2>2, <2>3, <2>4
  <1>8. DecodeTypes'
    BY <1>1, <1>2, <1>7 DEF DecodeTypes, p
  <1>9. LogprobsHonest' /\ Committed' = Committed
    BY <1>1, <1>2, SameOutput
  <1>10. ASSUME Committed
         PROVE  head' = HeadOf(SubSeq(p, 1, end + 1))
    <2>1. req.held = <<>> /\ head = HeadOf(SubSeq(p, 1, at + 1))
      BY <1>4, <1>10
    <2>2. attn = SubSeq(p, 1, at)
      <3>1. SubSeq(p, 1, at) \in Seq(Token)
        BY <1>3, <1>5
      <3>2. QED
        BY <1>4, <2>1, <3>1
    <2>3. head' = HeadOf(SubSeq(p, 1, at + 1))
                    \o Zip(Rows(SubSeq(p, 1, at), SubSeq(p, 1, at), chunk), SubSeq(p, at + 2, end + 1))
      BY <1>1, <1>3, <1>10, <2>1, <2>2
    <2>4. QED
      BY <1>3, <1>5, <2>3, HeadReads
  <1>11. PromptRead'
    <2>1. at' < Len(p) /\ req' = req
      BY <1>1, <1>3, <1>5
    <2>2. QED
      BY <1>1, <1>4, <1>6, <1>9, <1>10, <2>1 DEF PromptRead, p, HeadOf
  <1>12. BeforePair' /\ PairIsRead' /\ SavedBefore' /\ TokensAllowed' /\ EndedRead'
    BY <1>1, <1>2 DEF BeforePair, PairIsRead, SavedBefore, TokensAllowed, EndedRead
  <1>13. QED
    BY <1>8, <1>9, <1>11, <1>12 DEF DecodeInv

LEMMA FirstKeeps ==
  ASSUME AnswersTokens, DecodeInv, First
  PROVE  DecodeInv'
  <1> DEFINE p == req.prompt
             l == Len(req.prompt)
  <1>1. /\ pc = "prefill" /\ at >= l - 1 /\ pc' = "step" /\ at' = l
        /\ attn' = attn \o <<p[l]>> /\ rec' = rec \o <<p[l]>> /\ rows' = Rows(attn, rec, <<p[l]>>)
        /\ row1' = rows'[1]
        /\ t1' \in Process(Logits(rows'[1]), <<>>)
        /\ head' = IF Committed THEN Append(head, <<row1', t1'>>) ELSE head
        /\ UNCHANGED <<req, t2, drafted, out, finish>>
    BY DEF First, LastIsNext, Forward
  <1>2. DecodeTypes /\ PromptRead /\ EndedRead /\ LogprobsHonest
    BY DEF DecodeInv
  <1>3. /\ p \in Seq(Token) /\ l \in Nat /\ l > 0 /\ req.held \in Seq(Token)
        /\ at \in 0..l /\ rec = attn /\ attn \in Seq(Token)
    BY <1>2, Requested DEF DecodeTypes
  <1>4. /\ at < l /\ out = <<>> /\ attn = req.held \o SubSeq(p, 1, at)
        /\ Committed => req.held = <<>> /\ head = HeadOf(SubSeq(p, 1, at + 1))
    BY <1>1, <1>2 DEF PromptRead
  <1>5. at = l - 1 /\ p[l] \in Token
    BY <1>1, <1>3, <1>4
  <1>6. /\ Context' = Context /\ Tokens' = Tokens /\ LogprobsHonest' /\ Committed' = Committed
    BY <1>1, <1>2, SameOutput
  <1>7. Tokens = <<>> /\ Context = Base /\ Base \in Seq(Token) /\ Base # <<>>
    <2>1. Tokens = <<>>
      <3>1. Tokens \in Seq(Token) /\ Len(Tokens) = 0
        BY <1>4, <1>2, Emitted DEF DecodeTypes
      <3>2. QED
        BY <3>1
    <2>2. Base \in Seq(Token) /\ Base # <<>>
      BY <1>2, Requested DEF DecodeTypes
    <2>3. QED
      BY <2>1, <2>2 DEF Context
  <1> HIDE DEF p, l
  <1>8. Append(attn, p[l]) = Base
    <2> DEFINE read == SubSeq(p, 1, l - 1)
    <2>1. read \in Seq(Token) /\ attn = req.held \o read
      BY <1>3, <1>4, <1>5
    <2>2. Append(read, p[l]) = p
      <3>1. SubSeq(p, 1, (l - 1) + 1) = Append(SubSeq(p, 1, l - 1), p[(l - 1) + 1])
        <4>1. l - 1 \in 0..(Len(p) - 1)
          BY <1>3 DEF p, l
        <4>2. QED
          BY <1>3, <4>1, NextPrefix
      <3>2. SubSeq(p, 1, Len(p)) = p /\ Len(p) = l /\ (l - 1) + 1 = l
        BY <1>3, WholePrefix DEF p, l
      <3>3. QED
        BY <3>1, <3>2
    <2> HIDE DEF read
    <2>3. req.held \o Append(read, p[l]) = Append(req.held \o read, p[l])
      BY <1>3, <1>5, <2>1, TokenBehind
    <2>4. QED
      BY <2>1, <2>2, <2>3 DEF Base, p
  <1>9. attn' = Context /\ rec' = Context /\ row1' = Row(Context, Context)
    <2>1. attn \o <<p[l]>> = Append(attn, p[l])
      BY <1>3, <1>5, RowsOfOne
    <2>2. Rows(attn, attn, <<p[l]>>)[1] = Row(Append(attn, p[l]), Append(attn, p[l]))
      BY <1>3, <1>5, RowsOfOne
    <2>3. QED
      BY <1>1, <1>3, <1>7, <1>8, <2>1, <2>2
  <1>10. t1' \in Process(Trunk(Context), Tokens) /\ t1' \in Token
    <2>1. Logits(rows'[1]) = Trunk(Context)
      BY <1>1, <1>9 DEF Logits, Row
    <2>2. Trunk(Context) \in SUBSET Token /\ Tokens \in Seq(Token)
      BY <1>7 DEF AnswersTokens
    <2>3. Process(Trunk(Context), Tokens) \subseteq Token
      BY <2>2 DEF AnswersTokens
    <2>4. QED
      BY <1>1, <1>7, <2>1, <2>3
  <1>11. DecodeTypes'
    <2>1. at' \in 0..Len(req.prompt)
      BY <1>1, <1>3 DEF l
    <2>2. attn' \in Seq(Token) /\ rec' = attn'
      BY <1>7, <1>9
    <2>3. QED
      BY <1>1, <1>2, <1>10, <2>1, <2>2 DEF DecodeTypes
  <1>12. ASSUME Committed
         PROVE  head' = HeadOf(Append(Context, t1'))
    <2>1. head = HeadOf(SubSeq(p, 1, l)) /\ Base = p
      <3>1. (l - 1) + 1 = l
        BY <1>3
      <3>2. Base = p
        <4>1. Base = <<>> \o p
          BY <1>4, <1>12 DEF Base, p
        <4>2. QED
          BY <1>3, <4>1
      <3>3. QED
        BY <1>4, <1>5, <1>12, <3>1, <3>2
    <2>2. SubSeq(p, 1, l) = p
      BY <1>3, WholePrefix DEF l, p
    <2>3. head' = Append(HeadOf(Context), <<Row(Context, Context), t1'>>)
      BY <1>1, <1>7, <1>9, <1>12, <2>1, <2>2
    <2>4. QED
      BY <1>7, <1>10, <2>3, HeadGrows
  <1>13. BeforePair'
    BY <1>1, <1>6, <1>9, <1>12 DEF BeforePair, HeadOf
  <1>14. TokensAllowed'
    BY <1>1, <1>6, <1>9, <1>10 DEF TokensAllowed, Row
  <1>15. PromptRead' /\ PairIsRead' /\ SavedBefore' /\ EndedRead'
    BY <1>1, <1>2 DEF PromptRead, PairIsRead, SavedBefore, EndedRead
  <1>16. QED
    BY <1>6, <1>11, <1>13, <1>14, <1>15 DEF DecodeInv

\* A snapshot is of the state as it is: no request goes without copies whose
\* family writes in place.
LEMMA SnapshotSaves ==
  ASSUME req \in Requests, NEW ts
  PROVE  Snapshot(ts).attn = Len(attn) /\ Snapshot(ts).rec = rec
  <1>1. req.inplace => req.copies
    BY RequestAssumption
  <1>2. QED
    BY <1>1 DEF Snapshot

LEMMA VerifyKeeps ==
  ASSUME DecodeInv, Verify
  PROVE  DecodeInv'
  <1>1. /\ pc = "step" /\ pc' = "judge" /\ t2' \in Token
        /\ saved' = Snapshot(<<t1, t2'>>)
        /\ attn' = attn \o <<t1, t2'>> /\ rec' = rec \o <<t1, t2'>>
        /\ rows' = Rows(attn, rec, <<t1, t2'>>)
        /\ Committed => head' = head
        /\ UNCHANGED <<req, at, row1, t1, drafted, out, finish>>
    BY DEF Verify, Forward
  <1>2. DecodeTypes /\ BeforePair /\ TokensAllowed /\ EndedRead /\ LogprobsHonest
    BY DEF DecodeInv
  <1>3. /\ Context' = Context /\ Tokens' = Tokens /\ LogprobsHonest' /\ Committed' = Committed
    BY <1>1, <1>2, SameOutput
  <1>4. /\ attn = Context /\ rec = Context /\ t1 \in Token /\ Context \in Seq(Token)
        /\ Committed => head = HeadOf(Append(Context, t1))
    BY <1>1, <1>2, ContextSeq DEF DecodeTypes, BeforePair
  <1> DEFINE w == Append(Context, t1)
  <1>5. /\ attn' = Append(w, t2') /\ rec' = attn'
        /\ rows'[1] = Row(w, w) /\ rows'[2] = Row(attn', attn')
    <2>1. /\ Context \o <<t1, t2'>> = Append(w, t2')
          /\ Rows(Context, Context, <<t1, t2'>>)[1] = Row(w, w)
          /\ Rows(Context, Context, <<t1, t2'>>)[2] = Row(Append(w, t2'), Append(w, t2'))
      BY <1>1, <1>4, RowsOfPair
    <2>2. QED
      BY <1>1, <1>4, <2>1
  <1>6. w \in Seq(Token) /\ w # <<>> /\ attn' \in Seq(Token)
    BY <1>1, <1>4, <1>5
  <1> HIDE DEF w
  <1>7. rows'[1] \in TokenRow /\ rows'[1].attn = w /\ rows'[1].rec = w
    BY <1>5, <1>6, RowOfTokens DEF Row
  <1>8. DecodeTypes'
    BY <1>1, <1>2, <1>5, <1>6 DEF DecodeTypes
  <1>9. PairIsRead'
    BY <1>1, <1>3, <1>4, <1>5, <1>6, <1>7 DEF PairIsRead, w, HeadOf, Row, TokenRow
  <1>10. SavedBefore'
    <2>1. saved'.attn = Len(attn) /\ saved'.rec = rec
      BY <1>1, <1>2, SnapshotSaves DEF DecodeTypes
    <2>2. QED
      BY <1>3, <1>4, <2>1 DEF SavedBefore
  <1>11. TokensAllowed'
    BY <1>1, <1>2, <1>3 DEF TokensAllowed, Row
  <1>12. PromptRead' /\ BeforePair' /\ EndedRead'
    BY <1>1, <1>2 DEF PromptRead, BeforePair, EndedRead
  <1>13. QED
    BY <1>3, <1>8, <1>9, <1>10, <1>11, <1>12 DEF DecodeInv

LEMMA AcceptKeeps ==
  ASSUME DecodeInv, Accept
  PROVE  DecodeInv'
  <1>1. /\ pc = "judge" /\ t2 \in Logits(rows[1]) /\ drafted' = TRUE /\ pc' = "first"
        /\ UNCHANGED <<req, at, attn, rec, rows, row1, t1, t2, head, out, finish>>
    BY DEF Accept
  <1>2. DecodeTypes /\ PairIsRead /\ TokensAllowed /\ EndedRead /\ LogprobsHonest
    BY DEF DecodeInv
  <1>3. /\ Context' = Context /\ Tokens' = Tokens /\ LogprobsHonest' /\ Committed' = Committed
    BY <1>1, <1>2, SameOutput
  <1>4. DecodeTypes'
    BY <1>1, <1>2 DEF DecodeTypes
  <1>5. PairIsRead'
    BY <1>1, <1>2, <1>3 DEF PairIsRead, Row, HeadOf
  <1>6. t2 \in Trunk(rows[1].attn)
    BY <1>1, <1>2 DEF PairIsRead, Logits
  <1>7. TokensAllowed'
    BY <1>1, <1>2, <1>3, <1>6 DEF TokensAllowed, Row
  <1>8. PromptRead' /\ BeforePair' /\ SavedBefore' /\ EndedRead'
    BY <1>1, <1>2 DEF PromptRead, BeforePair, SavedBefore, EndedRead
  <1>9. QED
    BY <1>3, <1>4, <1>5, <1>7, <1>8 DEF DecodeInv

LEMMA RejectKeeps ==
  ASSUME AnswersTokens, DecodeInv, Reject
  PROVE  DecodeInv'
  <1>1. /\ pc = "judge" /\ t2' \in Logits(rows[1]) /\ drafted' = FALSE /\ pc' = "first"
        /\ attn' = SubSeq(attn, 1, saved.attn) \o <<t1, t2'>> /\ rec' = saved.rec \o <<t1, t2'>>
        /\ rows' = Rows(SubSeq(attn, 1, saved.attn), saved.rec, <<t1, t2'>>)
        /\ Committed => head' = head
        /\ UNCHANGED <<req, at, row1, t1, out, finish>>
    BY DEF Reject, Restored, Forward
  <1>2. DecodeTypes /\ PairIsRead /\ SavedBefore /\ TokensAllowed /\ EndedRead /\ LogprobsHonest
    BY DEF DecodeInv
  <1>3. /\ Context' = Context /\ Tokens' = Tokens /\ LogprobsHonest' /\ Committed' = Committed
    BY <1>1, <1>2, SameOutput
  <1> DEFINE w == Append(Context, t1)
  <1>4. /\ t1 \in Token /\ t2 \in Token /\ Context \in Seq(Token)
        /\ saved.attn = Len(Context) /\ saved.rec = Context
        /\ attn = Append(w, t2) /\ rows[1].attn = w /\ rows[1].rec = w /\ w # <<>>
        /\ Committed => head = HeadOf(w)
    BY <1>1, <1>2, ContextSeq DEF DecodeTypes, PairIsRead, SavedBefore
  <1>5. SubSeq(attn, 1, saved.attn) = Context
    <2>1. w \in Seq(Token) /\ Len(Context) \in 0..Len(w) /\ Len(Context) \in Nat
      BY <1>4
    <2>2. SubSeq(Append(w, t2), 1, Len(Context)) = SubSeq(w, 1, Len(Context))
      BY <1>4, <2>1, AppendedPrefix
    <2>3. SubSeq(w, 1, Len(Context)) = SubSeq(Context, 1, Len(Context))
      <3>1. Len(Context) \in 0..Len(Context)
        BY <2>1
      <3>2. QED
        BY <1>4, <3>1, AppendedPrefix
    <2>4. SubSeq(Context, 1, Len(Context)) = Context
      BY <1>4, WholePrefix
    <2>5. QED
      BY <1>4, <2>2, <2>3, <2>4
  <1>6. w \in Seq(Token) /\ t2' \in Trunk(w) /\ t2' \in Token
    <2>1. w \in Seq(Token)
      BY <1>4
    <2>2. Logits(rows[1]) = Trunk(w)
      BY <1>4 DEF Logits
    <2>3. Trunk(w) \subseteq Token
      BY <2>1 DEF AnswersTokens
    <2>4. QED
      BY <1>1, <2>1, <2>2, <2>3
  <1>7. /\ attn' = Append(w, t2') /\ rec' = attn'
        /\ rows'[1] = Row(w, w) /\ rows'[2] = Row(attn', attn')
    <2>1. /\ Context \o <<t1, t2'>> = Append(w, t2')
          /\ Rows(Context, Context, <<t1, t2'>>)[1] = Row(w, w)
          /\ Rows(Context, Context, <<t1, t2'>>)[2] = Row(Append(w, t2'), Append(w, t2'))
      BY <1>4, <1>6, RowsOfPair
    <2>2. QED
      BY <1>1, <1>4, <1>5, <2>1
  <1>8. attn' \in Seq(Token)
    BY <1>6, <1>7
  <1> HIDE DEF w
  <1>9. rows'[1] \in TokenRow /\ rows'[1].attn = w /\ rows'[1].rec = w
    BY <1>6, <1>7, RowOfTokens DEF Row
  <1>10. DecodeTypes'
    BY <1>1, <1>2, <1>6, <1>7, <1>8 DEF DecodeTypes
  <1>11. PairIsRead'
    BY <1>1, <1>3, <1>4, <1>7, <1>9 DEF PairIsRead, w, HeadOf, Row, TokenRow
  <1>12. TokensAllowed'
    BY <1>1, <1>2, <1>3, <1>6, <1>9 DEF TokensAllowed, Row
  <1>13. PromptRead' /\ BeforePair' /\ SavedBefore' /\ EndedRead'
    BY <1>1, <1>2 DEF PromptRead, BeforePair, SavedBefore, EndedRead
  <1>14. QED
    BY <1>3, <1>10, <1>11, <1>12, <1>13 DEF DecodeInv

\* What a response with the next token and the row before it does to the output.
LEMMA YieldGives ==
  ASSUME DecodeInv, NEW t \in Token, NEW next, Yield(t, drafted, Row(Context, Context), next)
            \/ Yield(t, FALSE, Row(Context, Context), next)
  PROVE  /\ out' \in Seq(Response) /\ LogprobsHonest'
         /\ Tokens' = Append(Tokens, t) /\ Context' = Append(Context, t)
         /\ pc' = IF finish' = "none" THEN next ELSE "done"
         /\ UNCHANGED <<req, at, attn, rec, rows, row1, t1, t2, drafted, saved, head>>
         /\ Committed' = Committed
  <1>1. DecodeTypes /\ LogprobsHonest
    BY DEF DecodeInv
  <1>2. PICK d \in BOOLEAN : Yield(t, d, Row(Context, Context), next)
    BY <1>1 DEF DecodeTypes
  <1> DEFINE r == [token |-> t, draft |-> d, row |-> Row(Context, Context)]
  <1>3. /\ out' = Append(out, r)
        /\ pc' = IF finish' = "none" THEN next ELSE "done"
        /\ UNCHANGED <<req, at, attn, rec, rows, row1, t1, t2, drafted, saved, head>>
    BY <1>2 DEF Yield
  <1>4. req \in Requests /\ out \in Seq(Response) /\ Context \in Seq(Token)
    BY <1>1, ContextSeq DEF DecodeTypes
  <1>5. r \in Response /\ r.row = Row(Context, Context) /\ r.token = t
    BY <1>4, RowOfTokens DEF Response
  <1> HIDE DEF r
  <1>6. out' \in Seq(Response) /\ Tokens' = Append(Tokens, t) /\ Context' = Append(Context, t)
    BY <1>3, <1>4, <1>5, EmittedGrows
  <1>7. LogprobsHonest'
    BY <1>1, <1>3, <1>4, <1>5, HonestResponse
  <1>8. Committed' = Committed
    BY <1>3 DEF Committed
  <1>9. QED
    BY <1>3, <1>6, <1>7, <1>8

LEMMA YieldFirstKeeps ==
  ASSUME DecodeInv, YieldFirst
  PROVE  DecodeInv'
  <1>1. DecodeTypes /\ PairIsRead /\ TokensAllowed /\ EndedRead
    BY DEF DecodeInv
  <1>2. pc = "first" /\ Yield(t1, FALSE, row1, "second")
    BY DEF YieldFirst
  <1>3. t1 \in Token /\ row1 = Row(Context, Context)
    BY <1>1, <1>2 DEF DecodeTypes, TokensAllowed
  <1>4. /\ out' \in Seq(Response) /\ LogprobsHonest'
        /\ Tokens' = Append(Tokens, t1) /\ Context' = Append(Context, t1)
        /\ pc' = IF finish' = "none" THEN "second" ELSE "done"
        /\ UNCHANGED <<req, at, attn, rec, rows, row1, t1, t2, drafted, saved, head>>
        /\ Committed' = Committed
    BY <1>2, <1>3, YieldGives
  <1>5. rows[1].attn = Append(Context, t1)
    BY <1>1, <1>2 DEF PairIsRead
  <1>6. DecodeTypes'
    BY <1>1, <1>4 DEF DecodeTypes
  <1>7. PairIsRead'
    BY <1>1, <1>2, <1>4, <1>5 DEF PairIsRead, Row, HeadOf
  <1>8. TokensAllowed'
    BY <1>1, <1>2, <1>4 DEF TokensAllowed
  <1>9. EndedRead'
    BY <1>1, <1>2, <1>4, <1>5 DEF EndedRead, PairIsRead
  <1>10. PromptRead' /\ BeforePair' /\ SavedBefore'
    BY <1>4 DEF PromptRead, BeforePair, SavedBefore
  <1>11. QED
    BY <1>4, <1>6, <1>7, <1>8, <1>9, <1>10 DEF DecodeInv

LEMMA YieldSecondKeeps ==
  ASSUME DecodeInv, YieldSecond
  PROVE  DecodeInv'
  <1>1. DecodeTypes /\ PairIsRead /\ TokensAllowed /\ EndedRead
    BY DEF DecodeInv
  <1>2. pc = "second" /\ Yield(t2, drafted, rows[1], "advance")
    BY DEF YieldSecond
  <1>3. /\ rows[1] \in TokenRow /\ rows[1].attn = Context /\ rows[1].rec = Context
        /\ attn = Append(Context, t2) /\ t2 \in Token
    BY <1>1, <1>2 DEF DecodeTypes, PairIsRead
  <1>4. rows[1] = Row(Context, Context)
    BY <1>3 DEF Row, TokenRow
  <1>5. /\ out' \in Seq(Response) /\ LogprobsHonest'
        /\ Tokens' = Append(Tokens, t2) /\ Context' = Append(Context, t2)
        /\ pc' = IF finish' = "none" THEN "advance" ELSE "done"
        /\ UNCHANGED <<req, at, attn, rec, rows, row1, t1, t2, drafted, saved, head>>
        /\ Committed' = Committed
    BY <1>2, <1>3, <1>4, YieldGives
  <1>6. DecodeTypes'
    BY <1>1, <1>5 DEF DecodeTypes
  <1>7. PairIsRead'
    BY <1>1, <1>2, <1>3, <1>5 DEF PairIsRead, Row, HeadOf
  <1>8. TokensAllowed'
    BY <1>5 DEF TokensAllowed
  <1>9. EndedRead'
    BY <1>3, <1>5 DEF EndedRead
  <1>10. PromptRead' /\ BeforePair' /\ SavedBefore'
    BY <1>5 DEF PromptRead, BeforePair, SavedBefore
  <1>11. QED
    BY <1>5, <1>6, <1>7, <1>8, <1>9, <1>10 DEF DecodeInv

LEMMA AdvanceKeeps ==
  ASSUME AnswersTokens, DecodeInv, Advance
  PROVE  DecodeInv'
  <1>1. /\ pc = "advance" /\ row1' = rows[2] /\ pc' = "step"
        /\ t1' \in Process(Logits(rows[2]), Tokens)
        /\ head' = IF Committed THEN head \o <<<<rows[1], t2>>, <<rows[2], t1'>>>> ELSE head
        /\ UNCHANGED <<req, at, attn, rec, rows, t2, drafted, saved, out, finish>>
    BY DEF Advance
  <1>2. DecodeTypes /\ PairIsRead /\ EndedRead /\ LogprobsHonest
    BY DEF DecodeInv
  <1>3. /\ Context' = Context /\ Tokens' = Tokens /\ LogprobsHonest' /\ Committed' = Committed
    BY <1>1, <1>2, SameOutput
  <1> DEFINE w == rows[1].attn
  <1>4. /\ rows[1] \in TokenRow /\ rows[1].rec = w /\ w # <<>> /\ attn = Append(w, t2) /\ attn = Context
        /\ rows[2] = Row(attn, attn) /\ t2 \in Token /\ attn \in Seq(Token) /\ rec = attn
        /\ Committed => head = HeadOf(w)
    BY <1>1, <1>2 DEF DecodeTypes, PairIsRead
  <1>5. w \in Seq(Token) /\ rows[1] = Row(w, w) /\ Tokens \in Seq(Token)
    BY <1>2, <1>4, Emitted DEF DecodeTypes, TokenRow, Row
  <1>6. t1' \in Process(Trunk(Context), Tokens) /\ t1' \in Token
    <2>1. Logits(rows[2]) = Trunk(Context)
      BY <1>4 DEF Logits, Row
    <2>2. Trunk(Context) \in SUBSET Token
      BY <1>4 DEF AnswersTokens
    <2>3. Process(Trunk(Context), Tokens) \subseteq Token
      BY <1>5, <2>2 DEF AnswersTokens
    <2>4. QED
      BY <1>1, <2>1, <2>3
  <1>7. DecodeTypes'
    BY <1>1, <1>2, <1>6 DEF DecodeTypes
  <1>8. ASSUME Committed
        PROVE  head' = HeadOf(Append(Context, t1'))
    <2> DEFINE one == <<Row(w, w), t2>>
               two == <<Row(attn, attn), t1'>>
               S == TokenRow \X Token
    <2>1. head' = HeadOf(w) \o <<one, two>>
      BY <1>1, <1>4, <1>5, <1>8
    <2>2. w # <<>> /\ HeadOf(w) \in Seq(S)
      BY <1>4, <1>5, HeadIsSeq
    <2>3. one \in S /\ two \in S
      BY <1>4, <1>5, <1>6, RowOfTokens
    <2>4. attn # <<>>
      BY <1>2, <1>4, ContextSeq DEF DecodeTypes
    <2>5. Append(HeadOf(w), one) = HeadOf(attn)
      BY <1>4, <1>5, <2>2, HeadGrows
    <2>6. Append(HeadOf(attn), two) = HeadOf(Append(attn, t1'))
      BY <1>4, <1>6, <2>4, HeadGrows
    <2> HIDE DEF one, two, S, w
    <2>7. HeadOf(w) \o <<one, two>> = Append(Append(HeadOf(w), one), two)
      BY <2>2, <2>3, TwoAppended
    <2>8. QED
      BY <1>4, <2>1, <2>5, <2>6, <2>7
  <1>9. BeforePair'
    BY <1>1, <1>3, <1>4, <1>8 DEF BeforePair, HeadOf
  <1>10. TokensAllowed'
    BY <1>1, <1>3, <1>4, <1>6 DEF TokensAllowed, Row
  <1>11. PromptRead' /\ PairIsRead' /\ SavedBefore' /\ EndedRead'
    BY <1>1, <1>2 DEF PromptRead, PairIsRead, SavedBefore, EndedRead
  <1>12. QED
    BY <1>3, <1>7, <1>9, <1>10, <1>11 DEF DecodeInv

LEMMA CloseKeeps ==
  ASSUME DecodeInv, Close
  PROVE  DecodeInv'
  <1>1. /\ pc \in {"second", "advance"} /\ pc' = "closed"
        /\ UNCHANGED <<req, at, attn, rec, t1, t2, drafted, out, finish>>
    BY DEF Close
  <1>2. DecodeTypes /\ PairIsRead /\ EndedRead /\ LogprobsHonest
    BY DEF DecodeInv
  <1>3. Context' = Context /\ LogprobsHonest'
    BY <1>1, <1>2, SameOutput
  <1>4. DecodeTypes'
    BY <1>1, <1>2 DEF DecodeTypes
  <1>5. EndedRead'
    BY <1>1, <1>2, <1>3 DEF EndedRead, PairIsRead
  <1>6. PromptRead' /\ BeforePair' /\ PairIsRead' /\ SavedBefore' /\ TokensAllowed'
    BY <1>1 DEF PromptRead, BeforePair, PairIsRead, SavedBefore, TokensAllowed
  <1>7. QED
    BY <1>3, <1>4, <1>5, <1>6 DEF DecodeInv

LEMMA DecodeStays ==
  ASSUME DecodeInv, UNCHANGED vars
  PROVE  DecodeInv'
  <1>1. UNCHANGED <<req, pc, at, attn, rec, rows, row1, t1, t2, drafted, saved, head, out, finish>>
    BY DEF vars
  <1>2. /\ DecodeTypes /\ PromptRead /\ BeforePair /\ PairIsRead
        /\ SavedBefore /\ TokensAllowed /\ EndedRead /\ LogprobsHonest
    BY DEF DecodeInv
  <1>3. /\ Context' = Context /\ Tokens' = Tokens /\ LogprobsHonest' /\ Committed' = Committed
    BY <1>1, <1>2, SameOutput
  <1>4. DecodeTypes'
    BY <1>1, <1>2 DEF DecodeTypes
  <1>5. PromptRead'
    BY <1>1, <1>2, <1>3 DEF PromptRead, HeadOf, Row
  <1>6. BeforePair'
    BY <1>1, <1>2, <1>3 DEF BeforePair, HeadOf, Row
  <1>7. PairIsRead'
    BY <1>1, <1>2, <1>3 DEF PairIsRead, HeadOf, Row
  <1>8. SavedBefore'
    BY <1>1, <1>2, <1>3 DEF SavedBefore
  <1>9. TokensAllowed'
    BY <1>1, <1>2, <1>3 DEF TokensAllowed, Row
  <1>10. EndedRead'
    BY <1>1, <1>2, <1>3 DEF EndedRead
  <1>11. QED
    BY <1>3, <1>4, <1>5, <1>6, <1>7, <1>8, <1>9, <1>10 DEF DecodeInv

LEMMA DecodeNext ==
  ASSUME AnswersTokens, DecodeInv, Next
  PROVE  DecodeInv'
  <1>1. \/ Refuse \/ Begin \/ PrefillChunk \/ First
        \/ Verify \/ Accept \/ Reject
        \/ YieldFirst \/ YieldSecond \/ Advance \/ Close
        \/ UNCHANGED vars
    BY DEF Next, Stay
  <1>2. QED
    BY <1>1, RefuseKeeps, BeginKeeps, PrefillChunkKeeps, FirstKeeps, VerifyKeeps, AcceptKeeps,
       RejectKeeps, YieldFirstKeeps, YieldSecondKeeps, AdvanceKeeps, CloseKeeps, DecodeStays

\* What the invariant says of caches, head and logprobs.
LEMMA DecodeHolds ==
  ASSUME DecodeInv
  PROVE  StateInStep /\ LogprobsHonest
  <1>1. /\ DecodeTypes /\ PromptRead /\ BeforePair /\ PairIsRead /\ EndedRead
        /\ LogprobsHonest /\ Context \in Seq(Token)
    BY ContextSeq DEF DecodeInv, DecodeTypes
  <1>2. t1 \in Token /\ t2 \in Token /\ rec = attn
    BY <1>1 DEF DecodeTypes
  <1>3. pc = "step" => attn = Context \o <<>>
    BY <1>1 DEF BeforePair
  <1>4. pc \in {"judge", "first"} => attn = Context \o <<t1, t2>>
    <2>1. Append(Append(Context, t1), t2) = Context \o <<t1, t2>>
      BY <1>1, <1>2, TwoAppended
    <2>2. QED
      BY <1>1, <2>1 DEF PairIsRead
  <1>5. pc = "second" => attn = Context \o <<t2>>
    <2>1. Append(Context, t2) = Context \o <<t2>>
      BY <1>1, <1>2, RowsOfOne
    <2>2. QED
      BY <1>1, <2>1 DEF PairIsRead
  <1>6. pc = "advance" => attn = Context \o <<>>
    BY <1>1 DEF PairIsRead
  <1>7. pc \in {"step", "judge", "first", "second", "advance"} => attn = Context \o Unyielded
    BY <1>3, <1>4, <1>5, <1>6 DEF Unyielded
  <1>8. CachesAgree
    BY <1>1, <1>2, <1>7 DEF CachesAgree, PromptRead, EndedRead, Context
  <1>9. HeadAligned
    BY <1>1 DEF HeadAligned, BeforePair, HeadOf, Context
  <1>10. QED
    BY <1>1, <1>8, <1>9 DEF StateInStep

-----------------------------------------------------------------------------
(* Drafting implements decoding without drafts.                            *)

LEMMA PlainStarts ==
  ASSUME Init
  PROVE  Plain!Init
  <1>1. req \in Requests /\ out = <<>> /\ finish = "none"
    BY DEF Init
  <1>2. Base \in Seq(Token) /\ req.limit \in Nat \ {0}
    BY <1>1, Requested
  <1>3. Tokens = <<>>
    BY <1>1 DEF Tokens
  <1>4. QED
    BY <1>1, <1>2, <1>3 DEF Plain!Init

\* A response is one step of plain decoding, if the trunk admits its token.
LEMMA PlainEmits ==
  ASSUME DecodeInv, pc # "done", NEW t \in Process(Trunk(Context), Tokens), t \in Token,
         NEW d \in BOOLEAN, NEW next, Yield(t, d, Row(Context, Context), next)
  PROVE  Plain!Emit
  <1>1. DecodeTypes /\ EndedRead /\ LogprobsHonest
    BY DEF DecodeInv
  <1> DEFINE r == [token |-> t, draft |-> d, row |-> Row(Context, Context)]
  <1>2. /\ out' = Append(out, r) /\ UNCHANGED req
        /\ finish' = EndsAt(Append(Tokens, t))
    BY DEF Yield
  <1>3. req \in Requests /\ out \in Seq(Response) /\ Context \in Seq(Token)
    BY <1>1, ContextSeq DEF DecodeTypes
  <1>4. r \in Response /\ r.token = t
    BY <1>3, RowOfTokens DEF Response
  <1> HIDE DEF r
  <1>5. Tokens' = Append(Tokens, t)
    BY <1>2, <1>3, <1>4, EmittedGrows
  <1>6. finish' = Plain!Finished(Append(Tokens, t), req.limit)
    BY <1>2 DEF EndsAt, Plain!Finished, Last
  <1>7. finish = "none" /\ Base' = Base /\ req'.limit = req.limit
    BY <1>1, <1>2 DEF EndedRead, Base
  <1>8. QED
    BY <1>5, <1>6, <1>7 DEF Plain!Emit, Context

\* Every other step gives nothing.
LEMMA PlainWaits ==
  ASSUME UNCHANGED <<req, out, finish>>
  PROVE  UNCHANGED Plain!vars
  BY DEF Plain!vars, Base, Tokens

LEMMA PlainNext ==
  ASSUME Unprocessed, AnswersTokens, DecodeInv, Next
  PROVE  Plain!Emit \/ UNCHANGED Plain!vars
  <1>1. DecodeTypes /\ PairIsRead /\ TokensAllowed
    BY DEF DecodeInv
  <1>2. t1 \in Token /\ t2 \in Token /\ drafted \in BOOLEAN /\ Context \in Seq(Token) /\ Tokens \in Seq(Token)
    BY <1>1, ContextSeq, Emitted DEF DecodeTypes
  <1>3. CASE YieldFirst
    <2>1. pc = "first" /\ Yield(t1, FALSE, row1, "second")
      BY <1>3 DEF YieldFirst
    <2>2. t1 \in Process(Trunk(Context), Tokens) /\ row1 = Row(Context, Context)
      BY <1>1, <2>1 DEF TokensAllowed
    <2>3. QED
      BY <1>2, <2>1, <2>2, PlainEmits
  <1>4. CASE YieldSecond
    <2>1. pc = "second" /\ Yield(t2, drafted, rows[1], "advance")
      BY <1>4 DEF YieldSecond
    <2>2. /\ rows[1] \in TokenRow /\ rows[1].attn = Context /\ rows[1].rec = Context
          /\ t2 \in Trunk(Context)
      BY <1>1, <2>1 DEF PairIsRead, TokensAllowed
    <2>3. rows[1] = Row(Context, Context)
      BY <2>2 DEF Row, TokenRow
    <2>4. Process(Trunk(Context), Tokens) = Trunk(Context)
      <3>1. Trunk(Context) \in SUBSET Token
        BY <1>2 DEF AnswersTokens
      <3>2. QED
        BY <1>2, <3>1 DEF Unprocessed
    <2>5. QED
      BY <1>2, <2>1, <2>2, <2>3, <2>4, PlainEmits
  <1>5. CASE Refuse \/ Begin \/ PrefillChunk \/ First \/ Verify \/ Accept \/ Reject \/ Advance
               \/ Close \/ UNCHANGED vars
    BY <1>5, PlainWaits
       DEF Refuse, Begin, PrefillChunk, First, Verify, Accept, Reject, Advance, Close, vars
  <1>6. QED
    BY <1>3, <1>4, <1>5 DEF Next, Stay

\* In every part of a run the decode loop keeps its invariant; in the parts
\* that are not its own it stands still.
LEMMA DecodeAlways ==
  ASSUME AnswersTokens
  PROVE  RuntimeSpec => []DecodeInv
  <1>1. RuntimeInit => DecodeInv
    BY DecodeStarts DEF RuntimeInit
  <1>2. DecodeInv /\ [RuntimeNext]_<<part, vars, vs>> => DecodeInv'
    <2>1. RuntimeNext => Next \/ UNCHANGED vars
      BY DEF RuntimeNext
    <2>2. QED
      BY <2>1, DecodeNext, DecodeStays
  <1>3. QED
    BY <1>1, <1>2, PTL DEF RuntimeSpec

\* Whatever the head drafts, and for every trunk, prompt, chunk and limit, a
\* generation without logits processors is one that decoding token by token
\* could give, and it ends where that ends (mtp_stream_generate).
THEOREM RuntimeDecodesAsPlain ==
  ASSUME AnswersTokens, Unprocessed
  PROVE  RuntimeSpec => DecodesPlainly
  <1>1. RuntimeInit => Plain!Init
    BY PlainStarts DEF RuntimeInit
  <1>2. DecodeInv /\ [RuntimeNext]_<<part, vars, vs>> => [Plain!Emit]_Plain!vars
    <2>1. RuntimeNext => Next \/ UNCHANGED vars
      BY DEF RuntimeNext
    <2>2. UNCHANGED vars => UNCHANGED Plain!vars
      BY PlainWaits DEF vars
    <2>3. QED
      BY <2>1, <2>2, PlainNext
  <1>3. RuntimeSpec => []DecodeInv
    BY DecodeAlways
  <1>4. QED
    BY <1>1, <1>2, <1>3, PTL DEF RuntimeSpec, DecodesPlainly, Plain!Spec

-----------------------------------------------------------------------------
(* The ladder (KlLadder).                                                  *)

env == v1
bytes == v2
passes == v3
cache == v4
job == v5
arr == v6
side == v7
index == v8
cut == v9

Gone == Ladder!Gone
Torn == Ladder!Torn

Files == {"topk", "full", "tokens", "meta"}
TeacherFile == {"topk", "full"} \X Nat
Seen == {Looks[c] : c \in Contents}
Number == [bytes : Contents, teacher : TeacherFile, env : Envs, ids : Nat]
Scored == [number : Number, allowed : BOOLEAN, whole : BOOLEAN, dir : BOOLEAN,
           ident : [teacher : TeacherFile, ids : Nat]]
PassJob == [does : {"pass"}, left : Seq(Files)]
LadderJob == [does : {"ladder"}, at : {"cell", "array", "record", "own", "end"},
              allow : BOOLEAN, preflight : BOOLEAN, env : Envs, before : [Rungs -> Seen],
              away : SUBSET Rungs,
              table : [Rungs -> Scored \cup {Gone}], fresh : SUBSET Rungs,
              held : Scored \cup {<<>>}, rung : Rungs]

LadderTypes ==
  /\ env \in Envs /\ bytes \in [Rungs -> Contents]
  /\ passes \in Seq([env : Envs, ids : Nat])
  /\ cache \in [Files -> 0..Len(passes)]
  /\ job \in {Ladder!Idle} \cup PassJob \cup LadderJob
  /\ job.does = "pass" => job.left # <<>>
  /\ arr \in [Rungs -> Number \cup {Gone}]
  /\ side \in [Rungs -> Scored \cup {Gone, Torn}]

\* A record names what its number was computed against, and of a cache whose
\* files were of one pass it says rightly which build and positions those were.
Sound(s, ps) ==
  /\ s.ident.teacher = s.number.teacher /\ s.ident.ids = s.number.ids
  /\ s.number.teacher[2] \in 1..Len(ps)
  /\ s.whole =>
       LET pass == ps[s.number.teacher[2]]
       IN  /\ ~s.allowed => Ladder!SameBuild(pass.env, s.number.env)
           /\ pass.ids = s.number.ids

SidesSound == \A r \in Rungs : side[r] \in Scored => Sound(side[r], passes)

\* Scored while this ladder was at work: of bytes that look as they were
\* stamped first, unless the rung ever looked otherwise since, and against the
\* teacher that is still there.
Stamped(r, s) ==
  /\ r \notin job.away => Looks[s.number.bytes] = job.before[r]
  /\ s.number.teacher = Ladder!Teacher

LadderAtWork ==
  job.does = "ladder" =>
    /\ \A r \in Rungs \ job.away : Looks[bytes[r]] = job.before[r]
    /\ \A r \in job.fresh : job.table[r] \in Scored /\ Stamped(r, job.table[r])
    /\ job.at # "end" => job.table[job.rung] = Gone
    /\ job.at \in {"array", "record", "own"} =>
         job.held \in Scored /\ Sound(job.held, passes) /\ Stamped(job.rung, job.held)
    /\ job.at \in {"record", "own"} => arr[job.rung] = job.held.number

LadderInv ==
  LadderTypes /\ SidesSound /\ LadderAtWork /\ Ladder!RecordsVouch /\ Ladder!IndexNamesBytes

-----------------------------------------------------------------------------
(* What the steps of a ladder leave alone.                                 *)

LEMMA LadderShape ==
  ASSUME LadderTypes, job.does = "ladder"
  PROVE  job \in LadderJob
  BY DEF LadderTypes, PassJob, Ladder!Idle

LEMMA GoneIsNoRecord == Gone \notin Scored /\ Torn \notin Scored /\ <<>> \notin Scored
  BY DEF Ladder!Gone, Ladder!Torn, Gone, Torn, Scored

\* A record stays sound when another pass begins.
LEMMA SoundStays ==
  ASSUME NEW ps \in Seq([env : Envs, ids : Nat]), NEW p \in [env : Envs, ids : Nat],
         NEW s, Sound(s, ps)
  PROVE  Sound(s, Append(ps, p))
  <1> DEFINE more == Append(ps, p)
             i == s.number.teacher[2]
  <1>1. i \in 1..Len(ps)
    BY DEF Sound
  <1>2. i \in 1..Len(more) /\ more[i] = ps[i]
    BY <1>1
  <1> HIDE DEF more
  <1>3. Sound(s, more)
    BY <1>2 DEF Sound
  <1>4. QED
    BY <1>3 DEF more

LEMMA SidesStay ==
  ASSUME LadderTypes, SidesSound, UNCHANGED <<side, passes>>
  PROVE  SidesSound'
  BY DEF SidesSound

LEMMA VouchStays ==
  ASSUME Ladder!RecordsVouch, UNCHANGED <<arr, side, cut>>
  PROVE  Ladder!RecordsVouch'
  BY DEF Ladder!RecordsVouch, Ladder!Records, arr, side, cut

LEMMA IndexStays ==
  ASSUME Ladder!IndexNamesBytes, UNCHANGED index
  PROVE  Ladder!IndexNamesBytes'
  BY DEF Ladder!IndexNamesBytes, index

LEMMA TeacherStays ==
  ASSUME UNCHANGED cache
  PROVE  Ladder!Teacher' = Ladder!Teacher
  BY DEF Ladder!Teacher, cache

LEMMA LadderStarts ==
  ASSUME Ladder!Init
  PROVE  LadderInv
  <1>1. /\ env = FirstEnv /\ bytes = [r \in Rungs |-> FirstContent] /\ passes = <<>>
        /\ cache = [f \in {"topk", "full", "tokens", "meta"} |-> 0] /\ job = Ladder!Idle
        /\ arr = [r \in Rungs |-> Gone] /\ side = [r \in Rungs |-> Gone] /\ index = {}
    BY DEF Ladder!Init, env, bytes, passes, cache, job, arr, side, index, Gone
  <1>2. job.does = "none"
    BY <1>1 DEF Ladder!Idle
  <1>3. LadderTypes
    <2>1. passes \in Seq([env : Envs, ids : Nat]) /\ Len(passes) = 0
      BY <1>1
    <2>2. cache \in [Files -> 0..Len(passes)]
      BY <1>1, <2>1 DEF Files
    <2>3. bytes \in [Rungs -> Contents] /\ arr \in [Rungs -> Number \cup {Gone}]
      BY <1>1, LadderAssumption
    <2>4. side \in [Rungs -> Scored \cup {Gone, Torn}]
      BY <1>1
    <2>5. QED
      BY <1>1, <1>2, <2>1, <2>2, <2>3, <2>4, LadderAssumption DEF LadderTypes
  <1>4. SidesSound
    BY <1>1, GoneIsNoRecord DEF SidesSound
  <1>5. LadderAtWork
    BY <1>2 DEF LadderAtWork
  <1>6. Ladder!RecordsVouch /\ Ladder!IndexNamesBytes
    BY <1>1 DEF Ladder!RecordsVouch, Ladder!IndexNamesBytes, Ladder!Records, side, index, Gone
  <1>7. QED
    BY <1>3, <1>4, <1>5, <1>6 DEF LadderInv

-----------------------------------------------------------------------------
(* Passes, edits and upgrades.                                             *)

LEMMA BeginPassKeeps ==
  ASSUME LadderInv, NEW order \in Ladder!PassOrders, NEW ids \in 1..(Len(passes) + 1),
         Ladder!BeginPass(order, ids)
  PROVE  LadderInv'
  <1> DEFINE p == [env |-> env, ids |-> ids]
  <1>1. /\ passes' = Append(passes, p) /\ job' = [does |-> "pass", left |-> order]
        /\ UNCHANGED <<env, bytes, cache, arr, side, index, cut>>
    BY DEF Ladder!BeginPass, env, bytes, passes, cache, job, arr, side, index, cut
  <1>2. /\ LadderTypes /\ SidesSound /\ Ladder!RecordsVouch /\ Ladder!IndexNamesBytes
    BY DEF LadderInv
  <1>3. passes \in Seq([env : Envs, ids : Nat]) /\ p \in [env : Envs, ids : Nat]
    BY <1>2 DEF LadderTypes
  <1> HIDE DEF p
  <1>4. order \in Seq(Files) /\ order # <<>>
    <2>1. CASE order = <<"topk", "tokens", "meta">>
      BY <2>1 DEF Files
    <2>2. CASE order = <<"topk", "full", "tokens", "meta">>
      BY <2>2 DEF Files
    <2>3. CASE order = <<"tokens", "topk", "meta">>
      BY <2>3 DEF Files
    <2>4. QED
      BY <2>1, <2>2, <2>3 DEF Ladder!PassOrders
  <1>5. job'.does = "pass" /\ job' \in PassJob /\ job'.left # <<>>
    BY <1>1, <1>4 DEF PassJob
  <1>6. passes' \in Seq([env : Envs, ids : Nat]) /\ cache' \in [Files -> 0..Len(passes')]
    <2>1. passes' \in Seq([env : Envs, ids : Nat]) /\ Len(passes') = Len(passes) + 1
      BY <1>1, <1>3
    <2>2. cache \in [Files -> 0..Len(passes)] /\ Len(passes) \in Nat
      BY <1>2, <1>3 DEF LadderTypes
    <2>3. cache \in [Files -> 0..(Len(passes) + 1)]
      BY <2>2
    <2>4. QED
      BY <1>1, <2>1, <2>3
  <1>7. LadderTypes'
    BY <1>1, <1>2, <1>5, <1>6 DEF LadderTypes, Number, Scored, Gone, Torn, Ladder!Gone, Ladder!Torn, TeacherFile
  <1>8. SidesSound'
    <2>1. ASSUME NEW r \in Rungs, side[r] \in Scored
          PROVE  Sound(side[r], passes')
      <3>1. Sound(side[r], passes)
        BY <1>2, <2>1 DEF SidesSound
      <3>2. QED
        BY <1>1, <1>3, <3>1, SoundStays
    <2>2. QED
      BY <1>1, <2>1 DEF SidesSound
  <1>9. LadderAtWork'
    BY <1>5 DEF LadderAtWork
  <1>10. QED
    BY <1>1, <1>2, <1>7, <1>8, <1>9, VouchStays, IndexStays DEF LadderInv

LEMMA FilesLeft ==
  ASSUME NEW l \in Seq(Files), l # <<>>, Len(l) # 1
  PROVE  Tail(l) \in Seq(Files) /\ Tail(l) # <<>>
  <1>1. Len(l) \in Nat /\ Len(l) # 0
    OBVIOUS
  <1>2. Len(l) > 1
    BY <1>1
  <1>3. Tail(l) \in Seq(Files) /\ Len(Tail(l)) = Len(l) - 1
    BY <1>2
  <1>4. Len(Tail(l)) # 0
    BY <1>2, <1>3
  <1>5. QED
    BY <1>3, <1>4, EmptySeq

LEMMA SaveFileKeeps ==
  ASSUME LadderInv, Ladder!SaveFile
  PROVE  LadderInv'
  <1>1. /\ job.does = "pass" /\ cache' = [cache EXCEPT ![Head(job.left)] = Len(passes)]
        /\ job' = IF Len(job.left) = 1 THEN Ladder!Idle ELSE [job EXCEPT !.left = Tail(@)]
        /\ UNCHANGED <<env, bytes, passes, arr, side, index, cut>>
    BY DEF Ladder!SaveFile, env, bytes, passes, cache, job, arr, side, index, cut
  <1>2. /\ LadderTypes /\ SidesSound /\ Ladder!RecordsVouch /\ Ladder!IndexNamesBytes
    BY DEF LadderInv
  <1>3. job \in PassJob /\ job.left \in Seq(Files) /\ job.left # <<>>
    BY <1>1, <1>2 DEF LadderTypes, PassJob, LadderJob, Ladder!Idle
  <1>4. job' \in {Ladder!Idle} \cup PassJob /\ (job'.does = "pass" => job'.left # <<>>)
    <2>1. CASE Len(job.left) = 1
      BY <1>1, <2>1 DEF Ladder!Idle
    <2>2. CASE Len(job.left) # 1
      <3>1. Tail(job.left) \in Seq(Files) /\ Tail(job.left) # <<>>
        BY <1>3, <2>2, FilesLeft
      <3>2. job' = [job EXCEPT !.left = Tail(job.left)]
        BY <1>1, <2>2
      <3>3. QED
        BY <1>3, <3>1, <3>2 DEF PassJob
    <2>3. QED
      BY <2>1, <2>2
  <1>5. cache' \in [Files -> 0..Len(passes')]
    <2>1. Len(passes) \in 0..Len(passes)
      BY <1>2 DEF LadderTypes
    <2>2. QED
      BY <1>1, <1>2, <2>1 DEF LadderTypes
  <1>6. LadderTypes'
    BY <1>1, <1>2, <1>4, <1>5 DEF LadderTypes
  <1>7. LadderAtWork'
    <2>1. job'.does # "ladder"
      BY <1>4 DEF Ladder!Idle, PassJob
    <2>2. QED
      BY <2>1 DEF LadderAtWork
  <1>8. QED
    BY <1>1, <1>2, <1>6, <1>7, SidesStay, VouchStays, IndexStays DEF LadderInv

\* An edit that shows is kept in mind by the ladder at work.
LEMMA EditKeeps ==
  ASSUME LadderInv, NEW r \in Edited, NEW b \in Contents, Ladder!Edit(r, b)
  PROVE  LadderInv'
  <1>1. /\ bytes' = [bytes EXCEPT ![r] = b]
        /\ job' = IF job.does = "ladder" /\ Looks[b] # job.before[r]
                  THEN [job EXCEPT !.away = @ \cup {r}] ELSE job
        /\ UNCHANGED <<env, passes, cache, arr, side, index, cut>>
    BY DEF Ladder!Edit, env, bytes, passes, cache, job, arr, side, index, cut
  <1>2. LadderTypes /\ SidesSound /\ LadderAtWork /\ Ladder!RecordsVouch /\ Ladder!IndexNamesBytes
    BY DEF LadderInv
  <1>3. /\ bytes \in [Rungs -> Contents] /\ bytes' \in [Rungs -> Contents]
        /\ \A q \in Rungs : bytes'[q] = IF q = r THEN b ELSE bytes[q]
    BY <1>1, <1>2 DEF LadderTypes
  <1>4. CASE job.does # "ladder"
    <2>1. job' = job
      BY <1>1, <1>4
    <2>2. LadderTypes' /\ LadderAtWork'
      BY <1>1, <1>2, <1>3, <1>4, <2>1 DEF LadderTypes, LadderAtWork
    <2>3. QED
      BY <1>1, <1>2, <2>2, SidesStay, VouchStays, IndexStays DEF LadderInv
  <1>5. CASE job.does = "ladder"
    <2>1. job \in LadderJob /\ job.away \subseteq Rungs
      BY <1>2, <1>5, LadderShape DEF LadderJob
    <2>2. r \in Rungs /\ job'.does = "ladder"
      BY <1>1, <1>5, <2>1, LadderAssumption DEF LadderJob
    <2>3. /\ job' \in LadderJob /\ job'.before = job.before /\ job'.table = job.table
          /\ job'.fresh = job.fresh /\ job'.at = job.at /\ job'.held = job.held
          /\ job'.rung = job.rung /\ job.away \subseteq job'.away
          /\ Looks[b] # job.before[r] => r \in job'.away
      <3>1. CASE Looks[b] # job.before[r]
        <4>1. job' = [job EXCEPT !.away = @ \cup {r}]
          BY <1>1, <1>5, <3>1
        <4>2. QED
          BY <2>1, <2>2, <4>1 DEF LadderJob
      <3>2. CASE Looks[b] = job.before[r]
        BY <1>1, <2>1, <3>2
      <3>3. QED
        BY <3>1, <3>2
    <2>4. LadderTypes'
      BY <1>1, <1>2, <1>3, <2>2, <2>3 DEF LadderTypes
    <2>5. \A q \in Rungs \ job'.away : Looks[bytes'[q]] = job'.before[q]
      <3>1. \A q \in Rungs \ job.away : Looks[bytes[q]] = job.before[q]
        BY <1>2, <1>5 DEF LadderAtWork
      <3>2. QED
        BY <1>3, <2>3, <3>1
    <2>6. ASSUME NEW q, NEW t, Stamped(q, t)
          PROVE  Stamped(q, t)'
      <3>1. Ladder!Teacher' = Ladder!Teacher
        BY <1>1, TeacherStays
      <3>2. QED
        BY <2>3, <2>6, <3>1 DEF Stamped
    <2>7. LadderAtWork'
      BY <1>1, <1>2, <1>5, <2>3, <2>5, <2>6 DEF LadderAtWork
    <2>8. QED
      BY <1>1, <1>2, <2>4, <2>7, SidesStay, VouchStays, IndexStays DEF LadderInv
  <1>6. QED
    BY <1>4, <1>5

LEMMA UpgradeKeeps ==
  ASSUME LadderInv, NEW e \in Envs, Ladder!Upgrade(e)
  PROVE  LadderInv'
  <1>1. env' = e /\ UNCHANGED <<bytes, passes, cache, job, arr, side, index, cut>>
    BY DEF Ladder!Upgrade, env, bytes, passes, cache, job, arr, side, index, cut
  <1>2. LadderTypes /\ SidesSound /\ LadderAtWork /\ Ladder!RecordsVouch /\ Ladder!IndexNamesBytes
    BY DEF LadderInv
  <1>3. LadderTypes'
    BY <1>1, <1>2 DEF LadderTypes
  <1>4. LadderAtWork'
    BY <1>1, <1>2, TeacherStays DEF LadderAtWork, Stamped
  <1>5. QED
    BY <1>1, <1>2, <1>3, <1>4, SidesStay, VouchStays, IndexStays DEF LadderInv

LEMMA KillKeeps ==
  ASSUME LadderInv, NEW torn \in BOOLEAN, Ladder!Kill(torn)
  PROVE  LadderInv'
  <1>1. /\ job' = Ladder!Idle /\ (torn => job.does = "ladder" /\ job.at = "record")
        /\ side' = IF torn THEN [side EXCEPT ![job.rung] = Torn] ELSE side
        /\ UNCHANGED <<env, bytes, passes, cache, arr, index, cut>>
    BY DEF Ladder!Kill, Ladder!At, env, bytes, passes, cache, job, arr, side, index, cut, Torn
  <1>2. LadderTypes /\ SidesSound /\ Ladder!RecordsVouch /\ Ladder!IndexNamesBytes
    BY DEF LadderInv
  <1>3. job'.does = "none"
    BY <1>1 DEF Ladder!Idle
  <1>4. \A r \in Rungs : side'[r] = side[r] \/ side'[r] = Torn
    BY <1>1, <1>2 DEF LadderTypes
  <1>5. side' \in [Rungs -> Scored \cup {Gone, Torn}]
    <2>1. side \in [Rungs -> Scored \cup {Gone, Torn}]
      BY <1>2 DEF LadderTypes
    <2>2. QED
      BY <1>1, <2>1
  <1>6. LadderTypes'
    BY <1>1, <1>2, <1>3, <1>5 DEF LadderTypes
  <1>7. SidesSound'
    BY <1>1, <1>2, <1>4, GoneIsNoRecord DEF SidesSound
  <1>8. Ladder!RecordsVouch'
    BY <1>1, <1>2, <1>4 DEF Ladder!RecordsVouch, Ladder!Records, arr, side, cut, Torn
  <1>9. LadderAtWork'
    BY <1>3 DEF LadderAtWork
  <1>10. QED
    BY <1>1, <1>2, <1>6, <1>7, <1>8, <1>9, IndexStays DEF LadderInv

LEMMA UnreadableKeeps ==
  ASSUME LadderInv, Ladder!Unreadable
  PROVE  LadderInv'
  <1>1. job' = Ladder!Idle /\ UNCHANGED <<env, bytes, passes, cache, arr, side, index, cut>>
    BY DEF Ladder!Unreadable, env, bytes, passes, cache, job, arr, side, index, cut
  <1>2. LadderTypes /\ SidesSound /\ Ladder!RecordsVouch /\ Ladder!IndexNamesBytes
    BY DEF LadderInv
  <1>3. job'.does = "none"
    BY <1>1 DEF Ladder!Idle
  <1>4. LadderTypes' /\ LadderAtWork'
    BY <1>1, <1>2, <1>3 DEF LadderTypes, LadderAtWork
  <1>5. QED
    BY <1>1, <1>2, <1>4, SidesStay, VouchStays, IndexStays DEF LadderInv

LEMMA BeginLadderKeeps ==
  ASSUME LadderInv, NEW allow \in BOOLEAN, NEW preflight \in BOOLEAN,
         Ladder!BeginLadder(allow, preflight)
  PROVE  LadderInv'
  <1>1. /\ job' = [does |-> "ladder", at |-> "cell", allow |-> allow, preflight |-> preflight,
                   env |-> env, before |-> [r \in Rungs |-> Looks[bytes[r]]], away |-> {},
                   table |-> [r \in Rungs |-> Gone], fresh |-> {}, held |-> <<>>, rung |-> Reference]
        /\ UNCHANGED <<env, bytes, passes, cache, arr, side, index, cut>>
    BY DEF Ladder!BeginLadder, Ladder!Look, env, bytes, passes, cache, job, arr, side, index, cut, Gone
  <1>2. LadderTypes /\ SidesSound /\ Ladder!RecordsVouch /\ Ladder!IndexNamesBytes
    BY DEF LadderInv
  <1>3. env \in Envs /\ bytes \in [Rungs -> Contents] /\ Reference \in Rungs
    BY <1>2, LadderAssumption DEF LadderTypes
  <1>4. /\ job'.does = "ladder" /\ job'.at = "cell" /\ job'.fresh = {}
        /\ job'.before = [r \in Rungs |-> Looks[bytes[r]]]
        /\ job'.rung = Reference /\ job'.table = [r \in Rungs |-> Gone]
    BY <1>1
  <1>5. job' \in LadderJob
    <2>1. \A r \in Rungs : Looks[bytes[r]] \in Seen
      BY <1>3 DEF Seen
    <2>2. [r \in Rungs |-> Looks[bytes[r]]] \in [Rungs -> Seen]
      BY <2>1
    <2>3. QED
      BY <1>1, <1>3, <2>2 DEF LadderJob
  <1>6. LadderTypes'
    BY <1>1, <1>2, <1>4, <1>5 DEF LadderTypes
  <1>7. LadderAtWork'
    <2>1. \A r \in Rungs : Looks[bytes'[r]] = job'.before[r]
      BY <1>1, <1>3, <1>4
    <2>2. job'.table[job'.rung] = Gone
      BY <1>3, <1>4
    <2>3. QED
      BY <1>4, <2>1, <2>2 DEF LadderAtWork, Gone, Ladder!Gone
  <1>8. QED
    BY <1>1, <1>2, <1>6, <1>7, SidesStay, VouchStays, IndexStays DEF LadderInv

-----------------------------------------------------------------------------
(* The cells of a ladder.                                                  *)

\* A cell that is done is in the table, and the next one is a cell that is not.
LEMMA CellFilled ==
  ASSUME job \in LadderJob, NEW s \in Scored, NEW f \in BOOLEAN, Ladder!Filled(s, f)
  PROVE  /\ job' \in LadderJob /\ job'.before = job.before /\ job'.away = job.away
         /\ job'.table = [job.table EXCEPT ![job.rung] = s]
         /\ job'.fresh = IF f THEN job.fresh \cup {job.rung} ELSE job.fresh
         /\ job'.at \in {"cell", "end"}
         /\ job'.at # "end" => job'.table[job'.rung] = Gone
  <1> DEFINE tab == [job.table EXCEPT ![job.rung] = s]
             mine == IF f THEN job.fresh \cup {job.rung} ELSE job.fresh
             left == {r \in Rungs : tab[r] = Gone}
             done == [job EXCEPT !.table = tab, !.held = <<>>, !.fresh = mine]
  <1>1. job.table \in [Rungs -> Scored \cup {Gone}] /\ job.fresh \subseteq Rungs /\ job.rung \in Rungs
    BY DEF LadderJob
  <1>2. tab \in [Rungs -> Scored \cup {Gone}] /\ mine \subseteq Rungs
    BY <1>1
  <1>3. \/ job' = [done EXCEPT !.at = "end"]
        \/ \E r \in left : job' = [done EXCEPT !.at = "cell", !.rung = r]
    BY DEF Ladder!Filled, job, Gone
  <1> HIDE DEF tab, mine
  <1>4. /\ done \in LadderJob /\ done.before = job.before /\ done.away = job.away
        /\ done.table = tab /\ done.fresh = mine
    BY <1>2 DEF LadderJob
  <1> HIDE DEF done
  <1>5. CASE job' = [done EXCEPT !.at = "end"]
    <2>1. /\ job' \in LadderJob /\ job'.before = done.before /\ job'.away = done.away
          /\ job'.table = done.table
          /\ job'.fresh = done.fresh /\ job'.at = "end"
      BY <1>4, <1>5 DEF LadderJob
    <2>2. QED
      BY <1>4, <2>1 DEF tab, mine
  <1>6. ASSUME NEW r \in left, job' = [done EXCEPT !.at = "cell", !.rung = r]
        PROVE  /\ job' \in LadderJob /\ job'.before = job.before /\ job'.away = job.away /\ job'.table = tab
               /\ job'.fresh = mine /\ job'.at = "cell" /\ job'.table[job'.rung] = Gone
    <2>1. r \in Rungs /\ tab[r] = Gone
      OBVIOUS
    <2>2. /\ job' \in LadderJob /\ job'.before = done.before /\ job'.away = done.away
          /\ job'.table = done.table
          /\ job'.fresh = done.fresh /\ job'.at = "cell" /\ job'.rung = r
      BY <1>4, <1>6, <2>1 DEF LadderJob
    <2>3. QED
      BY <1>4, <2>1, <2>2
  <1>7. QED
    BY <1>3, <1>5, <1>6 DEF tab, mine

LEMMA ResumeKeeps ==
  ASSUME LadderInv, Ladder!Resume
  PROVE  LadderInv'
  <1>1. /\ job.does = "ladder" /\ job.at = "cell"
        /\ side[job.rung] \notin {Gone, Torn} /\ Ladder!Filled(side[job.rung], FALSE)
        /\ UNCHANGED <<env, bytes, passes, cache, arr, side, index, cut>>
    BY DEF Ladder!Resume, Ladder!At, Ladder!Resumable, env, bytes, passes, cache, job, arr, side,
           index, cut, Gone, Torn
  <1>2. LadderTypes /\ SidesSound /\ LadderAtWork /\ Ladder!RecordsVouch /\ Ladder!IndexNamesBytes
    BY DEF LadderInv
  <1>3. job \in LadderJob
    BY <1>1, <1>2, LadderShape
  <1>4. job.rung \in Rungs /\ job.fresh \subseteq Rungs /\ job.table \in [Rungs -> Scored \cup {Gone}]
    BY <1>3 DEF LadderJob
  <1> DEFINE s == side[job.rung]
  <1>5. s \in Scored
    BY <1>1, <1>2, <1>4 DEF LadderTypes
  <1>6. /\ job' \in LadderJob /\ job'.before = job.before /\ job'.away = job.away
        /\ job'.table = [job.table EXCEPT ![job.rung] = s]
        /\ job'.fresh = job.fresh /\ job'.at \in {"cell", "end"}
        /\ job'.at # "end" => job'.table[job'.rung] = Gone
    BY <1>1, <1>3, <1>5, CellFilled
  <1> HIDE DEF s
  <1>7. job'.does = "ladder"
    BY <1>6 DEF LadderJob
  <1>8. LadderTypes'
    BY <1>1, <1>2, <1>6, <1>7 DEF LadderTypes
  <1>9. LadderAtWork'
    <2>1. job.rung \notin job.fresh
      BY <1>1, <1>2, GoneIsNoRecord DEF LadderAtWork
    <2>2. \A r \in job.fresh : job'.table[r] = job.table[r]
      BY <1>4, <1>6, <2>1
    <2>3. Ladder!Teacher' = Ladder!Teacher
      BY <1>1, TeacherStays
    <2>4. QED
      BY <1>1, <1>2, <1>6, <2>2, <2>3 DEF LadderAtWork, Stamped
  <1>10. QED
    BY <1>1, <1>2, <1>8, <1>9, SidesStay, VouchStays, IndexStays DEF LadderInv

LEMMA ScoreKeeps ==
  ASSUME LadderInv, Ladder!Score
  PROVE  LadderInv'
  <1> DEFINE meta == passes[cache["meta"]]
             w == Ladder!Whole
             s == [number |-> [bytes |-> bytes[job.rung], teacher |-> Ladder!Teacher,
                               env |-> env, ids |-> meta.ids],
                   allowed |-> job.allow, whole |-> w, dir |-> FALSE,
                   ident |-> [teacher |-> Ladder!Teacher, ids |-> passes[cache["tokens"]].ids]]
  <1>1. /\ job.does = "ladder" /\ job.at = "cell"
        /\ \/ /\ Ladder!BuildAccepted(job.allow) /\ Ladder!IdsAgree /\ Ladder!Teacher[2] # 0
              /\ job' = [job EXCEPT !.at = "array", !.held = s]
           \/ job' = Ladder!Idle
        /\ UNCHANGED <<env, bytes, passes, cache, arr, side, index, cut>>
    BY DEF Ladder!Score, Ladder!At, env, bytes, passes, cache, job, arr, side, index, cut
  <1>2. LadderTypes /\ SidesSound /\ LadderAtWork /\ Ladder!RecordsVouch /\ Ladder!IndexNamesBytes
    BY DEF LadderInv
  <1>3. job \in LadderJob
    BY <1>1, <1>2, LadderShape
  <1>4. job.rung \in Rungs /\ job.allow \in BOOLEAN
    BY <1>3 DEF LadderJob
  <1>5. CASE job' = Ladder!Idle
    <2>1. job'.does = "none"
      BY <1>5 DEF Ladder!Idle
    <2>2. LadderTypes' /\ LadderAtWork'
      BY <1>1, <1>2, <1>5, <2>1 DEF LadderTypes, LadderAtWork
    <2>3. QED
      BY <1>1, <1>2, <2>2, SidesStay, VouchStays, IndexStays DEF LadderInv
  <1>6. ASSUME Ladder!BuildAccepted(job.allow), Ladder!IdsAgree, Ladder!Teacher[2] # 0,
               job' = [job EXCEPT !.at = "array", !.held = s]
        PROVE  LadderInv'
    <2>1. /\ passes \in Seq([env : Envs, ids : Nat]) /\ cache \in [Files -> 0..Len(passes)]
          /\ bytes \in [Rungs -> Contents] /\ env \in Envs
      BY <1>2 DEF LadderTypes
    <2>2. Ladder!Teacher \in TeacherFile /\ Ladder!Teacher[2] \in 1..Len(passes)
      <3>1. cache["full"] \in 0..Len(passes) /\ cache["topk"] \in 0..Len(passes)
        BY <2>1 DEF Files
      <3>2. CASE cache["full"] # 0
        <4>1. Ladder!Teacher = <<"full", cache["full"]>>
          BY <3>2 DEF Ladder!Teacher, cache
        <4>2. QED
          BY <2>1, <3>1, <3>2, <4>1 DEF TeacherFile
      <3>3. CASE cache["full"] = 0
        <4>1. Ladder!Teacher = <<"topk", cache["topk"]>>
          BY <3>3 DEF Ladder!Teacher, cache
        <4>2. cache["topk"] # 0
          BY <1>6, <4>1
        <4>3. QED
          BY <2>1, <3>1, <4>1, <4>2 DEF TeacherFile
      <3>4. QED
        BY <3>2, <3>3
    <2>3. /\ cache["meta"] \in 0..Len(passes) /\ cache["tokens"] \in 0..Len(passes)
          /\ cache["tokens"] # 0 /\ passes[cache["tokens"]].ids = meta.ids
      BY <1>6, <2>1 DEF Files, Ladder!IdsAgree, cache, passes
    <2>4. meta.ids \in Nat
      <3>1. passes[cache["tokens"]] \in [env : Envs, ids : Nat]
        <4> DEFINE i == cache["tokens"]
        <4>1. i \in 1..Len(passes)
          BY <2>1, <2>3
        <4> HIDE DEF i
        <4>2. passes \in Seq([env : Envs, ids : Nat])
          BY <2>1
        <4>3. passes[i] \in [env : Envs, ids : Nat]
          BY <4>1, <4>2, ElementOfSeq
        <4>4. QED
          BY <4>3 DEF i
      <3>2. QED
        BY <2>3, <3>1
    <2>5. w \in BOOLEAN
      BY DEF Ladder!Whole
    <2>6. w => Ladder!Teacher[2] = cache["meta"]
      BY DEF Ladder!Whole, cache
    <2>7. job.allow \/ Ladder!SameBuild(meta.env, env)
      BY <1>6 DEF Ladder!BuildAccepted, passes, cache, env
    <2> DEFINE teacher == Ladder!Teacher
               ids == meta.ids
    <2>8. /\ s.number = [bytes |-> bytes[job.rung], teacher |-> teacher, env |-> env, ids |-> ids]
          /\ s.ident = [teacher |-> teacher, ids |-> ids]
          /\ (s.allowed <=> job.allow) /\ (s.whole <=> w)
      BY <2>3
    <2>9. s \in Scored
      BY <1>4, <2>1, <2>2, <2>3, <2>4, <2>5 DEF Scored, Number
    <2>10. Sound(s, passes)
      <3> HIDE DEF s, w
      <3>1. s.ident.teacher = s.number.teacher /\ s.ident.ids = s.number.ids
        BY <2>8
      <3>2. s.number.teacher[2] \in 1..Len(passes)
        BY <2>2, <2>8
      <3>3. ASSUME s.whole
            PROVE  passes[s.number.teacher[2]] = meta
        BY <2>6, <2>8, <3>3
      <3>4. ~s.allowed => Ladder!SameBuild(meta.env, s.number.env)
        BY <2>7, <2>8
      <3>5. meta.ids = s.number.ids
        BY <2>8
      <3>6. QED
        BY <3>1, <3>2, <3>3, <3>4, <3>5 DEF Sound
    <2>11. s.number.bytes = bytes[job.rung] /\ s.number.teacher = Ladder!Teacher
      BY <2>8
    <2> HIDE DEF s
    <2>12. /\ job' \in LadderJob /\ job'.does = "ladder" /\ job'.at = "array" /\ job'.held = s
           /\ job'.before = job.before /\ job'.table = job.table /\ job'.fresh = job.fresh
           /\ job'.rung = job.rung /\ job'.away = job.away
      BY <1>3, <1>6, <2>9 DEF LadderJob
    <2>13. LadderTypes'
      BY <1>1, <1>2, <2>12 DEF LadderTypes
    <2>14. LadderAtWork'
      <3>1. Ladder!Teacher' = Ladder!Teacher
        BY <1>1, TeacherStays
      <3>2. job.rung \notin job.away => Looks[bytes[job.rung]] = job.before[job.rung]
        BY <1>1, <1>2, <1>4 DEF LadderAtWork
      <3>3. QED
        BY <1>1, <1>2, <2>9, <2>10, <2>11, <2>12, <3>1, <3>2 DEF LadderAtWork, Stamped
    <2>15. QED
      BY <1>1, <1>2, <2>13, <2>14, SidesStay, VouchStays, IndexStays DEF LadderInv
  <1>7. QED
    BY <1>1, <1>5, <1>6

LEMMA SaveArrayKeeps ==
  ASSUME LadderInv, Ladder!SaveArray
  PROVE  LadderInv'
  <1>1. /\ job.does = "ladder" /\ job.at = "array"
        /\ arr' = [arr EXCEPT ![job.rung] = job.held.number]
        /\ cut' = cut \cup {job.rung} /\ job' = [job EXCEPT !.at = "record"]
        /\ UNCHANGED <<env, bytes, passes, cache, side, index>>
    BY DEF Ladder!SaveArray, Ladder!At, env, bytes, passes, cache, job, arr, side, index, cut
  <1>2. LadderTypes /\ SidesSound /\ LadderAtWork /\ Ladder!RecordsVouch /\ Ladder!IndexNamesBytes
    BY DEF LadderInv
  <1>3. job \in LadderJob /\ job.rung \in Rungs
    BY <1>1, <1>2, LadderShape DEF LadderJob
  <1>4. job.held \in Scored /\ job.held.number \in Number
    BY <1>1, <1>2 DEF LadderAtWork, Scored
  <1>5. /\ job' \in LadderJob /\ job'.does = "ladder" /\ job'.at = "record" /\ job'.held = job.held
        /\ job'.before = job.before /\ job'.table = job.table /\ job'.fresh = job.fresh
        /\ job'.rung = job.rung /\ job'.away = job.away
    BY <1>1, <1>3 DEF LadderJob
  <1>6. /\ arr' \in [Rungs -> Number \cup {Gone}] /\ arr'[job.rung] = job.held.number
        /\ \A r \in Rungs \ {job.rung} : arr'[r] = arr[r]
    BY <1>1, <1>2, <1>3, <1>4 DEF LadderTypes
  <1>7. LadderTypes'
    BY <1>1, <1>2, <1>5, <1>6 DEF LadderTypes
  <1>8. Ladder!RecordsVouch'
    <2>1. ASSUME NEW r \in Rungs, side[r] \notin {Gone, Torn}, r \notin cut'
          PROVE  side[r].number = arr'[r]
      <3>1. r # job.rung /\ r \notin cut
        BY <1>1, <2>1
      <3>2. side[r].number = arr[r]
        BY <1>2, <2>1, <3>1 DEF Ladder!RecordsVouch, Ladder!Records, arr, side, cut, Gone, Torn
      <3>3. QED
        BY <1>6, <3>1, <3>2
    <2>2. QED
      BY <1>1, <2>1 DEF Ladder!RecordsVouch, Ladder!Records, arr, side, cut, Gone, Torn
  <1>9. LadderAtWork'
    BY <1>1, <1>2, <1>5, <1>6, TeacherStays DEF LadderAtWork, Stamped
  <1>10. QED
    BY <1>1, <1>2, <1>7, <1>8, <1>9, SidesStay, IndexStays DEF LadderInv

\* A record beside the array it is of, and sound, may be written.
LEMMA RecordWritten ==
  ASSUME LadderTypes, SidesSound, Ladder!RecordsVouch, NEW r \in Rungs, NEW s \in Scored,
         Sound(s, passes), arr[r] = s.number, side' = [side EXCEPT ![r] = s],
         UNCHANGED <<passes, arr>>, cut \ {r} \subseteq cut'
  PROVE  /\ side' \in [Rungs -> Scored \cup {Gone, Torn}]
         /\ SidesSound' /\ Ladder!RecordsVouch'
  <1>1. side \in [Rungs -> Scored \cup {Gone, Torn}]
    BY DEF LadderTypes
  <1>2. /\ side' \in [Rungs -> Scored \cup {Gone, Torn}] /\ side'[r] = s
        /\ \A q \in Rungs \ {r} : side'[q] = side[q]
    BY <1>1
  <1>3. SidesSound'
    BY <1>2 DEF SidesSound
  <1>4. ASSUME NEW q \in Rungs, side'[q] \notin {Gone, Torn}, q \notin cut'
        PROVE  side'[q].number = arr'[q]
    <2>1. CASE q = r
      BY <1>2, <2>1
    <2>2. CASE q # r
      <3>1. side[q].number = arr[q]
        BY <1>2, <1>4, <2>2 DEF Ladder!RecordsVouch, Ladder!Records, arr, side, cut, Gone, Torn
      <3>2. QED
        BY <1>2, <2>2, <3>1
    <2>3. QED
      BY <2>1, <2>2
  <1>5. Ladder!RecordsVouch'
    BY <1>4 DEF Ladder!RecordsVouch, Ladder!Records, arr, side, cut, Gone, Torn
  <1>6. QED
    BY <1>2, <1>3, <1>5

LEMMA SaveRecordKeeps ==
  ASSUME LadderInv, Ladder!SaveRecord
  PROVE  LadderInv'
  <1>1. /\ job.does = "ladder" /\ job.at = "record"
        /\ side' = [side EXCEPT ![job.rung] = job.held]
        /\ cut' = cut \ {job.rung} /\ job' = [job EXCEPT !.at = "own"]
        /\ UNCHANGED <<env, bytes, passes, cache, arr, index>>
    BY DEF Ladder!SaveRecord, Ladder!At, env, bytes, passes, cache, job, arr, side, index, cut
  <1>2. LadderTypes /\ SidesSound /\ LadderAtWork /\ Ladder!RecordsVouch /\ Ladder!IndexNamesBytes
    BY DEF LadderInv
  <1>3. job \in LadderJob /\ job.rung \in Rungs
    BY <1>1, <1>2, LadderShape DEF LadderJob
  <1>4. job.held \in Scored /\ Sound(job.held, passes) /\ arr[job.rung] = job.held.number
    BY <1>1, <1>2 DEF LadderAtWork
  <1>5. /\ job' \in LadderJob /\ job'.does = "ladder" /\ job'.at = "own" /\ job'.held = job.held
        /\ job'.before = job.before /\ job'.table = job.table /\ job'.fresh = job.fresh
        /\ job'.rung = job.rung /\ job'.away = job.away
    BY <1>1, <1>3 DEF LadderJob
  <1>6. /\ side' \in [Rungs -> Scored \cup {Gone, Torn}]
        /\ SidesSound' /\ Ladder!RecordsVouch'
    BY <1>1, <1>2, <1>3, <1>4, RecordWritten
  <1>7. LadderTypes'
    BY <1>1, <1>2, <1>5, <1>6 DEF LadderTypes
  <1>8. LadderAtWork'
    BY <1>1, <1>2, <1>5, TeacherStays DEF LadderAtWork, Stamped
  <1>9. QED
    BY <1>1, <1>2, <1>6, <1>7, <1>8, IndexStays DEF LadderInv

LEMMA OwnRecordKeeps ==
  ASSUME LadderInv, Ladder!OwnRecord
  PROVE  LadderInv'
  <1> DEFINE s == [job.held EXCEPT !.dir = TRUE]
  <1>1. /\ job.does = "ladder" /\ job.at = "own"
        /\ side' = [side EXCEPT ![job.rung] = s] /\ Ladder!Filled(s, TRUE)
        /\ UNCHANGED <<env, bytes, passes, cache, arr, index, cut>>
    BY DEF Ladder!OwnRecord, Ladder!At, env, bytes, passes, cache, job, arr, side, index, cut
  <1>2. LadderTypes /\ SidesSound /\ LadderAtWork /\ Ladder!RecordsVouch /\ Ladder!IndexNamesBytes
    BY DEF LadderInv
  <1>3. job \in LadderJob
    BY <1>1, <1>2, LadderShape
  <1>4. /\ job.rung \in Rungs /\ job.fresh \subseteq Rungs
        /\ job.table \in [Rungs -> Scored \cup {Gone}]
    BY <1>3 DEF LadderJob
  <1>5. /\ job.held \in Scored /\ Sound(job.held, passes) /\ Stamped(job.rung, job.held)
        /\ arr[job.rung] = job.held.number
    BY <1>1, <1>2 DEF LadderAtWork
  <1>6. /\ s \in Scored /\ s.number = job.held.number /\ s.ident = job.held.ident
        /\ s.whole = job.held.whole /\ s.allowed = job.held.allowed
    BY <1>5 DEF Scored
  <1> HIDE DEF s
  <1>7. Sound(s, passes) /\ arr[job.rung] = s.number /\ Stamped(job.rung, s)
    BY <1>5, <1>6 DEF Sound, Stamped
  <1>8. /\ side' \in [Rungs -> Scored \cup {Gone, Torn}]
        /\ SidesSound' /\ Ladder!RecordsVouch'
    BY <1>1, <1>2, <1>4, <1>6, <1>7, RecordWritten
  <1>9. /\ job' \in LadderJob /\ job'.before = job.before /\ job'.away = job.away
        /\ job'.table = [job.table EXCEPT ![job.rung] = s]
        /\ job'.fresh = job.fresh \cup {job.rung} /\ job'.at \in {"cell", "end"}
        /\ job'.at # "end" => job'.table[job'.rung] = Gone
    BY <1>1, <1>3, <1>6, CellFilled
  <1>10. job'.does = "ladder"
    BY <1>9 DEF LadderJob
  <1>11. LadderTypes'
    BY <1>1, <1>2, <1>8, <1>9, <1>10 DEF LadderTypes
  <1>12. LadderAtWork'
    <2>1. /\ \A r \in job.fresh : job.table[r] \in Scored /\ Stamped(r, job.table[r])
          /\ \A r \in Rungs \ job.away : Looks[bytes[r]] = job.before[r]
      BY <1>1, <1>2 DEF LadderAtWork
    <2>2. ASSUME NEW r \in job'.fresh
          PROVE  job'.table[r] \in Scored /\ Stamped(r, job'.table[r])
      <3>1. CASE r = job.rung
        BY <1>4, <1>6, <1>7, <1>9, <3>1
      <3>2. CASE r # job.rung
        <4>1. r \in job.fresh /\ job'.table[r] = job.table[r]
          BY <1>4, <1>9, <3>2
        <4>2. QED
          BY <2>1, <4>1
      <3>3. QED
        BY <3>1, <3>2
    <2>3. Ladder!Teacher' = Ladder!Teacher
      BY <1>1, TeacherStays
    <2>4. QED
      BY <1>1, <1>9, <2>1, <2>2, <2>3 DEF LadderAtWork, Stamped
  <1>13. QED
    BY <1>1, <1>2, <1>8, <1>11, <1>12, IndexStays DEF LadderInv

LEMMA FinishKeeps ==
  ASSUME LadderInv, Ladder!Finish
  PROVE  LadderInv'
  <1>1. /\ job.does = "ladder" /\ job.at = "end" /\ job' = Ladder!Idle
        /\ UNCHANGED <<env, bytes, passes, cache, arr, side, cut>>
    BY DEF Ladder!Finish, Ladder!At, env, bytes, passes, cache, job, arr, side, cut
  <1>2. LadderTypes /\ SidesSound /\ LadderAtWork /\ Ladder!RecordsVouch /\ Ladder!IndexNamesBytes
    BY DEF LadderInv
  <1>3. job'.does = "none"
    BY <1>1 DEF Ladder!Idle
  <1>4. LadderTypes' /\ LadderAtWork'
    BY <1>1, <1>2, <1>3 DEF LadderTypes, LadderAtWork
  <1>5. ASSUME NEW r \in job.fresh, r \notin job.away
        PROVE  Looks[job.table[r].number.bytes] = job.before[r]
    BY <1>1, <1>2, <1>5 DEF LadderAtWork, Stamped
  <1>6. ASSUME NEW l \in index', l \notin index, l.fresh, ~l.back
        PROVE  Looks[l.number.bytes] = l.of
    <2>1. PICK r \in Rungs \ Ladder!Changed :
            l = [of |-> job.before[r], rung |-> r, number |-> job.table[r].number,
                 fresh |-> r \in job.fresh, back |-> r \in job.away]
      BY <1>6 DEF Ladder!Finish, index, job
    <2>2. l.of = job.before[r] /\ l.number = job.table[r].number
      BY <2>1
    <2>3. r \in job.fresh /\ r \notin job.away
      BY <1>6, <2>1
    <2>4. QED
      BY <1>5, <2>2, <2>3
  <1>7. Ladder!IndexNamesBytes'
    BY <1>2, <1>6 DEF Ladder!IndexNamesBytes, index
  <1>8. QED
    BY <1>1, <1>2, <1>4, <1>7, SidesStay, VouchStays DEF LadderInv

LEMMA LadderStays ==
  ASSUME LadderInv, UNCHANGED vs
  PROVE  LadderInv'
  <1>1. UNCHANGED <<env, bytes, passes, cache, job, arr, side, index, cut>>
    BY DEF vs, env, bytes, passes, cache, job, arr, side, index, cut
  <1>2. LadderTypes /\ SidesSound /\ LadderAtWork /\ Ladder!RecordsVouch /\ Ladder!IndexNamesBytes
    BY DEF LadderInv
  <1>3. LadderTypes'
    BY <1>1, <1>2 DEF LadderTypes
  <1>4. LadderAtWork'
    BY <1>1, <1>2, TeacherStays DEF LadderAtWork, Stamped
  <1>5. QED
    BY <1>1, <1>2, <1>3, <1>4, SidesStay, VouchStays, IndexStays DEF LadderInv

LEMMA LadderNext ==
  ASSUME LadderInv, Ladder!Next
  PROVE  LadderInv'
  <1>1. \/ \E order \in Ladder!PassOrders : \E ids \in 1..(Len(passes) + 1) :
             Ladder!BeginPass(order, ids)
        \/ Ladder!SaveFile
        \/ \E allow, preflight \in BOOLEAN : Ladder!BeginLadder(allow, preflight)
        \/ Ladder!Resume \/ Ladder!Unreadable \/ Ladder!Score
        \/ Ladder!SaveArray \/ Ladder!SaveRecord \/ Ladder!OwnRecord \/ Ladder!Finish
        \/ \E r \in Edited, b \in Contents : Ladder!Edit(r, b)
        \/ \E e \in Envs : Ladder!Upgrade(e)
        \/ \E torn \in BOOLEAN : Ladder!Kill(torn)
    BY DEF Ladder!Next, passes
  <1>2. QED
    BY <1>1, BeginPassKeeps, SaveFileKeeps, BeginLadderKeeps, ResumeKeeps, UnreadableKeeps,
       ScoreKeeps, SaveArrayKeeps, SaveRecordKeeps, OwnRecordKeeps, FinishKeeps, EditKeeps,
       UpgradeKeeps, KillKeeps

\* What the invariant says of arrays, records and the index.
LEMMA LadderHolds ==
  ASSUME LadderInv
  PROVE  Ladder!ScoresAreHonest
  <1>1. LadderTypes /\ SidesSound /\ LadderAtWork /\ Ladder!RecordsVouch /\ Ladder!IndexNamesBytes
    BY DEF LadderInv
  <1>2. ASSUME NEW r \in Ladder!Records
        PROVE  r \in Rungs /\ side[r] \in Scored /\ Sound(side[r], passes)
    BY <1>1, <1>2 DEF Ladder!Records, LadderTypes, SidesSound, side, Gone, Torn
  <1>3. Ladder!TeacherMatches
    BY <1>2 DEF Ladder!TeacherMatches, Sound, side, passes
  <1>4. Ladder!PairsAgree
    <2>1. ASSUME NEW r \in Ladder!Records \ cut, NEW q \in Ladder!Records \ cut,
                 Ladder!Pairable(side[r], side[q])
          PROVE  /\ <<arr[r].teacher, arr[r].ids>> = <<arr[q].teacher, arr[q].ids>>
                 /\ Ladder!SameBuild(arr[r].env, arr[q].env)
      <3>1. arr[r] = side[r].number /\ arr[q] = side[q].number
        BY <1>1 DEF Ladder!RecordsVouch, arr, side, cut
      <3>2. side[r].ident = side[q].ident /\ Ladder!SameBuild(side[r].number.env, side[q].number.env)
        BY <2>1 DEF Ladder!Pairable
      <3>3. \A x \in {r, q} : /\ side[x].ident.teacher = side[x].number.teacher
                              /\ side[x].ident.ids = side[x].number.ids
        BY <1>2 DEF Sound
      <3>4. QED
        BY <3>1, <3>2, <3>3
    <2>2. QED
      BY <2>1 DEF Ladder!PairsAgree, arr, side, cut
  <1>5. Ladder!FreshCellsPair
    BY <1>1 DEF Ladder!FreshCellsPair, Ladder!At, LadderAtWork, Stamped, job
  <1>6. QED
    BY <1>1, <1>3, <1>4, <1>5 DEF Ladder!ScoresAreHonest

-----------------------------------------------------------------------------
(* The parts together.                                                     *)

ResultsInv == DecodeInv /\ (part = "ladder" => LadderInv)

\* What a result says is true of it, in every run of either part: an indexed
\* number's weights look like those it is filed under, for any Looks
\* (mtp_stream_generate; stream_score, kl_ladder and kl_pair).
THEOREM RuntimeResults ==
  ASSUME AnswersTokens
  PROVE  RuntimeSpec => []ResultsAreHonest
  <1>1. RuntimeInit => ResultsInv
    <2>1. RuntimeInit => Init /\ (part = "ladder" => Ladder!Init)
      BY DEF RuntimeInit
    <2>2. QED
      BY <2>1, DecodeStarts, LadderStarts DEF ResultsInv
  <1>2. ResultsInv /\ [RuntimeNext]_<<part, vars, vs>> => ResultsInv'
    <2>1. RuntimeNext => /\ part' = part /\ (Next \/ UNCHANGED vars)
                         /\ part = "ladder" => Ladder!Next
      BY DEF RuntimeNext
    <2>2. ASSUME ResultsInv, RuntimeNext
          PROVE  ResultsInv'
      <3>1. DecodeInv'
        BY <2>1, <2>2, DecodeNext, DecodeStays DEF ResultsInv
      <3>2. part' = "ladder" => LadderInv'
        BY <2>1, <2>2, LadderNext DEF ResultsInv
      <3>3. QED
        BY <3>1, <3>2 DEF ResultsInv
    <2>3. ASSUME ResultsInv, UNCHANGED <<part, vars, vs>>
          PROVE  ResultsInv'
      BY <2>3, DecodeStays, LadderStays DEF ResultsInv
    <2>4. QED
      BY <2>2, <2>3
  <1>3. ResultsInv => ResultsAreHonest
    BY DecodeHolds, LadderHolds DEF ResultsInv, ResultsAreHonest
  <1>4. QED
    BY <1>1, <1>2, <1>3, PTL DEF RuntimeSpec

=============================================================================
