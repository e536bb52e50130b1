------------------------------ MODULE MCRuntime ------------------------------
(***************************************************************************)
(* The runtime's parts and the scorers that run it, side by side: each      *)
(* behaviour is one part's, chosen in the initial state.  The decode loop    *)
(* has its own variables, which stay as they are in the other parts; those  *)
(* take turns at v1 to v10.                                                *)
(***************************************************************************)
EXTENDS MtpDecode, Integers, FiniteSets, TLC

CONSTANTS Widths, Lengths,                               \* see PackedRow
          Rungs, Reference, Edited, Contents, FirstContent, Looks, Envs, FirstEnv, Listed,
          MaxPasses, MaxLadders, MaxChanges,  \* see KlLadder
          None

ASSUME RowAssumption == Widths \subseteq 1..31 /\ Lengths \subseteq Nat
ASSUME LadderAssumption ==
  Reference \in Rungs /\ Edited \subseteq Rungs /\ FirstEnv \in Envs /\ FirstContent \in Contents

VARIABLES part,                                    \* the part that moves
          v1, v2, v3, v4, v5, v6, v7, v8, v9, v10  \* its state

vs == <<v1, v2, v3, v4, v5, v6, v7, v8, v9, v10>>

-----------------------------------------------------------------------------
(* Instances.                                                              *)

Codes == INSTANCE PackedRow WITH
  bits <- v1, nsub <- v2, j <- v3, w <- v4, nb <- v5, buf <- v6, code <- v7

\* Two lanes, up to three rows or simdgroups, blocks of one group and a rest;
\* three pairs, so that a wide threadgroup has a rest too.
Launch(k, height, groups, xkrep, procs, tb, dead) ==
  [kernel |-> k, out |-> height, groups |-> groups, spg |-> 2, k |-> 3, n |-> 3,
   xkrep |-> xkrep, procs |-> procs, tb |-> tb, dead |-> dead]
Kernels == INSTANCE FusedKernel WITH
  Lanes <- 2, Launches <- {},
  prog <- v1, pc <- v2, launch <- v3, cb <- v4, xs <- v5, acc <- v6, y <- v7
MCLaunches ==
  {l \in {Launch(k, height, groups, xkrep, procs, tb, dead) :
            k \in Kernels!Kernels, height \in {1, 3}, groups \in {1, 3}, xkrep \in {1, 2, 4},
            procs \in {2, 3}, tb \in {0, 1}, dead \in {{}, {<<0, 1>>}}} :
     /\ l.out <= l.procs
     /\ l.dead # {} => l.kernel.sz
     /\ l.tb * l.kernel.wide < l.n
     /\ l.kernel.wide = 1 => l.xkrep < 4 /\ l.tb = 0
     /\ l.kernel \in Kernels!AnyDense => l.xkrep = 1}
Decode == INSTANCE FusedKernel WITH
  Lanes <- 2, Launches <- MCLaunches,
  prog <- v1, pc <- v2, launch <- v3, cb <- v4, xs <- v5, acc <- v6, y <- v7

\* Two simdgroups of one row each, so a tile is two rows by two; every mix of
\* switches the source compiles with.
MCTable == (<<1, 0>> :> 2) @@ (<<1, 1>> :> -1) @@ (<<1, 2>> :> 3) @@ (<<1, 3>> :> -1) @@ (<<1, 4>> :> 4)
MCSegments ==
  {s \in [v2 : BOOLEAN, cbdev : BOOLEAN, wide : BOOLEAN, ot2 : BOOLEAN, pipe : BOOLEAN,
          accs : BOOLEAN, dstore : BOOLEAN, sz : BOOLEAN, out : {1, 3, 5}, groups : {1, 2},
          rows : {4}, e : {1}, r0 : {1}, nrow : {1, 2, 3}, otile : {0, 1}, table : {MCTable}] :
     /\ ~(s.ot2 /\ s.wide) /\ ~(s.accs /\ (s.pipe \/ s.wide))
     /\ ~s.v2 => ~(s.cbdev \/ s.wide \/ s.ot2 \/ s.pipe \/ s.accs \/ s.dstore \/ s.sz)
     /\ s.nrow <= (IF s.wide THEN 4 ELSE 2)
     /\ s.otile * 2 * (IF s.ot2 THEN 2 ELSE 1) < s.out}
Gemm == INSTANCE GemmSeg WITH
  Simdgroups <- 2, Octet <- 1, Segments <- MCSegments,
  prog <- v1, pc <- v2, seg <- v3, filled <- v4, wt <- v5, xt <- v6, pf <- v7,
  acc <- v8, ybuf <- v9, y <- v10

\* The defaults, and each setting that changes the path of a call.
Shipped ==
  [walk |-> TRUE, simd |-> TRUE, regbuf |-> FALSE, ss |-> "devx", spec |-> TRUE, wide |-> 1,
   xkrep |-> TRUE, gemm |-> 2, bigk |-> TRUE, dstore |-> FALSE, cbdev |-> "auto", rtile |-> 32,
   accs |-> TRUE, gather |-> TRUE, idxmemo |-> FALSE, expand |-> FALSE]
MCFlags ==
  {Shipped, [Shipped EXCEPT !.walk = FALSE, !.ss = "old"], [Shipped EXCEPT !.wide = 4],
   [Shipped EXCEPT !.xkrep = FALSE], [Shipped EXCEPT !.gemm = 1],
   [Shipped EXCEPT !.gemm = 0, !.idxmemo = TRUE], [Shipped EXCEPT !.rtile = 64],
   [Shipped EXCEPT !.rtile = 64, !.cbdev = "1"], [Shipped EXCEPT !.gather = FALSE],
   [Shipped EXCEPT !.expand = TRUE], [Shipped EXCEPT !.spec = FALSE, !.simd = FALSE],
   [Shipped EXCEPT !.idxmemo = TRUE, !.cbdev = "0", !.dstore = TRUE]}

\* One module for each way to be served: codebooks that fit beside x and that
\* do not, packed or not, and two skipzero modules, one of them a rank's half.
Module(d, k, width, pack, u8, live, ranks, rank) ==
  [d |-> d, k |-> k, g |-> 64, in |-> width, pack |-> pack, u8 |-> u8, experts |-> 2, out |-> 2,
   live |-> live, ranks |-> ranks, rank |-> rank]
Live == {<<0, 1>>, <<1, 0>>, <<1, 1>>}
MCModules ==
  {Module(2, 512, 128, TRUE, FALSE, {}, 1, 0), Module(2, 8192, 128, FALSE, FALSE, {}, 1, 0),
   Module(4, 2048, 256, TRUE, FALSE, Live, 1, 0), Module(4, 8192, 256, TRUE, FALSE, {}, 1, 0),
   Module(8, 16384, 2048, TRUE, FALSE, Live, 2, 1), Module(4, 256, 256, FALSE, TRUE, {}, 1, 0)}
Host == INSTANCE VqSwitch WITH
  Flags <- MCFlags, Modules <- MCModules,
  Routings <- {<<1>>, <<1, 0>>, <<1, 0, 1, 1>>, <<0, 0, 0, 1>>},
  FusedMaxN <- 2, LegacyMaxN <- 2, SimdMaxN <- 1, TileRows <- 1, MemoMax <- 2, IdxMax <- 1,
  Addresses <- {1}, MaxSteps <- 3,
  flags <- v1, mods <- v2, indices <- v3, plans <- v4, memo <- v5, idxs <- v6, store <- v7,
  got <- v8, steps <- v9

\* A pack, a pack on top of it or a refit, and one more of each; scales about
\* the two thresholds, a module that loses a row at either and one that does not.
MCScales == [m \in {"a", "b"} |-> << IF m = "a" THEN <<3, 1, 5>> ELSE <<0, 2, 0>>, <<2, 0, 4>> >>]
Sz == INSTANCE SkipZero WITH
  Modules <- {"a", "b"}, Places <- {1, 2, 3}, Scales <- MCScales,
  Geometries <- {[d |-> 4, packed |-> TRUE], [d |-> 4, packed |-> FALSE], [d |-> 2, packed |-> TRUE]},
  Folders <- {1, 2, 3}, Tinies <- {1, 2}, Runtimes <- {"walk", "u8", "native"}, lib <- v1

\* Two linears after an embedding: packed d2 and d4, wide enough that only the
\* tiled kernel fits, too many codewords for any, a ragged row, other groups.
Linear(d, k, width, g, bits) == [d |-> d, k |-> k, in |-> width, g |-> g, bits |-> bits, out |-> 5]
MCLinears == {Linear(2, 512, 128, 64, 9), Linear(2, 512, 17408, 64, 9), Linear(2, 8192, 128, 64, 13),
              Linear(4, 4096, 192, 64, 12), Linear(2, 256, 128, 64, 0), Linear(2, 512, 128, 32, 9)}
MCDense == {[eval |-> e, tile |-> t, tiled |-> o, fuse |-> f, maxn |-> 0] :
              e \in BOOLEAN, t \in {0, 768}, o \in {"auto", "0"}, f \in BOOLEAN}
Dense == INSTANCE DenseHost WITH
  Flags <- MCDense, Nets <- {<<a, b>> : a \in MCLinears, b \in MCLinears},
  Tables <- {[d |-> 2, in |-> 128, bits |-> 9, rows |-> 2, ple |-> FALSE],
             [d |-> 2, in |-> 80, bits |-> 9, rows |-> 2, ple |-> TRUE]},
  Batches <- {1, 100}, RowsTg <- 4,
  flags <- v1, net <- v2, table <- v3, n <- v4, at <- v5, made <- v6, live <- v7, got <- v8

\* Every scorer, sequences of up to four positions and chunks that end before,
\* at and behind them; trials where the referee has them.
MCPasses ==
  {p \in [scorer : {"qwen4_exp", "glm5_next", "qwen3_5_moe", "layer_type", "classic"},
          S : 1..4, C : 1..3, ple : {{}, {1}, {1, 2}}, caches : BOOLEAN, trials : {1, 2},
          kinds : {<<"linear">>, <<"full", "linear">>, <<"linear", "full">>, <<"full", "full">>},
          sizes : {<<3, 1, 2>>}, budget : {2, 4}] :
     /\ p.ple \subseteq DOMAIN p.kinds
     /\ p.ple # {} => p.scorer \in {"qwen4_exp", "layer_type"}
     /\ ~p.caches => p.scorer \in {"glm5_next", "layer_type"}
     /\ p.trials = 2 => p.scorer \in {"layer_type", "classic"}
     /\ p.budget = 4 => p.scorer \in {"qwen4_exp", "qwen3_5_moe"}}
Stream == INSTANCE StreamedPass WITH
  Passes <- MCPasses, Grams <- 2,
  pass <- v1, blocks <- v2, loaded <- v3, cache <- v4, h <- v5, parts <- v6, at <- v7,
  logits <- v8, phase <- v9

\* Requests with a seam that is swallowed, no context, no continuation.
Item(ctx, join, cont) == [ctx |-> ctx, join |-> join, cont |-> cont]
MCItems == {Item(1, 2, 1), Item(2, 4, 1), Item(1, 1, 1), Item(0, 2, 1), Item(1, 1, 0)}
Tasks == INSTANCE TaskScores WITH
  Requests <- {<<a, b>> : a, b \in {Item(c, j, n) : c \in 0..1, j \in 0..3, n \in 0..1}}
              \cup {<<a, b, c>> : a, b, c \in MCItems},
  Later <- {<<Item(1, 2, 1), Item(2, 4, 1)>>}, Buckets <- 2, Blocks <- 2,
  mode <- v1, bos <- v2, items <- v3, left <- v4, rows <- v5, depth <- v6, scores <- v7,
  phase <- v8

\* Weights of which two look the same; packages that differ in an arch file
\* or in mlx.
MCLooks == <<1, 1, 2>>
MCFirstEnv == [mlx |-> 1, arch |-> 1]
MCEnvs == {MCFirstEnv, [mlx |-> 1, arch |-> 3], [mlx |-> 2, arch |-> 2]}
Ladder == INSTANCE KlLadder WITH
  env <- v1, bytes <- v2, passes <- v3, cache <- v4, job <- v5, arr <- v6, side <- v7,
  index <- v8, cut <- v9, spent <- v10

-----------------------------------------------------------------------------
Unused2 == v2 = None /\ v3 = None /\ v4 = None /\ v5 = None /\ v6 = None /\ v7 = None
Unused8 == v8 = None /\ v9 = None /\ v10 = None
Unused1 == v1 = None /\ Unused2

RuntimeInit ==
  /\ Init
  /\ \/ part = "mtp" /\ Unused1 /\ Unused8
     \/ /\ req = CHOOSE r \in Requests : TRUE
        /\ \/ part = "codes" /\ Codes!Init /\ Unused8
           \/ part = "decode" /\ Decode!Init /\ Unused8
           \/ part = "gemm" /\ Gemm!Init
           \/ part = "host" /\ Host!Init /\ v10 = None
           \/ part = "skipzero" /\ Sz!Init /\ Unused2 /\ Unused8
           \/ part = "dense" /\ Dense!Init /\ v9 = None /\ v10 = None
           \/ part = "stream" /\ Stream!Init /\ v10 = None
           \/ part = "tasks" /\ Tasks!Init /\ v9 = None /\ v10 = None
           \/ part = "ladder" /\ Ladder!Init

RuntimeNext ==
  /\ UNCHANGED part
  /\ \/ part = "mtp" /\ Next /\ UNCHANGED vs
     \/ /\ UNCHANGED vars
        /\ \/ part = "codes" /\ Codes!Next /\ UNCHANGED <<v8, v9, v10>>
           \/ part = "decode" /\ Decode!Next /\ UNCHANGED <<v8, v9, v10>>
           \/ part = "gemm" /\ Gemm!Next
           \/ part = "host" /\ Host!Next /\ UNCHANGED v10
           \/ part = "dense" /\ Dense!Next /\ UNCHANGED <<v9, v10>>
           \/ part = "stream" /\ Stream!Next /\ UNCHANGED v10
           \/ part = "tasks" /\ Tasks!Next /\ UNCHANGED <<v9, v10>>
           \/ part = "ladder" /\ Ladder!Next
           \/ part = "skipzero" /\ Sz!Next /\ UNCHANGED <<v2, v3, v4, v5, v6, v7, v8, v9, v10>>

RuntimeSpec == RuntimeInit /\ [][RuntimeNext]_<<part, vars, vs>>

\* What a code is read as does not depend on the reader (PackedRow).
CodesAreRead == part = "codes" => Codes!WalkReadsCodes /\ Codes!ReadersAgree

\* What the kernels write does not depend on the order of their threads: it
\* is the product they were launched for (FusedKernel, GemmSeg).
KernelsAreRight == /\ part = "decode" => Decode!RowsAreProducts
                   /\ part = "gemm" => Gemm!TilesAreProducts

\* What is computed does not depend on the path it takes: a call's rows not on
\* the kernel nor on the calls before it (VqSwitch), an artifact's rows not on
\* which of the skip-zero tools it went through (SkipZero), a dense layer's not
\* on how its weight is decoded (DenseHost), a score not on whether the model
\* was resident (StreamedPass) or which requests shared its bucket (TaskScores).
PathsAgree == /\ part = "host" => Host!RowsAreServed
              /\ part = "skipzero" => Sz!SkipZeroHolds
              /\ part = "dense" => Dense!DenseHolds
              /\ part = "stream" => Stream!PassIsFaithful
              /\ part = "tasks" => Tasks!TasksAreScored

\* What is said with a result is true of it.  The state of the trunk's caches
\* and of the head's, and the logprobs given with a token, are right whatever
\* drafts were dropped (MtpDecode); the records beside two arrays vouch for
\* their pairing, and an indexed number is of weights that look like those it is
\* filed under, whatever was written meanwhile (KlLadder).
ResultsAreHonest ==
  /\ part = "mtp" => StateInStep /\ LogprobsHonest
  /\ part = "ladder" => Ladder!ScoresAreHonest

=============================================================================
