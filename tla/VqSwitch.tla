------------------------------ MODULE VqSwitch ------------------------------
(***************************************************************************)
(* VQSwitchLinear on the host (vqlab/runtime/vq_switch.py): which kernel    *)
(* serves a call, in what order rows go to it and come back, and what is    *)
(* remembered between calls: launch plans, sorted routings and their tiles, *)
(* host copies of routings by object identity, and expanded weights by      *)
(* module identity.  What a kernel computes is in FusedKernel and GemmSeg.  *)
(*                                                                         *)
(* A call has T tokens and pairs of a token and an expert; its result is,   *)
(* for each pair, the token, the expert and the code rows it was made of.   *)
(***************************************************************************)
EXTENDS Integers, FiniteSets, SequencesExt

CONSTANTS
  Flags,       \* VQ_* settings of the process, fixed when it starts
  Modules,     \* what can be loaded: k, d, g, in, pack, u8, experts, out, and
               \* live rows, ranks and rank of a skipzero module (live = {}: none)
  Routings,    \* contents of routing tensors
  FusedMaxN,   \* 512: pairs served by the decode kernels
  LegacyMaxN,  \* 4096: the same where gemmseg runs without ACCS
  SimdMaxN,    \* 20: pairs served by the simdgroup kernels
  TileRows,    \* 32: token rows of a tile
  MemoMax,     \* 8: routings remembered
  IdxMax,      \* 4: host copies remembered
  Addresses,   \* where modules live
  MaxSteps     \* bound on the steps of a behaviour

VARIABLES flags,   \* the settings
          mods,    \* the modules, by address
          indices, \* the routing tensor of this layer, by identity
          plans,   \* _KERNELS: launch plans by what they depend on
          memo,    \* _ROUTING_MEMO, oldest first
          idxs,    \* _IDX_CACHE, oldest first
          store,   \* _EXPAND_STORE
          got,     \* the last call and its result
          steps    \* steps taken

vars == <<flags, mods, indices, plans, memo, idxs, store, got, steps>>

Cap     == 32768    \* _TG_CAP_BYTES
Dead    == <<"dead">>
Junk    == <<"junk">>
Refused == << >>
Nothing == [at |-> 0]

-----------------------------------------------------------------------------
(* Skipzero: only live rows are stored, expert by expert.                   *)

\* All rows in the order they are stored, and those of them that are kept.
Rows(m, lo, hi) == SetToSortSeq((0..(m.experts - 1)) \X (lo..(hi - 1)),
                     LAMBDA a, b : a[1] < b[1] \/ (a[1] = b[1] /\ a[2] < b[2]))
Lo(m) == (m.rank * m.out) \div m.ranks
Hi(m) == ((m.rank + 1) * m.out) \div m.ranks

\* skipzero_row_table: the compact row of each (expert, row), by counting.
RowTable(live, experts, out) ==
  [eo \in (0..(experts - 1)) \X (0..(out - 1)) |->
     IF eo \notin live THEN -1
     ELSE Cardinality({q \in live : q[1] < eo[1] \/ (q[1] = eo[1] /\ q[2] < eo[2])})]

\* skipzero_shard: a rank takes its output rows of every expert, and of the
\* compact rows those that are live among them.
Shard(m) ==
  [codes |-> SelectSeq(Rows(m, Lo(m), Hi(m)), LAMBDA eo : eo \in m.live),
   live  |-> {<<eo[1], eo[2] - Lo(m)>> : eo \in {q \in m.live : q[2] \in Lo(m)..(Hi(m) - 1)}}]

ShardOk(m) == m.live = {} \/ m.out % m.ranks = 0

\* A loaded module: the rows its tensors hold, and its row table.
Loaded(m, version) ==
  [m |-> m, version |-> version,
   out |-> Hi(m) - Lo(m),
   codes |-> IF m.live = {} THEN Rows(m, 0, m.out) ELSE Shard(m).codes,
   table |-> IF m.live = {} THEN << >> ELSE RowTable(Shard(m).live, m.experts, Hi(m) - Lo(m))]

Sz(mod) == mod.m.live # {}

\* The code rows a kernel reads for expert e: by compact row, if it has the
\* row table switch, else at the full offset.
Read(mod, switch, e) ==
  [o \in 0..(mod.out - 1) |->
     LET full == e * mod.out + o
         at   == IF switch THEN mod.table[e, o] ELSE full
     IN IF at = -1 THEN Dead
        ELSE IF at + 1 \in DOMAIN mod.codes THEN <<mod.version, mod.codes[at + 1]>> ELSE Junk]

-----------------------------------------------------------------------------
(* Orders.                                                                 *)

\* np.argsort(kind="stable"), and the inverse of a permutation.
Order(s) == SetToSortSeq(DOMAIN s, LAMBDA i, j : s[i] < s[j] \/ (s[i] = s[j] /\ i < j))
Inv(p) == [i \in DOMAIN p |-> CHOOSE n \in DOMAIN p : p[n] = i]
Picked(s, order) == [i \in DOMAIN order |-> s[order[i]]]
Count(s, e) == Cardinality({i \in DOMAIN s : s[i] = e})
Start(s, e) == Cardinality({i \in DOMAIN s : s[i] < e})

MemoPut(mem, entry) ==
  Append(IF Len(mem) >= MemoMax THEN Tail(mem) ELSE mem, entry)

-----------------------------------------------------------------------------
(* Decode: the fused kernels.                                              *)

d4_tg_fits(k, nsub) == (k + nsub) * 8 <= Cap
d2_tg_fits(k, nsub) == (k + nsub) * 4 <= Cap
NSUB(m) == m.in \div m.d

\* The branches of _fused_resolve: the kernel, by the end of its name.
PackedKernel(m, simd) ==
  CASE m.d = 4 /\ d4_tg_fits(m.k, NSUB(m)) -> IF flags.walk THEN "d4_walk" ELSE "packed"
    [] m.d = 4 /\ ~d4_tg_fits(m.k, NSUB(m)) -> IF flags.walk THEN "devcb_walk" ELSE "d4_devcb"
    [] m.d = 2 -> IF flags.walk THEN "d2_walk" ELSE "d2"
    [] m.d = 8 /\ m.k <= 1024 -> "d8_tg"
    [] m.d = 8 /\ m.k > 1024 /\ simd /\ m.in \div m.g >= 32 ->
         (CASE flags.regbuf -> "d8_simd_rb" [] flags.ss = "old" -> "d8_simd_ss"
            [] flags.ss = "devx" -> "d8_simd_devx_ss" [] OTHER -> "d8_simd")
    [] m.d = 8 /\ m.k > 1024 /\ ~(simd /\ m.in \div m.g >= 32) ->
         IF flags.walk THEN "d8_walk" ELSE "d8"
    [] OTHER -> "none"

PlainKernel(m, simd) ==
  CASE m.d = 2 -> IF m.u8 /\ NSUB(m) % 4 = 0 THEN "d2_u32" ELSE "d2"
    [] m.d = 4 /\ m.k > 1024 /\ ~d4_tg_fits(m.k, NSUB(m)) ->
         IF simd /\ m.g % 16 = 0 /\ m.in \div m.g >= 32 THEN "d4_devcb_simd" ELSE "d4_devcb"
    [] m.d = 4 /\ m.k > 1024 /\ d4_tg_fits(m.k, NSUB(m)) -> "d4_bigk"
    [] m.d = 4 /\ m.k <= 1024 -> "d4"
    [] m.d = 8 /\ m.k <= 1024 -> "d8_tg"
    [] m.d = 8 /\ m.k > 1024 -> IF simd /\ m.in \div m.g >= 32 THEN "d8_simd" ELSE "d8"
    [] OTHER -> "none"

\* Unpacked bytes of a d4 module are read as the words of a packed row.
IsPacked(m) == m.pack \/ (m.u8 /\ m.d = 4 /\ NSUB(m) % 4 = 0)

\* Pairs a threadgroup of a walk kernel serves: halved until x and the
\* codebook fit beside each other.
XsRows(wide, xkrep) == IF xkrep > 0 /\ xkrep % wide = 0 THEN 1 ELSE wide
Wide(m, kernel, xkrep, sz) ==
  IF sz \/ ~IsPacked(m) \/ kernel \notin {"d4_walk", "d2_walk"} THEN 1
  ELSE LET fits(w) == (m.k + XsRows(w, xkrep) * NSUB(m)) * 2 * m.d <= Cap
           tried == {w \in {2, 4, 8} : w <= flags.wide /\ fits(w)}
       IN IF tried = {} THEN 1 ELSE CHOOSE w \in tried : \A v \in tried : v <= w

\* Threadgroup memory of the kernels whose size is looked at before launch.
Bytes(m, kernel, wide, xkrep) ==
  CASE wide > 1 -> (m.k + XsRows(wide, xkrep) * NSUB(m)) * 2 * m.d
    [] wide = 1 /\ kernel \in {"d4_walk", "packed", "d4_bigk"} -> (m.k + NSUB(m)) * 8
    [] wide = 1 /\ kernel \in {"d2_walk", "d2", "d2_u32"} -> (m.k + NSUB(m)) * 4
    [] OTHER -> 0

SzKernels == {"d4_walk", "d2_walk", "d8_walk", "d8_simd_devx_ss"}

\* What _fused_resolve decides for x of nx rows, xkrep pairs for each (0: a
\* row for each pair).
Plan(mod, nx, xkrep) ==
  LET m      == mod.m
      n      == IF xkrep > 0 THEN nx * xkrep ELSE nx
      simd   == flags.simd /\ n <= SimdMaxN
      kernel == IF IsPacked(m) THEN PackedKernel(m, simd) ELSE PlainKernel(m, simd)
      wide   == Wide(m, kernel, xkrep, Sz(mod))
      switch == IsPacked(m) /\ flags.spec /\ kernel \in SzKernels
  IN IF kernel = "none" \/ (Sz(mod) /\ ~switch) THEN Refused
     ELSE <<[n |-> n, out |-> mod.out, xk |-> IF xkrep > 0 THEN xkrep ELSE 1,
             switch |-> Sz(mod), bytes |-> Bytes(m, kernel, wide, xkrep)]>>

\* Mutant: pairs of a token are not part of what a plan is remembered under.
PlanKeyWithoutPairs(mod, nx, xkrep) ==
  <<mod.m.in, IF Sz(mod) THEN <<Len(mod.codes)>> ELSE <<mod.m.experts, mod.out>>,
    mod.m.k, mod.m.d, mod.m.g, mod.m.pack, mod.m.u8>>

\* The shapes and dtypes a plan is remembered under.
PlanKey(mod, nx, xkrep) ==
  <<nx, mod.m.in, IF Sz(mod) THEN <<Len(mod.codes)>> ELSE <<mod.m.experts, mod.out>>,
    mod.m.k, mod.m.d, mod.m.g, mod.m.pack, mod.m.u8,
    IF Sz(mod) THEN <<mod.m.experts, mod.out>> ELSE << >>, xkrep>>

\* A kernel launched by a plan: pair j of x row j // XKREP.
Launch(plan, mod, x, idx) ==
  [j \in 1..plan.n |->
     LET row == (j - 1) \div plan.xk + 1
     IN IF row \in DOMAIN x /\ j \in DOMAIN idx /\ plan.out = mod.out
        THEN <<x[row], idx[j], Read(mod, plan.switch, idx[j])>> ELSE Junk]

-----------------------------------------------------------------------------
(* Prefill.                                                                *)

CbBytes(m) == m.k * 2 * m.d
TileBytes  == IF flags.dstore THEN 2 * 4096 ELSE 3 * 4096
GemmLegal(m) == CbBytes(m) + TileBytes <= Cap

gemmseg_fits(m) ==
  /\ flags.gemm > 0
  /\ m.d \in {2, 4, 8} /\ m.g = 64 /\ m.in % m.g = 0 /\ (m.g \div m.d) % 4 = 0
  /\ GemmLegal(m) \/ flags.bigk

CbDev(m) == CASE flags.cbdev = "1" -> TRUE
              [] flags.cbdev = "0" /\ GemmLegal(m) -> FALSE
              [] OTHER -> ~GemmLegal(m) \/ CbBytes(m) >= 16384

\* Rows of a tile as the host cuts them, and as the kernel was built.
HostTile(m) == IF flags.rtile = 64 /\ flags.gemm = 2 /\ ~GemmLegal(m)
               THEN 2 * TileRows ELSE TileRows
KernelTile(m) == IF flags.gemm = 2 /\ flags.rtile = 64 /\ CbDev(m)
                 THEN 2 * TileRows ELSE TileRows

\* Tiles of sorted rows: expert, first row and rows; none straddles experts.
Tiles(sorted, experts, rt) ==
  FlattenSeq([i \in 1..experts |->
    LET e == i - 1
        c == Count(sorted, e)
    IN [t \in 1..((c + rt - 1) \div rt) |->
          [e |-> e, r0 |-> Start(sorted, e) + (t - 1) * rt,
           nrow |-> IF c - (t - 1) * rt < rt THEN c - (t - 1) * rt ELSE rt]]])

\* Mutant: tiles are remembered whatever their rows.
TileKeyWithoutRows(sorted, experts, rt) == <<"tiles", sorted, experts, 0>>

TileKey(sorted, experts, rt) == <<"tiles", sorted, experts, rt>>

\* The kernel's rows: each by the tile that has it, if the kernel is as tall.
ByTiles(tiles, mod, x, sorted) ==
  [r \in DOMAIN sorted |->
     LET has == {t \in ToSet(tiles) : r - 1 - t.r0 \in 0..(t.nrow - 1)
                                      /\ r - 1 - t.r0 < KernelTile(mod.m)}
     IN IF Cardinality(has) # 1 THEN Junk
        ELSE LET t == CHOOSE q \in has : TRUE IN <<x[r], t.e, Read(mod, Sz(mod), t.e)>>]

\* Without gemmseg: experts in order of their row counts, each one's rows
\* multiplied with its decoded weights, and the rows put back.
ByExperts(mod, x, sorted) ==
  LET touched == Order([i \in 1..mod.m.experts |-> Count(sorted, i - 1)])
      rows == FlattenSeq([i \in DOMAIN touched |->
                [c \in 1..Count(sorted, touched[i] - 1) |-> Start(sorted, touched[i] - 1) + c]])
      ys == [n \in DOMAIN rows |->
               <<x[rows[n]], sorted[rows[n]], Read(mod, FALSE, sorted[rows[n]])>>]
  IN Picked(ys, Inv(rows))

\* _prefill on sorted rows, x given by row or (gather) by token.
Prefill(mem, mod, x, sorted, gather) ==
  LET key   == TileKey(sorted, mod.m.experts, HostTile(mod.m))
      known == {e \in ToSet(mem) : e.key = key}
      tiles == IF known = {} THEN Tiles(sorted, mod.m.experts, HostTile(mod.m))
               ELSE (CHOOSE e \in known : TRUE).tiles
  IN IF gather /\ gemmseg_fits(mod.m)
     THEN [memo |-> IF known = {} THEN MemoPut(mem, [key |-> key, tiles |-> tiles]) ELSE mem,
           y |-> IF (flags.gemm = 1 /\ (Sz(mod) \/ mod.m.d # 2 \/ ~mod.m.pack))
                    \/ (Sz(mod) /\ ~flags.spec)
                 THEN Refused ELSE ByTiles(tiles, mod, x, sorted)]
     ELSE [memo |-> mem, y |-> IF Sz(mod) THEN Refused ELSE ByExperts(mod, x, sorted)]

\* _fused_decode_fallback, for a d2 codebook no fused kernel can hold.
DecodeFallback(mod, x, idx) ==
  LET order == Order(idx)
      y == Prefill(memo, mod, Picked(x, order), Picked(idx, order), FALSE).y
  IN IF y = Refused THEN Refused ELSE Picked(y, Inv(order))

-----------------------------------------------------------------------------
(* The call.                                                               *)

TokenOf(j, per) == (j - 1) \div per
ByPair(n, per) == [j \in 1..n |-> TokenOf(j, per)]
ByToken(n) == [t \in 1..n |-> t - 1]

MaxN == IF flags.accs /\ flags.rtile = 32 THEN FusedMaxN
        ELSE IF FusedMaxN > LegacyMaxN THEN FusedMaxN ELSE LegacyMaxN

\* Mutant: the routing alone stands for the sorted rows.
SortKeyWithoutPairs(idx, per) == <<"sort", idx, 0>>

SortKey(idx, per) == <<"sort", idx, per>>

\* Mutant: weights found under the module's address are taken for its own.
ExpandedForAddress(a) ==
  IF store[a] # Nothing THEN store[a]
  ELSE [at |-> a, version |-> mods[a].version,
        rows |-> [e \in 0..(mods[a].m.experts - 1) |-> Read(mods[a], FALSE, e)]]

\* Expanded weights, made at the module's first long call.
Expanded(a) ==
  IF store[a] # Nothing /\ store[a].version = mods[a].version THEN store[a]
  ELSE [at |-> a, version |-> mods[a].version,
        rows |-> [e \in 0..(mods[a].m.experts - 1) |-> Read(mods[a], FALSE, e)]]

\* _idx_np: the routing on the host.  The cache holds the tensor, so no other
\* can have its id.
IdxKnown == {e \in ToSet(idxs) : e.obj = indices.id}
IdxNp == IF IdxKnown = {} THEN indices.idx ELSE (CHOOSE e \in IdxKnown : TRUE).arr
IdxPut ==
  IF ~flags.idxmemo \/ IdxKnown # {} THEN idxs
  ELSE Append(IF Len(idxs) >= IdxMax THEN Tail(idxs) ELSE idxs,
              [obj |-> indices.id, arr |-> indices.idx])

Init ==
  /\ flags \in Flags
  /\ \E f \in [Addresses -> Modules] : mods = [a \in Addresses |-> Loaded(f[a], 0)]
  /\ \E idx \in Routings : indices = [id |-> 0, idx |-> idx]
  /\ plans = {}
  /\ memo = << >>
  /\ idxs = << >>
  /\ store = [a \in Addresses |-> Nothing]
  /\ got = Nothing
  /\ steps = 0

Step == steps < MaxSteps /\ steps' = steps + 1

\* Bound: between two calls one other thing happens.
Between == Step /\ got # Nothing

\* A module dies and another is built at its address.
Reload(a, m) ==
  /\ Between /\ ShardOk(m)
  /\ mods' = [mods EXCEPT ![a] = Loaded(m, steps + 1)]
  /\ got' = Nothing
  /\ UNCHANGED <<flags, indices, plans, memo, idxs, store>>

\* The next layer routes: a new tensor.
Route(idx) ==
  /\ Between
  /\ indices' = [id |-> steps + 1, idx |-> idx]
  /\ got' = Nothing
  /\ UNCHANGED <<flags, mods, plans, memo, idxs, store>>

\* A call with `per` pairs for each token: y is its result, for the module at
\* a and the routing at hand.
Answer(a, per, y, bytes) ==
  /\ Step
  /\ Len(indices.idx) % per = 0
  /\ got' = [at |-> a, per |-> per, y |-> y, bytes |-> bytes]
  /\ UNCHANGED <<flags, mods, indices>>

\* VQ_PREFILL_EXPAND: a long call is served from expanded weights.
Expands(a) == flags.expand /\ Len(indices.idx) > MaxN /\ ~Sz(mods[a])
CallExpanded(a, per) ==
  /\ Expands(a)
  /\ store' = [store EXCEPT ![a] = Expanded(a)]
  /\ Answer(a, per, [j \in DOMAIN indices.idx |->
       <<TokenOf(j, per), indices.idx[j], Expanded(a).rows[indices.idx[j]]>>], 0)
  /\ UNCHANGED <<plans, memo, idxs>>

\* A short call: the fused kernels, x by token (XKREP) or by pair.
CallDecode(a, per) ==
  /\ Len(indices.idx) <= MaxN
  /\ LET mod   == mods[a]
         n     == Len(indices.idx)
         xkrep == IF flags.xkrep THEN per ELSE 0
         x     == IF flags.xkrep THEN ByToken(n \div per) ELSE ByPair(n, per)
         key   == PlanKey(mod, Len(x), xkrep)
         known == {p \in plans : p.key = key}
         plan  == IF known = {} THEN Plan(mod, Len(x), xkrep)
                  ELSE <<(CHOOSE p \in known : TRUE).plan>>
     IN IF mod.m.d = 2 /\ ~d2_tg_fits(mod.m.k, NSUB(mod.m))
        THEN /\ Answer(a, per, IF Sz(mod) THEN Refused
                               ELSE DecodeFallback(mod, ByPair(n, per), indices.idx), 0)
             /\ UNCHANGED plans
        ELSE IF plan = Refused
        THEN Answer(a, per, Refused, 0) /\ UNCHANGED plans
        ELSE /\ Answer(a, per, Launch(plan[1], mod, x, indices.idx), plan[1].bytes)
             /\ plans' = plans \cup {[key |-> key, plan |-> plan[1]]}
  /\ UNCHANGED <<memo, idxs, store>>

\* A long call: pairs sorted by expert, unless the caller says they are.
CallPrefill(a, per, sorted) ==
  /\ Len(indices.idx) > MaxN /\ ~Expands(a)
  /\ sorted => indices.idx = Picked(indices.idx, Order(indices.idx))
  /\ idxs' = IdxPut
  /\ LET mod   == mods[a]
         idx   == IdxNp
         key   == SortKey(idx, per)
         known == {e \in ToSet(memo) : e.key = key}
         fresh == [order |-> Order(idx), src |-> Picked(ByPair(Len(idx), per), Order(idx)),
                   idx |-> Picked(idx, Order(idx))]
         keeps == ~sorted /\ flags.gather
         sort  == CASE sorted -> [order |-> [j \in DOMAIN idx |-> j],
                                  src |-> ByPair(Len(idx), per), idx |-> idx]
                    [] keeps /\ known # {} -> (CHOOSE e \in known : TRUE).sort
                    [] OTHER -> fresh
         mem   == IF keeps /\ known = {} THEN MemoPut(memo, [key |-> key, sort |-> fresh]) ELSE memo
         out   == Prefill(mem, mod, sort.src, sort.idx, flags.gather)
     IN /\ memo' = out.memo
        /\ Answer(a, per, IF out.y = Refused THEN Refused
                          ELSE Picked(out.y, Inv(sort.order)), 0)
  /\ UNCHANGED <<plans, store>>

Next ==
  \/ \E a \in Addresses, m \in Modules : Reload(a, m)
  \/ \E idx \in Routings : Route(idx)
  \/ \E a \in Addresses, per \in {1, 2} :
       \/ CallExpanded(a, per)
       \/ CallDecode(a, per)
       \/ \E sorted \in BOOLEAN : CallPrefill(a, per, sorted)

Spec == Init /\ [][Next]_vars

-----------------------------------------------------------------------------
\* The weights of expert e as the module was made: of the rank's rows, those
\* that are live, each from its own codes.
Weights(mod, e) ==
  [o \in 0..(mod.out - 1) |->
     LET eo == <<e, Lo(mod.m) + o>>
     IN IF Sz(mod) /\ eo \notin mod.m.live THEN Dead ELSE <<mod.version, eo>>]

\* Whatever kernel serves a call, and whatever earlier calls have left to be
\* reused, pair j gets its own token through its own expert, by the rows of
\* the module that is called; a kernel that is launched fits; and only a
\* skipzero module, or gemmseg v1, is ever refused.
RowsAreServed ==
  got # Nothing =>
    LET mod == mods[got.at]
    IN /\ got.y = Refused => Sz(mod) \/ flags.gemm = 1
       /\ got.y # Refused =>
            got.y = [j \in DOMAIN indices.idx |->
                       <<TokenOf(j, got.per), indices.idx[j], Weights(mod, indices.idx[j])>>]
       /\ got.bytes <= Cap

=============================================================================
