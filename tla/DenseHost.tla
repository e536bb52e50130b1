----------------------------- MODULE DenseHost -----------------------------
(***************************************************************************)
(* Dense VQ layers (runtime/vq_dense.py and their half of vq_switch.py): an *)
(* embedding looks rows of a table up, then each linear either runs a fused *)
(* kernel or decodes its weight, whole or in tiles of rows, and multiplies. *)
(* mlx is lazy: a decoded weight stays allocated until something evaluates  *)
(* it, at the latest the end of the forward.                                *)
(***************************************************************************)
EXTENDS Integers, FiniteSets, Sequences

CONSTANTS Flags,      \* the module switches: eval, tile (bytes), tiled, fuse, maxn
          Nets,       \* sequences of linears: [d, k, g, in, out, bits]
          Tables,     \* embeddings: [d, in, bits, rows, ple]
          Batches,    \* rows of x in one forward
          RowsTg      \* rows of output to a threadgroup

VARIABLES flags, net, table, n,
          at,         \* the linear that runs; 0 for the embedding
          made,       \* rows of the weight multiplied so far, in order
          live,       \* decoded tiles not yet evaluated: <<linear, rows>>
          got         \* what each layer returned
vars == <<flags, net, table, n, at, made, live, got>>

Raised == << <<"raised">> >>
Cap == 32768

Nsub(m) == m.in \div m.d

-----------------------------------------------------------------------------
(* The fused kernels.                                                      *)

tg_bytes(m, staged) == (m.k + staged) * 4 + 1024

Tiled(m) == IF flags.tiled = "auto" THEN tg_bytes(m, Nsub(m)) > Cap ELSE flags.tiled = "1"

\* Mutant: the debug override is the dispatcher's alone.
FitsByShape(m) == IF m.d = 4 THEN m.g % 16 = 0
                  ELSE m.d = 2 /\ (\/ tg_bytes(m, Nsub(m)) <= Cap
                                   \/ tg_bytes(m, 32 * (m.g \div 2)) <= Cap)

dense_fits(m) == IF m.d = 4 THEN m.g % 16 = 0
                 ELSE m.d = 2 /\ tg_bytes(m, IF Tiled(m) THEN 32 * (m.g \div 2) ELSE Nsub(m)) <= Cap

\* What _dense_fused refuses, although dense_fits let it through.
Refuses(m) == IF m.d = 4 THEN m.g % 16 # 0
              ELSE m.d # 2 \/ m.g % 8 # 0 \/ (m.bits > 0 /\ m.g # 64)

KernelBytes(m) == IF m.d = 4 THEN 8 * m.g ELSE tg_bytes(m, IF Tiled(m) THEN 32 * (m.g \div 2) ELSE Nsub(m))

fused_max_n(m) == IF m.bits = 0 THEN 12
                  ELSE IF flags.maxn # 0 THEN flags.maxn
                  ELSE IF m.d = 2 THEN 72 ELSE IF m.d = 4 THEN 32 ELSE 96

\* _dense_dispatch: a simdgroup to an output row, the grid in whole threadgroups.
Dispatched(m) == LET grid == ((m.out + RowsTg - 1) \div RowsTg) * RowsTg IN
                 {r \in 0..grid - 1 : r < m.out}

-----------------------------------------------------------------------------
(* Decoding.  A weight's rows are numbered 1 .. out.                       *)

wdec_fits(m) == /\ flags.fuse /\ m.d \in {2, 4} /\ m.bits \in 1..16
                /\ Nsub(m) % 32 = 0 /\ m.g % m.d = 0

\* _unpack_rows reads whole blocks of 32 codes.
Unpackable(m) == m.bits = 0 \/ Nsub(m) % 32 = 0

\* Mutant: the tile's first row does not travel with the full tensors.
WdecFromTop(r0, r1) == [i \in 1..r1 - r0 |-> i]

\* One thread to a group of a row, in blocks of 4 rows; it reads row r0 + r of
\* the full tensors.
wdec_decode(r0, r1) ==
  LET rows == r1 - r0 grid == ((rows + 3) \div 4) * 4 IN
  [r \in {r \in 1..grid : r <= rows} |-> r0 + r]

\* codes_in[r0:r1], unpacked and scaled.
Slab(r0, r1) == [i \in 1..r1 - r0 |-> r0 + i]

Weight(m, r0, r1) == IF wdec_fits(m) THEN wdec_decode(r0, r1) ELSE Slab(r0, r1)

\* Mutant: the last tile is a whole one.
TileRowsOver(m, r0) == flags.tile \div (m.in * 2)
OneTile(m) == flags.tile = 0 \/ m.in * 2 * m.out <= flags.tile
TileRows(m, r0) ==
  LET budget == IF flags.tile \div (m.in * 2) > 1 THEN flags.tile \div (m.in * 2) ELSE 1 IN
  IF OneTile(m) THEN m.out ELSE IF r0 + budget < m.out THEN budget ELSE m.out - r0

-----------------------------------------------------------------------------
Init ==
  /\ flags \in Flags /\ net \in Nets /\ table \in Tables /\ n \in Batches
  /\ at = 0 /\ made = << >> /\ live = {} /\ got = << >>

Fixed == UNCHANGED <<flags, net, table, n>>
Return(y) == /\ got' = Append(got, y) /\ at' = at + 1 /\ made' = << >>
Running == at <= Len(net) /\ (got # << >> => got[Len(got)] # Raised)

\* VQEmbedding and VQPLEEmbedding: the rows of the ids, in the ids' shape; the
\* codes as they are, or unpacked (the embedding's whole blocks at a time, the
\* PLE table's byte windows at any length).
Lookup ==
  /\ at = 0 /\ Running
  /\ \E ids \in [1..2 -> 1..table.rows] :
       Return(IF table.ple \/ Unpackable(table) THEN [i \in 1..2 |-> <<ids[i], ids[i]>>] ELSE Raised)
  /\ UNCHANGED live /\ Fixed

Fused ==
  /\ at > 0 /\ Running
  /\ LET m == net[at] IN
     /\ n <= fused_max_n(m) /\ dense_fits(m)
     /\ Return(IF Refuses(m) \/ KernelBytes(m) > Cap THEN Raised
               ELSE [r \in {q + 1 : q \in Dispatched(m)} |-> r])
  /\ UNCHANGED live /\ Fixed

\* One _tile, up to the product: nothing is computed yet.
Decode ==
  /\ at > 0 /\ Running
  /\ LET m == net[at] r0 == Len(made) IN
     /\ ~(n <= fused_max_n(m) /\ dense_fits(m))
     /\ r0 < m.out
     /\ \A t \in live : t[1] # at
     /\ IF Unpackable(m)
        THEN /\ made' = made \o Weight(m, r0, r0 + TileRows(m, r0))
             /\ live' = live \cup {<<at, r0, TileRows(m, r0) * m.in * 2>>}
             /\ UNCHANGED <<at, got>>
        ELSE Return(Raised) /\ UNCHANGED live
  /\ Fixed

\* Mutant: only the row-tiled arm evaluates.
EvaluatesTiles(m) == ~OneTile(m)
Evaluates(m) == ~OneTile(m) \/ flags.eval

\* mx.eval of the tile, which ends its weight; or on to the next layer without.
Settle ==
  /\ at > 0 /\ Running /\ made # << >>
  /\ LET m == net[at] IN
     /\ live' = IF Evaluates(m) THEN {} ELSE live
     /\ IF Len(made) >= m.out THEN Return(made)
        ELSE live # {} /\ UNCHANGED <<at, made, got>>
  /\ Fixed

\* The caller evaluates the forward's result.
Finish == /\ at > Len(net) /\ live # {}
          /\ live' = {} /\ UNCHANGED <<at, made, got>> /\ Fixed

Next == Lookup \/ Fused \/ Decode \/ Settle \/ Finish
Spec == Init /\ [][Next]_vars

-----------------------------------------------------------------------------
\* Every linear multiplies all rows of its weight once and in order, whichever
\* way; a layer raises only where a packed row does not end with a block or
\* where the fused kernel wants groups its gate did not ask for, never because
\* a kernel does not load.
LayersAreWhole ==
  \A i \in 2..Len(got) :
    LET m == net[i - 1] IN
    \/ got[i] = [r \in 1..m.out |-> r]
    \/ /\ got[i] = Raised
       /\ \/ ~Unpackable(m)
          \/ m.d = 2 /\ (m.g % 8 # 0 \/ (m.bits > 0 /\ m.g # 64))

\* With the forced evaluation at most one weight is decoded and not yet freed,
\* however deep the model; with a tile budget, at most a tile of it.
TransientIsBounded ==
  flags.eval =>
    /\ Cardinality(live) <= 1
    /\ flags.tile > 0 => \A t \in live : t[3] <= flags.tile \/ t[3] = net[t[1]].in * 2

\* Both.
DenseHolds == LayersAreWhole /\ TransientIsBounded
=============================================================================
