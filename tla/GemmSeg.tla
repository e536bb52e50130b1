------------------------------- MODULE GemmSeg -------------------------------
(***************************************************************************)
(* vq_gemmseg (vqlab/runtime/vq_switch.py), the prefill kernel: a           *)
(* threadgroup multiplies one tile of token rows, all of one expert, with   *)
(* one or two blocks of that expert's rows.  For each scale group it        *)
(* decodes the block's weights into shared memory once, stages the tokens'  *)
(* x beside them, and adds the product to accumulators in registers.       *)
(*                                                                         *)
(* A decoded row is named by the row its codes and its scale were read      *)
(* from, and its group; Dead is a row of zeros.                            *)
(***************************************************************************)
EXTENDS Threadgroup, FiniteSets, SequencesExt

CONSTANTS
  Simdgroups,   \* 4: the processes of a threadgroup
  Octet,        \* 8: rows a simdgroup stages, and columns it multiplies
  Segments      \* launches: the switches v2, cbdev, wide (RTILE = 64), ot2, pipe,
                \* accs, dstore, sz; out, groups, rows of y; the tile's expert e,
                \* r0, nrow and otile; the row table

VARIABLES seg,     \* the launch
          filled,  \* shared memory: simdgroups whose part of the codebook is in
          wt,      \* shared memory: a block of weights
          xt,      \* shared memory: the tokens' x
          pf,      \* registers: the codes fetched for the next group
          acc,     \* registers: the sums of each simdgroup
          ybuf,    \* shared memory: sums on their way to y
          y        \* results by row and column

gvars == <<prog, pc, seg, filled, wt, xt, pf, acc, ybuf, y>>

Dead == -1
Junk == [row |-> -2, scale |-> -2, g |-> -2]
NoSum == <<Junk>>

Tile   == Simdgroups * Octet
Procs  == 0..(Simdgroups - 1)
Blocks == 0..(IF seg.ot2 THEN 1 ELSE 0)
o0     == seg.otile * Tile * Cardinality(Blocks)
Mine(p) == (p * Octet)..(p * Octet + Octet - 1)
Tokens == 0..(IF seg.wide THEN 2 * Tile - 1 ELSE Tile - 1)
StagedBy(p) == {t \in Tokens : t % Tile \in Mine(p)}

\* The compact row of output row o (sz_lr); without a row table, its row.
Live(o) == IF o >= seg.out THEN Dead
           ELSE IF seg.sz THEN seg.table[seg.e, o] ELSE seg.e * seg.out + o

\* What a simdgroup sums up: in v1 a lane has an output row and the simdgroup
\* a few tokens, in v2 the simdgroup has output rows and all tokens.
Sums(p) == IF seg.v2 THEN Tokens \X Mine(p) ELSE StagedBy(p) \X (0..(Tile - 1))

Op(name) == [op |-> name]
OpAt(name, g, b) == [op |-> name, g |-> g, b |-> b]

\* Mutant: a simdgroup that has multiplied goes on without waiting.
WithoutLastBarrier(s, blocks) ==
  (IF s.cbdev THEN << >> ELSE <<Op("fill")>>) \o <<Op("barrier")>>
  \o FlattenSeq([i \in 1..(s.groups * blocks) |->
       LET g == (i - 1) \div blocks
           b == (i - 1) % blocks
       IN <<OpAt("decode", g, b)>> \o (IF b = 0 THEN <<OpAt("stage", g, b)>> ELSE << >>)
          \o <<Op("barrier"), OpAt("multiply", g, b)>>])
  \o (IF s.dstore \/ ~s.v2 THEN [b \in 1..blocks |-> OpAt("store", 0, b - 1)]
      ELSE FlattenSeq([b \in 1..blocks |->
             <<OpAt("save", 0, b - 1), Op("barrier"), OpAt("copy", 0, b - 1), Op("barrier")>>]))

\* x is staged with the first block only and serves both.
Program(s, blocks) ==
  (IF s.cbdev THEN << >> ELSE <<Op("fill")>>) \o <<Op("barrier")>>
  \o FlattenSeq([i \in 1..(s.groups * blocks) |->
       LET g == (i - 1) \div blocks
           b == (i - 1) % blocks
       IN <<OpAt("decode", g, b)>> \o (IF b = 0 THEN <<OpAt("stage", g, b)>> ELSE << >>)
          \o <<Op("barrier"), OpAt("multiply", g, b), Op("barrier")>>])
  \o (IF s.dstore \/ ~s.v2 THEN [b \in 1..blocks |-> OpAt("store", 0, b - 1)]
      ELSE FlattenSeq([b \in 1..blocks |->
             <<OpAt("save", 0, b - 1), Op("barrier"), OpAt("copy", 0, b - 1), Op("barrier")>>]))

Init ==
  /\ seg \in Segments
  /\ prog = Program(seg, Cardinality(Blocks))
  /\ pc = [p \in Procs |-> 1]
  /\ filled = IF seg.cbdev THEN Procs ELSE {}
  /\ wt = [o \in 0..(Tile - 1) |-> Junk]
  /\ xt = [t \in Tokens |-> <<-2, -2>>]
  /\ pf = [p \in Procs |-> [b \in Blocks |-> [o \in Mine(p) |-> Junk]]]
  /\ acc = [p \in Procs |-> [b \in Blocks |-> [to \in Sums(p) |-> << >>]]]
  /\ ybuf = [to \in Tokens \X (0..(Tile - 1)) |-> NoSum]
  /\ y = [ro \in (0..(seg.rows - 1)) \X (0..(seg.out - 1)) |-> NoSum]

-----------------------------------------------------------------------------
Fill(p) ==
  /\ At(p, "fill")
  /\ filled' = filled \cup {p}
  /\ Onward(p) /\ UNCHANGED <<prog, seg, wt, xt, pf, acc, ybuf, y>>

\* Group g of row o, from memory.
Fetch(o, g) == [row |-> Live(o), scale |-> Live(o), g |-> g]

\* A simdgroup decodes its rows of the block: codes of this group, or those
\* it fetched a group ago (PIPE); a row past OUT is zeros, in v1 left alone.
\* With ACCS the scale is left to the multiplication.
Decode(p) ==
  /\ At(p, "decode")
  /\ LET g  == Instr(p).g
         b  == Instr(p).b
         oo == o0 + b * Tile
         codes(o) == IF seg.pipe /\ g > 0 /\ Live(oo + o) # Dead THEN pf[p][b][o]
                     ELSE Fetch(oo + o, g)
         row(o) == IF filled # Procs THEN Junk
                   ELSE IF seg.accs THEN [codes(o) EXCEPT !.scale = Dead] ELSE codes(o)
     IN /\ wt' = [o \in DOMAIN wt |->
                    IF o \in Mine(p) /\ (seg.v2 \/ oo + o < seg.out) THEN row(o) ELSE wt[o]]
        /\ pf' = IF seg.pipe /\ g + 1 < seg.groups
                 THEN [pf EXCEPT ![p][b] = [o \in Mine(p) |-> Fetch(oo + o, g + 1)]] ELSE pf
  /\ Onward(p) /\ UNCHANGED <<prog, seg, filled, xt, acc, ybuf, y>>

\* x of the tile's tokens; zeros past nrow.
Stage(p) ==
  /\ At(p, "stage")
  /\ xt' = [t \in Tokens |->
              IF t \notin StagedBy(p) THEN xt[t]
              ELSE <<IF t < seg.nrow THEN seg.r0 + t ELSE Dead, Instr(p).g>>]
  /\ Onward(p) /\ UNCHANGED <<prog, seg, filled, wt, pf, acc, ybuf, y>>

Barrier(p) == Meet(p) /\ UNCHANGED <<prog, seg, filled, wt, xt, pf, acc, ybuf, y>>

Multiply(p) ==
  /\ At(p, "multiply")
  /\ LET b == Instr(p).b
         scaled(o) == IF seg.accs
                      THEN [wt[o] EXCEPT !.scale = Live(o0 + b * Tile + o)] ELSE wt[o]
     IN acc' = [acc EXCEPT ![p][b] =
                  [to \in DOMAIN @ |-> Append(@[to], <<scaled(to[2]), xt[to[1]]>>)]]
  /\ Onward(p) /\ UNCHANGED <<prog, seg, filled, wt, xt, pf, ybuf, y>>

\* The cells of y that come from these sums of block b, if they are inside.
Put(cells, b, sum(_)) ==
  y' = [ro \in DOMAIN y |->
          LET to == <<ro[1] - seg.r0, ro[2] - o0 - b * Tile>>
          IN IF to \in cells /\ to[1] < seg.nrow THEN sum(to) ELSE y[ro]]

\* Straight from the accumulators (v1, DSTORE).
Store(p) ==
  /\ At(p, "store")
  /\ LET sum(to) == acc[p][Instr(p).b][to] IN Put(Sums(p), Instr(p).b, sum)
  /\ Onward(p) /\ UNCHANGED <<prog, seg, filled, wt, xt, pf, acc, ybuf>>

\* By way of shared memory: a simdgroup saves its columns ...
Save(p) ==
  /\ At(p, "save")
  /\ ybuf' = [to \in DOMAIN ybuf |->
                IF to \in Sums(p) THEN acc[p][Instr(p).b][to] ELSE ybuf[to]]
  /\ Onward(p) /\ UNCHANGED <<prog, seg, filled, wt, xt, pf, acc, y>>

\* ... and copies its token rows.
Copy(p) ==
  /\ At(p, "copy")
  /\ LET sum(to) == ybuf[to] IN Put(StagedBy(p) \X (0..(Tile - 1)), Instr(p).b, sum)
  /\ Onward(p) /\ UNCHANGED <<prog, seg, filled, wt, xt, pf, acc, ybuf>>

Next == \E p \in Procs :
  \/ Fill(p) \/ Decode(p) \/ Stage(p) \/ Barrier(p) \/ Multiply(p)
  \/ Store(p) \/ Save(p) \/ Copy(p)

Spec == Init /\ [][Next]_gvars

-----------------------------------------------------------------------------
Product(r, o) == [i \in 1..seg.groups |-> <<Fetch(o, i - 1), <<r, i - 1>>>>]
InTile(r, o) == /\ r \in seg.r0..(seg.r0 + seg.nrow - 1)
                /\ o \in o0..(o0 + Tile * Cardinality(Blocks) - 1)

\* Whatever the order of the simdgroups and the switches the kernel is built
\* with, y gets, inside the tile and nowhere else, the product of the token's
\* x with the expert's row, every group once; and all of the tile is written.
TilesAreProducts ==
  /\ \A ro \in DOMAIN y :
       /\ y[ro] = NoSum \/ (InTile(ro[1], ro[2]) /\ y[ro] = Product(ro[1], ro[2]))
       /\ Ended /\ InTile(ro[1], ro[2]) => y[ro] # NoSum
  /\ NobodyIsMissed

=============================================================================
