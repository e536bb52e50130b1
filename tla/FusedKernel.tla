----------------------------- MODULE FusedKernel -----------------------------
(***************************************************************************)
(* The decode kernels of vqlab/runtime/vq_switch.py: each multiplies a row  *)
(* of coded weights with a row of x.  Processes fill shared memory with the *)
(* codebook and with x, meet at barriers, and sum the groups of their row.  *)
(*                                                                         *)
(* Shared memory starts as junk.  A slot of x stands for the elements that  *)
(* one code is multiplied with, a sum for the terms that went into it.     *)
(***************************************************************************)
EXTENDS Threadgroup, Integers, FiniteSets, SequencesExt

CONSTANTS
  Lanes,      \* 32: the threads of a simdgroup
  Launches    \* kernel, out rows, groups, codes of a group (spg), codebook
              \* entries, pairs (n), pairs of one token (xkrep), dead rows,
              \* processes of a threadgroup and which threadgroup this is

VARIABLES launch,   \* the launch
          cb,       \* shared memory: the codebook
          xs,       \* shared memory: x
          acc,      \* the sum of each process
          y         \* results by pair and row

kvars == <<prog, pc, launch, cb, xs, acc, y>>

Junk == -1           \* what a slot of shared memory holds before it is filled
NoResult == <<{}>>        \* no result yet

-----------------------------------------------------------------------------
(* The kernels: who owns a row, where the codebook and x are read from, how *)
(* rows past OUT are left out, whether a simdgroup's sums are added as a    *)
(* tree, whether there is a row table, and the pairs of a threadgroup.      *)

Thread(where) == [simd |-> FALSE, cb |-> where, x |-> "row", guard |-> "return",
                  ss |-> FALSE, sz |-> FALSE, wide |-> 1]
Simd(where, x, guard) == [simd |-> TRUE, cb |-> where, x |-> x, guard |-> guard,
                          ss |-> FALSE, sz |-> FALSE, wide |-> 1]
Tables(k) == [k EXCEPT !.sz = TRUE]    \* the SKIPZERO switch

FUSED             == Thread("staged")
FUSED_D8          == Thread("device")
FUSED_D8_SIMD     == Simd("device", "tile", "active")
FUSED_D8_TG       == Thread("staged")
FUSED_D2          == Thread("staged")
FUSED_D2_SIMD     == Simd("staged", "tile", "active")
FUSED_D2_U32      == Thread("staged")
FUSED_D4_BIGK     == Thread("staged")
PACKED            == Thread("staged")
PACKED_D4_WALK    == Tables(Thread("staged"))
D4_DEVCB          == Thread("device")
PACKED_D4_DEVCB   == Thread("device")
PACKED_D4_DEVCB_WALK == Thread("device")
D4_DEVCB_SIMD     == Simd("device", "tile", "active")
PACKED_D2         == Thread("staged")
PACKED_D2_WALK    == Tables(Thread("staged"))
WideWalk(pairs)   == [Thread("staged") EXCEPT !.wide = pairs]
PACKED_D8         == Thread("device")
PACKED_D8_WALK    == Tables(Thread("device"))
PACKED_D8_SIMD    == Simd("device", "tile", "active")
PACKED_D8_SIMD_SS == [PACKED_D8_SIMD EXCEPT !.ss = TRUE]
PACKED_D8_SIMD_DEVX    == [PACKED_D8_SIMD EXCEPT !.x = "device"]
PACKED_D8_SIMD_DEVX_SS == Tables([PACKED_D8_SIMD_DEVX EXCEPT !.ss = TRUE])
PACKED_D8_SIMD_RB == Simd("device", "tile", "active")
PACKED_D8_TG      == Thread("staged")
DENSE_D2          == Simd("staged", "row", "return")
DENSE_PACKED_D2   == Simd("staged", "row", "return")
DENSE_D2_TILED        == Simd("staged", "tile", "active")
DENSE_PACKED_D2_TILED == Simd("staged", "tile", "active")
DENSE_D4_TILED        == Simd("device", "tile", "active")
DENSE_PACKED_D4_TILED == Simd("device", "tile", "active")
Devx(k) == [k EXCEPT !.x = "device"]
Ss(k)   == [k EXCEPT !.ss = TRUE]
Dense   == {DENSE_D2, DENSE_PACKED_D2, DENSE_D2_TILED, DENSE_PACKED_D2_TILED,
            DENSE_D4_TILED, DENSE_PACKED_D4_TILED}

AnyDense == Dense \cup {Devx(k) : k \in Dense} \cup {Ss(k) : k \in Dense}
            \cup {Ss(Devx(k)) : k \in Dense}

Kernels ==
  {FUSED, FUSED_D8, FUSED_D8_SIMD, FUSED_D8_TG, FUSED_D2, FUSED_D2_SIMD, FUSED_D2_U32,
   FUSED_D4_BIGK, PACKED, PACKED_D4_WALK, D4_DEVCB, PACKED_D4_DEVCB, PACKED_D4_DEVCB_WALK,
   D4_DEVCB_SIMD, PACKED_D2, PACKED_D2_WALK, WideWalk(2), WideWalk(4), PACKED_D8,
   PACKED_D8_WALK, PACKED_D8_SIMD, PACKED_D8_SIMD_SS, PACKED_D8_SIMD_DEVX,
   PACKED_D8_SIMD_DEVX_SS, PACKED_D8_SIMD_RB, PACKED_D8_TG} \cup AnyDense

-----------------------------------------------------------------------------
(* The launch.                                                             *)

Procs  == 0..(launch.procs - 1)
Kernel == launch.kernel
Width  == IF Kernel.simd THEN Lanes ELSE 1
NSUB   == launch.groups * launch.spg
TILE   == Lanes * launch.spg
NBLK   == (launch.groups + Width - 1) \div Width
\* Pairs of this threadgroup; the token and the expert of a pair.
Pairs  == {t \in 0..(launch.n - 1) : t \div Kernel.wide = launch.tb}
TokenOf(t)  == t \div launch.xkrep
Expert(t) == t % 2
\* Rows of x staged: one, where a threadgroup's pairs share their token.
XSROWS == IF launch.xkrep % Kernel.wide = 0 THEN 1 ELSE Kernel.wide

\* Codes repeat within a row and differ between rows and experts.
CodeAt(e, r, s) == (e + r + s) % launch.k

Op(name) == [op |-> name]
OpAt(name, i) == [op |-> name, i |-> i]

\* What every process does, from the kernel's text.
Program(k, blocks, pairs) ==
  LET fill == IF k.cb = "staged" THEN <<Op("fill")>> ELSE << >>
      guard == IF k.guard = "return" THEN <<Op("return")>> ELSE << >>
      tiles == FlattenSeq([b \in 1..blocks |->
                 <<Op("barrier"), OpAt("tile", b - 1), Op("barrier"), OpAt("sum", b - 1)>>])
      sums == [b \in 1..blocks |-> OpAt("sum", b - 1)]
      one(t) == <<OpAt("pair", t)>> \o sums \o <<Op("write")>>
      rows == FlattenSeq([i \in 1..Cardinality(pairs) |-> one(SetToSortSeq(pairs, <)[i])])
  IN fill \o (CASE k.x = "row" -> <<Op("row"), Op("barrier")>> \o guard \o rows
                [] k.x = "tile" -> <<OpAt("pair", SetToSortSeq(pairs, <)[1])>> \o tiles
                                   \o <<Op("write")>>
                [] k.x = "device" -> (IF k.cb = "staged" THEN <<Op("barrier")>> ELSE << >>)
                                     \o guard \o rows)

Init ==
  /\ launch \in Launches
  /\ prog = Program(Kernel, NBLK, Pairs)
  /\ pc = [p \in Procs |-> 1]
  /\ cb = [c \in 0..(launch.k - 1) |-> Junk]
  /\ xs = [s \in 0..((IF Kernel.x = "tile" THEN TILE ELSE XSROWS * NSUB) - 1) |-> <<Junk>>]
  /\ acc = [p \in Procs |-> [t |-> 0, sum |-> << >>]]
  /\ y = [t \in Pairs, r \in 0..(launch.out - 1) |-> NoResult]

-----------------------------------------------------------------------------
(* The instructions.                                                       *)

\* for (i = lid; i < n; i += tgsize): the slots a process fills.
Share(p, n) == {i \in 0..(n - 1) : (i % (launch.procs * Width)) \div Width = p}
Active(p) == p < launch.out

Fill(p) ==
  /\ At(p, "fill")
  /\ cb' = [c \in DOMAIN cb |-> IF c \in Share(p, launch.k) THEN c ELSE cb[c]]
  /\ Onward(p) /\ UNCHANGED <<prog, launch, xs, acc, y>>

\* x of every token of the threadgroup, one row after the other.
StageRow(p) ==
  /\ At(p, "row")
  /\ xs' = [s \in DOMAIN xs |->
              LET t == launch.tb * Kernel.wide + s \div NSUB
              IN IF s % NSUB \in Share(p, NSUB) /\ t < launch.n
                 THEN <<TokenOf(t), s % NSUB>> ELSE xs[s]]
  /\ Onward(p) /\ UNCHANGED <<prog, launch, cb, acc, y>>

\* The part of x that the groups of one block need.
StageTile(p) ==
  /\ At(p, "tile")
  /\ LET base == Instr(p).i * TILE
         span == IF NSUB - base < TILE THEN NSUB - base ELSE TILE
     IN xs' = [s \in DOMAIN xs |-> IF s \in Share(p, span)
                                   THEN <<TokenOf(acc[p].t), base + s>> ELSE xs[s]]
  /\ Onward(p) /\ UNCHANGED <<prog, launch, cb, acc, y>>

\* Mutant: a process goes on as soon as one other has come to the barrier.
BarrierOfTwo(p) ==
  /\ At(p, "barrier")
  /\ \E q \in Procs \ {p} : pc[q] >= pc[p]
  /\ Onward(p) /\ UNCHANGED <<prog, launch, cb, xs, acc, y>>

Barrier(p) ==
  /\ Meet(p) /\ UNCHANGED <<prog, launch, cb, xs, acc, y>>

\* if (r >= OUT) return;
Return(p) ==
  /\ At(p, "return")
  /\ IF Active(p) THEN Onward(p) ELSE Leave(p)
  /\ UNCHANGED <<prog, launch, cb, xs, acc, y>>

Dead(t, p) == Kernel.sz /\ <<Expert(t), p>> \in launch.dead

\* The next pair: its expert's row.  A row the table calls dead is zero at
\* once, for the whole simdgroup.
Pair(p) ==
  /\ At(p, "pair")
  /\ LET t == Instr(p).i
     IN IF Active(p) /\ Dead(t, p)
        THEN y' = [y EXCEPT ![<<t, p>>] = << >>] /\ Leave(p) /\ UNCHANGED acc
        ELSE /\ acc' = [acc EXCEPT ![p] = [t |-> t, sum |-> << >>]]
             /\ Onward(p) /\ UNCHANGED y
  /\ UNCHANGED <<prog, launch, cb, xs>>

\* Where x of sub-vector s is read from, and what is there.
XAt(t, s, b) ==
  CASE Kernel.x = "device" -> <<TokenOf(t), s>>
    [] Kernel.x = "tile"   -> xs[s - b * TILE]
    [] Kernel.x = "row"    -> xs[(IF XSROWS = 1 THEN 0 ELSE t % Kernel.wide) * NSUB + s]
CbAt(c) == IF Kernel.cb = "staged" THEN cb[c] ELSE c

\* One group's dots, as the terms they are made of.
GroupSum(t, r, g, b) ==
  [g |-> g, terms |-> [q \in 0..(launch.spg - 1) |->
     LET s == g * launch.spg + q IN <<CbAt(CodeAt(Expert(t), r, s)), XAt(t, s, b)>>]]

\* Each lane sums its group of the block; the sums are added in the order of
\* the groups, or all at once by simd_sum.
Sum(p) ==
  /\ At(p, "sum")
  /\ LET b == Instr(p).i
         owned == {g \in 0..(launch.groups - 1) : g \div Width = b}
         sums == [i \in 1..Cardinality(owned) |-> {GroupSum(acc[p].t, p, b * Width + i - 1, b)}]
     IN acc' = IF Active(p)
               THEN [acc EXCEPT ![p].sum = @ \o (IF Kernel.ss THEN <<UNION ToSet(sums)>> ELSE sums)]
               ELSE acc
  /\ Onward(p) /\ UNCHANGED <<prog, launch, cb, xs, y>>

\* Lane 0 of an active row.
Write(p) ==
  /\ At(p, "write")
  /\ y' = IF Active(p) THEN [y EXCEPT ![<<acc[p].t, p>>] = acc[p].sum] ELSE y
  /\ Onward(p) /\ UNCHANGED <<prog, launch, cb, xs, acc>>

Next == \E p \in Procs :
  \/ Fill(p) \/ StageRow(p) \/ StageTile(p) \/ Barrier(p) \/ Return(p)
  \/ Pair(p) \/ Sum(p) \/ Write(p)

Spec == Init /\ [][Next]_kvars

-----------------------------------------------------------------------------
\* y[t, r]: every code of the row's groups with the x it belongs to, group
\* after group (or a simdgroup's groups at once); nothing for a dead row.
Group(t, r, g) == [g |-> g, terms |-> [q \in 0..(launch.spg - 1) |->
  LET s == g * launch.spg + q IN <<CodeAt(Expert(t), r, s), <<TokenOf(t), s>>>>]]
Product(t, r) ==
  IF Dead(t, r) THEN << >>
  ELSE LET lump == IF Kernel.ss THEN Lanes ELSE 1
       IN [i \in 1..((launch.groups + lump - 1) \div lump) |->
             {Group(t, r, g) : g \in {h \in 0..(launch.groups - 1) : h \div lump = i - 1}}]

\* Whatever the order of the threads, a result that is written is the row's
\* product with x, read from shared memory that had been filled; when all
\* have ended, every row has one; and no barrier is left waiting.
RowsAreProducts ==
  /\ \A tr \in DOMAIN y : y[tr] \in {NoResult, Product(tr[1], tr[2])}
  /\ Ended => \A tr \in DOMAIN y : y[tr] # NoResult
  /\ NobodyIsMissed

=============================================================================
