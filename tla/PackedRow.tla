------------------------------ MODULE PackedRow ------------------------------
(***************************************************************************)
(* A row of packed codes, how it is written (vqlab/runtime/vq_pack.py) and  *)
(* the ways the runtime has of reading a code of it (vq_switch.py,          *)
(* vq_dense.py): bits cut out of words loaded for each code, bits cut out   *)
(* of a block's words held in registers, a window shifted into place, and   *)
(* a walk that loads each word once.                                       *)
(*                                                                         *)
(* A bit of memory is its address: bit p of word i is bit 32*i+p of the     *)
(* row, and bit k of code j belongs at address bits*j+k.  A reader is right *)
(* when what it returns are those addresses, whatever the codes are.        *)
(***************************************************************************)
EXTENDS Integers, FiniteSets

CONSTANTS Widths,     \* bits of a code, of 1..31
          Lengths     \* codes of a row

VARIABLES bits,   \* BITS: the width of this row's codes
          nsub,   \* NSUB: how many it has
          j,      \* the walk: codes taken so far
          w,      \* words loaded so far
          nb,     \* bits in the buffer
          buf,    \* the 64-bit buffer
          code    \* the code taken last

rowvars == <<bits, nsub, j, w, nb, buf, code>>

Zero == -1     \* a bit that is 0 whatever the codes are
Junk == -2     \* a bit nobody can tell: two bits in one place, memory past
               \* the row, a shift by the width of the word or more

-----------------------------------------------------------------------------
(* Words of 32 and 64 bits.                                                *)

Shr(v, n) == [p \in DOMAIN v |-> IF n \notin DOMAIN v THEN Junk
                                 ELSE IF p + n \in DOMAIN v THEN v[p + n] ELSE Zero]
Shl(v, n) == [p \in DOMAIN v |-> IF n \notin DOMAIN v THEN Junk
                                 ELSE IF p < n THEN Zero ELSE v[p - n]]
Or(u, v)  == [p \in DOMAIN u |-> IF u[p] = Zero THEN v[p]
                                 ELSE IF v[p] = Zero THEN u[p] ELSE Junk]
Wide(v)   == [p \in 0..63 |-> IF p < 32 THEN v[p] ELSE Zero]
Nothing(size) == [p \in 0..(size - 1) |-> Zero]
Low(v)    == [k \in 0..(bits - 1) |-> v[k]]

-----------------------------------------------------------------------------
(* The row in memory.                                                      *)

WordsPerRow == ((nsub + 31) \div 32) * bits

Word(i) == [p \in 0..31 |-> IF i \in 0..(WordsPerRow - 1) THEN 32 * i + p ELSE Junk]

\* Code n's bits, where every reader must find them.
Code(n) == [k \in 0..(bits - 1) |-> bits * n + k]

\* pack ORs, in 32 passes, the codes at place i of each block into one word
\* of the block, and into the next one where a code straddles two.
OrAll(values) == CASE values \subseteq {Zero}               -> Zero
                   [] Cardinality(values \ {Zero}) = 1      -> CHOOSE x \in values : x # Zero
                   [] OTHER                                 -> Junk
Pass(i, word) ==
  LET off == i * bits
      sh  == off % 32
      v   == Shl([p \in 0..63 |-> IF p < bits THEN off + p ELSE Zero], sh)
  IN IF word = off \div 32 THEN [p \in 0..31 |-> v[p]]
     ELSE IF word = off \div 32 + 1 /\ sh + bits > 32 THEN [p \in 0..31 |-> Shr(v, 32)[p]]
     ELSE Nothing(32)
Packed(word) == [p \in 0..31 |-> OrAll({Pass(i, word)[p] : i \in 0..31})]

-----------------------------------------------------------------------------
(* Readers of one code: `words` are those a reader has loaded.             *)

\* Bits off .. off+bits-1 of a run of words, cut out of one word or of two.
Cut(words, off) ==
  LET i  == off \div 32
      sh == off % 32
      word(x) == IF x \in DOMAIN words THEN words[x] ELSE [p \in 0..31 |-> Junk]
  IN IF sh + bits > 32
     THEN Low(Or(Shr(word(i), sh), Shl(word(i + 1), 32 - sh)))
     ELSE Low(Shr(word(i), sh))

\* VQ_CODE: the words are loaded from the row for each code.
VQ_CODE(n) ==
  LET base == (n \div 32) * bits
  IN Cut([i \in 0..bits |-> Word(base + i)], (n % 32) * bits)

\* unpack and _unpack_rows: all blocks at once, place by place; the padded
\* tail is dropped.
Unpack(n) ==
  LET block == n \div 32
  IN Cut([i \in 0..bits |-> Word(block * bits + i)], (n % 32) * bits)

\* LC(i): the block's words have been copied to registers.
LC(g, i) ==
  LET wbuf == [x \in 0..(bits - 1) |-> Word(g * bits + x)]
  IN Cut(wbuf, i * bits)

\* gemmseg's CVEC: a thread's `span` codes lie in at most six words, loaded
\* once; words it needs no bit of are not read.
CVEC(first, span, i) ==
  LET boff == (first % 32) * bits
      w0   == (first \div 32) * bits + boff \div 32
      sh   == boff % 32
      nw   == (sh + span * bits + 31) \div 32
      wv   == [x \in 0..5 |-> IF x < nw THEN Word(w0 + x) ELSE Nothing(32)]
  IN Cut(wv, sh + i * bits)

\* The d8 twin with registers: a lane's `spg` codes start anywhere in a block,
\* so a window of NW words is loaded and shifted down by the start bit.
NPH(spg) == 32 \div spg
SH0MAX(spg) == ((NPH(spg) - 1) * spg * bits) % 32
NW(spg) == (SH0MAX(spg) + spg * bits + 31) \div 32

Funnel(spg, n) ==
  LET g   == n \div spg
      sb  == (g % NPH(spg)) * spg * bits
      blk == ((g * spg) \div 32) * bits + sb \div 32
      sh0 == sb % 32
      wb  == [x \in 0..NW(spg) |-> IF x < NW(spg) THEN Word(blk + x) ELSE Nothing(32)]
      v   == [x \in 0..(NW(spg) - 1) |->
                IF sh0 = 0 THEN wb[x] ELSE Or(Shr(wb[x], sh0), Shl(wb[x + 1], 32 - sh0))]
  IN Cut(v, (n % spg) * bits)

\* _d8_regbuf_ok: what keeps the window inside the block, for every width.
RegbufOk(spg) ==
  /\ spg \in {8, 16, 32}
  /\ \A b \in 2..16 :
       LET most == (NPH(spg) - 1) * spg * b
       IN (most \div 32) + (((most % 32) + spg * b + 31) \div 32) <= b

\* Bytes of a row, seen as words: the four-at-a-time uint8 reader.
ByteOf(word, i) == [k \in 0..7 |-> word[8 * i + k]]
D2_U32(n) == ByteOf(Word(n \div 4), n % 4)

\* The embedding tables: the three bytes from where a code starts on.
RowBytes == (nsub * bits) \div 8
Byte(i) == [k \in 0..7 |-> IF i < RowBytes THEN 8 * i + k ELSE Zero]
PleUnpack(n) ==
  LET b0 == (n * bits) \div 8
      sh == (n * bits) % 8
      window == [p \in 0..31 |-> IF p < 24 THEN Byte(b0 + p \div 8)[p % 8] ELSE Zero]
  IN Low(Shr(window, sh))

-----------------------------------------------------------------------------
(* The walk.                                                               *)

Init ==
  /\ bits \in Widths
  /\ nsub \in Lengths
  /\ j = 0
  /\ w = 0
  /\ nb = 0
  /\ buf = Nothing(64)
  /\ code = << >>

\* Mutant: the next word is loaded only when the buffer is empty.
FetchWhenEmpty ==
  IF nb = 0
  THEN [w |-> w + 1, nb |-> nb + 32, buf |-> Or(buf, Shl(Wide(Word(w)), nb))]
  ELSE [w |-> w, nb |-> nb, buf |-> buf]

\* if (nb < BITS) { buf |= (ulong)crow[w++] << nb; nb += 32; }
Fetch ==
  IF nb < bits
  THEN [w |-> w + 1, nb |-> nb + 32, buf |-> Or(buf, Shl(Wide(Word(w)), nb))]
  ELSE [w |-> w, nb |-> nb, buf |-> buf]

\* One code of the row: cq = buf & VQ_MASK; buf >>= BITS; nb -= BITS.
Take ==
  /\ j < nsub
  /\ w' = Fetch.w
  /\ code' = Low(Fetch.buf)
  /\ buf' = Shr(Fetch.buf, bits)
  /\ nb' = Fetch.nb - bits
  /\ j' = j + 1
  /\ UNCHANGED <<bits, nsub>>

Next == Take

Spec == Init /\ [][Next]_rowvars

-----------------------------------------------------------------------------
(* What readers must agree on.                                             *)

\* The walk takes the codes in order, one after the other, and never loads a
\* word past the row (the kernels named *_WALK in vq_switch.py).
WalkReadsCodes == /\ j > 0 => code = Code(j - 1)
                  /\ w <= WordsPerRow

\* pack leaves every bit of a block where the readers look for it, and in
\* one place; unpack, the VQ_CODE macro, the dense kernels' registers and
\* CVEC find every code of the row there.
ReadersAgree ==
  j = 0 =>
  /\ \A b \in 0..(bits - 1) : Packed(b) = [p \in 0..31 |-> 32 * b + p]
  /\ \A n \in 0..(nsub - 1) :
       /\ VQ_CODE(n) = Code(n)
       /\ Unpack(n) = Code(n)
       /\ nsub % 32 = 0 => LC(n \div 32, n % 32) = Code(n)
       /\ bits <= 16 => \A span \in {1, 2, 4, 8} :
            nsub % span = 0 => CVEC(n - (n % span), span, n % span) = Code(n)
       /\ bits = 8 /\ nsub % 4 = 0 => D2_U32(n) = Code(n)
       /\ bits <= 17 /\ (nsub * bits) % 8 = 0 => PleUnpack(n) = Code(n)
       /\ RegbufOk(16) /\ bits <= 16 /\ nsub % 16 = 0 => Funnel(16, n) = Code(n)

\* The register-buffered d8 kernel reads what VQ_CODE reads ("Output is
\* bit-identical by construction", vq_switch.py:1715) wherever _d8_regbuf_ok
\* lets it run: at every width the packer emits.
RegbufReadsCodes ==
  (bits \in 2..16 /\ RegbufOk(8) /\ nsub % 8 = 0) =>
     \A n \in 0..(nsub - 1) : Funnel(8, n) = Code(n)

=============================================================================
