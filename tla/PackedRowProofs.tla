--------------------------- MODULE PackedRowProofs ---------------------------
(***************************************************************************)
(* That a packed code is read as what was packed, by every reader of the    *)
(* runtime, for every width of 1 to 31 bits and every length of a row:      *)
(* pack's places (PackWrites), the readers that cut codes out of words      *)
(* (CutReads and one lemma for each), and the walk that loads each word     *)
(* once, with its inductive invariant (WalkInv).  The row is the part       *)
(* "codes" of MCRuntime.                                                   *)
(***************************************************************************)
EXTENDS MCRuntime, FiniteSetTheorems, TLAPS

-----------------------------------------------------------------------------
(* The packed row (PackedRow): the walk over it.                           *)

bits == v1
nsub == v2
taken == v3
fetched == v4
nb == v5
buf == v6
code == v7

RowTypes == bits \in 1..31 /\ nsub \in Nat /\ taken \in 0..nsub /\ fetched \in Nat /\ nb \in 0..31

\* The bits taken and those in the buffer are all that has been loaded.
Loaded == 32 * fetched = bits * taken + nb

\* The buffer's low nb bits come next in the row; above them it is zero.
Held(start, n) == [p \in 0..63 |-> IF p < n THEN start + p ELSE Codes!Zero]

WalkInv ==
  /\ RowTypes /\ Loaded
  /\ buf = Held(bits * taken, nb)
  /\ taken > 0 => code = Codes!Code(taken - 1)

LEMMA Times ==
  ASSUME NEW a \in Nat, NEW b \in Nat, NEW c \in Nat, a <= b
  PROVE  c * a <= c * b
  BY SMT

LEMMA OneTimeMore ==
  ASSUME NEW a \in Int, NEW b \in Int
  PROVE  a * (b + 1) = a * b + a /\ a * b \in Int
  BY SMT

\* A row has room for all its codes (words_per_row).
LEMMA RowHoldsCodes ==
  ASSUME bits \in 1..31, nsub \in Nat
  PROVE  Codes!WordsPerRow \in Nat /\ bits * nsub <= 32 * Codes!WordsPerRow
  <1> DEFINE q == (nsub + 31) \div 32
  <1>1. q \in Nat /\ nsub <= 32 * q
    BY SMT
  <1>2. bits * nsub <= bits * (32 * q)
    BY <1>1, Times
  <1>3. bits * (32 * q) = 32 * (q * bits) /\ q * bits \in Nat
    BY <1>1, SMT
  <1>4. QED
    BY <1>2, <1>3 DEF Codes!WordsPerRow, bits, nsub

\* Loading a word appends its 32 bits to what the buffer holds.
LEMMA FetchAppends ==
  ASSUME NEW start \in Nat, NEW n \in 0..31, NEW i \in 0..(Codes!WordsPerRow - 1),
         32 * i = start + n
  PROVE  Codes!Or(Held(start, n), Codes!Shl(Codes!Wide(Codes!Word(i)), n)) = Held(start, n + 32)
  <1> DEFINE word == Codes!Word(i)
             wide == Codes!Wide(word)
             sh == Codes!Shl(wide, n)
             held == Held(start, n)
  <1>1. \A p \in 0..31 : word[p] = 32 * i + p
    BY DEF Codes!Word
  <1>2. /\ DOMAIN wide = 0..63
        /\ \A p \in 0..63 : wide[p] = IF p < 32 THEN 32 * i + p ELSE Codes!Zero
    <2>1. wide = [p \in 0..63 |-> IF p < 32 THEN word[p] ELSE Codes!Zero]
      BY DEF Codes!Wide
    <2> HIDE DEF word, wide
    <2>2. ASSUME NEW p \in 0..63
          PROVE  wide[p] = IF p < 32 THEN 32 * i + p ELSE Codes!Zero
      <3>1. CASE p < 32
        BY <3>1, <2>1, <1>1
      <3>2. CASE ~ p < 32
        BY <3>2, <2>1
      <3>3. QED
        BY <3>1, <3>2
    <2>3. QED
      BY <2>1, <2>2
  <1> HIDE DEF word
  <1>3. /\ DOMAIN sh = 0..63
        /\ \A p \in 0..63 : sh[p] = IF p < n THEN Codes!Zero ELSE wide[p - n]
    <2> HIDE DEF wide
    <2>1. n \in DOMAIN wide
      BY <1>2
    <2>2. sh = [p \in 0..63 |-> IF p < n THEN Codes!Zero ELSE wide[p - n]]
      BY <1>2, <2>1 DEF Codes!Shl
    <2>3. QED
      BY <2>2
  <1> HIDE DEF wide
  <1>4. ASSUME NEW p \in 0..63
        PROVE  sh[p] = IF p < n THEN Codes!Zero ELSE IF p < n + 32 THEN start + p ELSE Codes!Zero
    <2> HIDE DEF sh
    <2>1. CASE p < n
      BY <2>1, <1>3
    <2>2. CASE ~ p < n
      <3>1. p - n \in 0..63
        BY <2>2
      <3>2. sh[p] = IF p - n < 32 THEN 32 * i + (p - n) ELSE Codes!Zero
        BY <2>2, <3>1, <1>2, <1>3
      <3>3. QED
        BY <3>2, <2>2
    <2>3. QED
      BY <2>1, <2>2
  <1>5. /\ DOMAIN held = 0..63
        /\ \A p \in 0..63 : held[p] = IF p < n THEN start + p ELSE Codes!Zero
    BY DEF Held
  <1> HIDE DEF sh, held
  <1>6. Codes!Or(held, sh) = [p \in 0..63 |-> IF p < n + 32 THEN start + p ELSE Codes!Zero]
    <2>1. \A p \in 0..63 : (IF held[p] = Codes!Zero THEN sh[p]
                            ELSE IF sh[p] = Codes!Zero THEN held[p] ELSE Codes!Junk)
                           = IF p < n + 32 THEN start + p ELSE Codes!Zero
      BY <1>4, <1>5 DEF Codes!Zero
    <2>2. QED
      BY <2>1, <1>5 DEF Codes!Or
  <1>7. QED
    BY <1>6 DEF held, sh, wide, word, Held

LEMMA ShiftHeld ==
  ASSUME NEW start \in Nat, NEW n \in 0..63, NEW m \in 1..31, m <= n
  PROVE  Codes!Shr(Held(start, n), m) = Held(start + m, n - m)
  <1> DEFINE held == Held(start, n)
  <1>1. /\ DOMAIN held = 0..63
        /\ \A p \in 0..63 : held[p] = IF p < n THEN start + p ELSE Codes!Zero
    BY DEF Held
  <1> HIDE DEF held
  <1>2. Codes!Shr(held, m)
          = [p \in 0..63 |-> IF p + m \in 0..63 THEN held[p + m] ELSE Codes!Zero]
    <2>1. m \in 0..63
      OBVIOUS
    <2>2. QED
      BY <1>1, <2>1 DEF Codes!Shr
  <1>3. \A p \in 0..63 : (IF p + m \in 0..63 THEN held[p + m] ELSE Codes!Zero)
                         = IF p < n - m THEN (start + m) + p ELSE Codes!Zero
    BY <1>1
  <1>4. Codes!Shr(held, m) = [p \in 0..63 |-> IF p < n - m THEN (start + m) + p ELSE Codes!Zero]
    BY <1>2, <1>3, Zenon
  <1>5. Held(start + m, n - m) = [p \in 0..63 |-> IF p < n - m THEN (start + m) + p ELSE Codes!Zero]
    BY DEF Held
  <1>6. QED
    BY <1>4, <1>5 DEF held

\* Taking `bits` bits leaves the rest at the bottom of the buffer.
LEMMA TakeShifts ==
  ASSUME NEW start \in Nat, NEW n \in 0..63, bits \in 1..31, bits <= n
  PROVE  /\ Codes!Low(Held(start, n)) = [k \in 0..(bits - 1) |-> start + k]
         /\ Codes!Shr(Held(start, n), bits) = Held(start + bits, n - bits)
  <1> DEFINE held == Held(start, n)
  <1>1. \A p \in 0..63 : held[p] = IF p < n THEN start + p ELSE Codes!Zero
    BY DEF Held
  <1> HIDE DEF held
  <1>2. Codes!Low(held) = [k \in 0..(bits - 1) |-> start + k]
    BY <1>1 DEF Codes!Low, bits
  <1>3. QED
    BY <1>2, ShiftHeld DEF held

LEMMA WalkStarts ==
  ASSUME Codes!Init
  PROVE  WalkInv
  <1>1. /\ bits \in Widths /\ nsub \in Lengths /\ taken = 0 /\ fetched = 0 /\ nb = 0
        /\ buf = Codes!Nothing(64)
    BY DEF Codes!Init, bits, nsub, taken, fetched, nb, buf
  <1>2. RowTypes /\ bits * taken = 0
    BY <1>1, RowAssumption DEF RowTypes
  <1>3. buf = Held(bits * taken, nb)
    BY <1>1, <1>2 DEF Codes!Nothing, Held
  <1>4. QED
    BY <1>1, <1>2, <1>3 DEF WalkInv, Loaded

LEMMA WalkTakes ==
  ASSUME WalkInv, Codes!Take
  PROVE  WalkInv'
  <1> DEFINE start == bits * taken
             f == Codes!Fetch
  <1>1. /\ bits \in 1..31 /\ nsub \in Nat /\ taken \in 0..nsub /\ fetched \in Nat /\ nb \in 0..31
        /\ 32 * fetched = start + nb /\ buf = Held(start, nb)
    BY DEF WalkInv, RowTypes, Loaded
  <1>2. /\ taken < nsub /\ taken' = taken + 1 /\ fetched' = f.w /\ nb' = f.nb - bits
        /\ code' = Codes!Low(f.buf) /\ buf' = Codes!Shr(f.buf, bits) /\ UNCHANGED <<bits, nsub>>
    BY DEF Codes!Take, bits, nsub, taken, fetched, nb, buf, code
  <1>3. start \in Nat /\ bits * (taken + 1) = start + bits
    BY <1>1, OneTimeMore
  <1>4. f = IF nb < bits
            THEN [w |-> fetched + 1, nb |-> nb + 32,
                  buf |-> Codes!Or(buf, Codes!Shl(Codes!Wide(Codes!Word(fetched)), nb))]
            ELSE [w |-> fetched, nb |-> nb, buf |-> buf]
    BY DEF Codes!Fetch, bits, fetched, nb, buf
  <1> HIDE DEF start, f
  \* What the fetch leaves, whether it loads a word or not.
  <1>5. /\ f.nb \in bits..62 /\ f.nb - bits \in 0..31 /\ f.w \in Nat
        /\ 32 * f.w = start + f.nb /\ f.buf = Held(start, f.nb)
    <2>1. CASE nb < bits
      <3>1. fetched \in 0..(Codes!WordsPerRow - 1)
        <4>1. bits * (taken + 1) <= bits * nsub
          BY <1>1, <1>2, Times
        <4>2. 32 * fetched < 32 * Codes!WordsPerRow
          BY <4>1, <1>1, <1>3, <2>1, RowHoldsCodes
        <4>3. QED
          BY <4>2, <1>1, RowHoldsCodes
      <3>2. Codes!Or(Held(start, nb), Codes!Shl(Codes!Wide(Codes!Word(fetched)), nb))
              = Held(start, nb + 32)
        BY <3>1, <1>1, <1>3, FetchAppends
      <3>3. f = [w |-> fetched + 1, nb |-> nb + 32, buf |-> Held(start, nb + 32)]
        BY <1>1, <1>4, <2>1, <3>2
      <3>4. f.w = fetched + 1 /\ f.nb = nb + 32 /\ f.buf = Held(start, nb + 32)
        BY <3>3
      <3>5. QED
        BY <3>4, <2>1, <1>1, <1>3
    <2>2. CASE ~ nb < bits
      <3>1. f.w = fetched /\ f.nb = nb /\ f.buf = Held(start, nb)
        BY <1>1, <1>4, <2>2
      <3>2. QED
        BY <3>1, <2>2, <1>1, <1>3
    <2>3. QED
      BY <2>1, <2>2
  <1>6. /\ Codes!Low(f.buf) = [k \in 0..(bits - 1) |-> start + k]
        /\ Codes!Shr(f.buf, bits) = Held(start + bits, f.nb - bits)
    <2> DEFINE n == f.nb
    <2>1. n \in 0..63 /\ bits <= n /\ bits \in 1..31 /\ start \in Nat
      BY <1>1, <1>3, <1>5
    <2> HIDE DEF n
    <2>2. /\ Codes!Low(Held(start, n)) = [k \in 0..(bits - 1) |-> start + k]
          /\ Codes!Shr(Held(start, n), bits) = Held(start + bits, n - bits)
      BY <2>1, TakeShifts
    <2>3. QED
      BY <2>2, <1>5 DEF n
  <1>7. RowTypes'
    BY <1>1, <1>2, <1>5 DEF RowTypes
  <1>8. bits' * taken' = start + bits
    BY <1>2, <1>3
  <1>9. Loaded'
    BY <1>1, <1>2, <1>3, <1>5, <1>8 DEF Loaded
  <1>10. buf' = Held(bits' * taken', nb')
    BY <1>2, <1>6, <1>8
  <1>11. code' = Codes!Code(taken - 1)'
    <2>1. taken' - 1 = taken /\ bits' = bits
      BY <1>1, <1>2
    <2>2. Codes!Code(taken - 1)' = [k \in 0..(bits' - 1) |-> bits' * (taken' - 1) + k]
      BY DEF Codes!Code, bits
    <2>3. Codes!Code(taken - 1)' = [k \in 0..(bits - 1) |-> bits * taken + k]
      BY <2>1, <2>2
    <2>4. QED
      BY <2>3, <1>2, <1>6 DEF start
  <1>12. QED
    BY <1>7, <1>9, <1>10, <1>11 DEF WalkInv, Held

\* A word is loaded only while codes remain, so never past the row.
LEMMA WalkHolds ==
  ASSUME WalkInv
  PROVE  Codes!WalkReadsCodes
  <1>1. /\ bits \in 1..31 /\ nsub \in Nat /\ taken \in 0..nsub /\ fetched \in Nat /\ nb \in 0..31
        /\ 32 * fetched = bits * taken + nb /\ (taken > 0 => code = Codes!Code(taken - 1))
    BY DEF WalkInv, RowTypes, Loaded
  <1>2. bits * taken <= bits * nsub
    BY <1>1, Times
  <1>3. 32 * fetched < 32 * Codes!WordsPerRow + 32
    BY <1>1, <1>2, RowHoldsCodes, OneTimeMore
  <1>4. fetched <= Codes!WordsPerRow
    BY <1>1, <1>3, RowHoldsCodes
  <1>5. QED
    BY <1>1, <1>4 DEF Codes!WalkReadsCodes, taken, fetched, code

-----------------------------------------------------------------------------
(* The other readers: what Cut finds in words that hold the row's bits.    *)

\* From bit `off` of the words on lie the addresses a+off, a+off+1, ... of a
\* code's bits.
CodeAt(words, a, off) ==
  \A k \in 0..(bits - 1) :
     /\ (off + k) \div 32 \in DOMAIN words
     /\ DOMAIN words[(off + k) \div 32] = 0..31
     /\ words[(off + k) \div 32][(off + k) % 32] = a + off + k

\* Cut finds them wherever they lie, in one word or in two.
LEMMA CutReads ==
  ASSUME bits \in 1..31, NEW words, NEW a \in Nat, NEW off \in Nat, CodeAt(words, a, off)
  PROVE  Codes!Cut(words, off) = [k \in 0..(bits - 1) |-> a + off + k]
  <1> DEFINE i == off \div 32
             sh == off % 32
             word(x) == IF x \in DOMAIN words THEN words[x] ELSE [p \in 0..31 |-> Codes!Junk]
             low == word(i)
             high == word(i + 1)
  <1>0. \A k \in 0..(bits - 1) :
          /\ (off + k) \div 32 \in DOMAIN words
          /\ DOMAIN words[(off + k) \div 32] = 0..31
          /\ words[(off + k) \div 32][(off + k) % 32] = a + off + k
    BY DEF CodeAt
  <1>1. i \in Nat /\ sh \in 0..31 /\ off = 32 * i + sh
    BY SMT
  <1>2. Codes!Cut(words, off)
          = IF sh + bits > 32
            THEN Codes!Low(Codes!Or(Codes!Shr(low, sh), Codes!Shl(high, 32 - sh)))
            ELSE Codes!Low(Codes!Shr(low, sh))
    BY DEF Codes!Cut, bits
  <1> HIDE DEF i, sh
  <1>3. /\ DOMAIN low = 0..31
        /\ \A k \in 0..(bits - 1) : sh + k < 32 => low[sh + k] = a + off + k
    <2>1. 0 \in 0..(bits - 1) /\ (off + 0) \div 32 = i
      BY <1>1
    <2>2. i \in DOMAIN words /\ DOMAIN words[i] = 0..31
      BY <2>1, <1>0
    <2>3. ASSUME NEW k \in 0..(bits - 1), sh + k < 32
          PROVE  words[i][sh + k] = a + off + k
      <3>1. (off + k) \div 32 = i /\ (off + k) % 32 = sh + k
        BY <1>1, <2>3
      <3>2. QED
        BY <3>1, <1>0
    <2>4. QED
      BY <2>2, <2>3
  <1>4. ASSUME sh + bits > 32
        PROVE  /\ DOMAIN high = 0..31
               /\ \A k \in 0..(bits - 1) : sh + k >= 32 => high[sh + k - 32] = a + off + k
    <2>1. bits - 1 \in 0..(bits - 1) /\ (off + (bits - 1)) \div 32 = i + 1
      BY <1>1, <1>4
    <2>2. i + 1 \in DOMAIN words /\ DOMAIN words[i + 1] = 0..31
      BY <2>1, <1>0
    <2>3. ASSUME NEW k \in 0..(bits - 1), sh + k >= 32
          PROVE  words[i + 1][sh + k - 32] = a + off + k
      <3>1. (off + k) \div 32 = i + 1 /\ (off + k) % 32 = sh + k - 32
        BY <1>1, <2>3
      <3>2. QED
        BY <3>1, <1>0
    <2>4. QED
      BY <2>2, <2>3
  <1> HIDE DEF low, high, word
  <1> DEFINE down == Codes!Shr(low, sh)
             up == Codes!Shl(high, 32 - sh)
  <1>5. /\ DOMAIN down = 0..31
        /\ \A k \in 0..31 : down[k] = IF sh + k < 32 THEN low[sh + k] ELSE Codes!Zero
    <2>1. \A k \in 0..31 : (k + sh \in 0..31 <=> sh + k < 32) /\ k + sh = sh + k
      BY <1>1
    <2>2. sh \in DOMAIN low
      BY <1>1, <1>3
    <2>3. down = [k \in 0..31 |-> IF k + sh \in 0..31 THEN low[k + sh] ELSE Codes!Zero]
      BY <1>3, <2>2 DEF Codes!Shr
    <2>4. QED
      BY <2>1, <2>3
  <1>6. CASE ~ sh + bits > 32
    <2> HIDE DEF down
    <2>1. ASSUME NEW k \in 0..(bits - 1)
          PROVE  k \in 0..31 /\ down[k] = a + off + k
      <3>1. k \in 0..31 /\ sh + k < 32
        BY <1>1, <1>6
      <3>2. down[k] = low[sh + k] /\ low[sh + k] = a + off + k
        BY <3>1, <1>3, <1>5
      <3>3. QED
        BY <3>1, <3>2
    <2>2. Codes!Cut(words, off) = Codes!Low(down)
      BY <1>2, <1>6 DEF down
    <2>3. QED
      BY <2>1, <2>2 DEF Codes!Low, bits
  <1>7. CASE sh + bits > 32
    <2>1. /\ DOMAIN up = 0..31
          /\ \A k \in 0..31 : up[k] = IF sh + k < 32 THEN Codes!Zero ELSE high[sh + k - 32]
      <3>1. 32 - sh \in 0..31
        BY <1>1, <1>7
      <3>2. up = [k \in 0..31 |-> IF k < 32 - sh THEN Codes!Zero ELSE high[k - (32 - sh)]]
        BY <3>1, <1>4, <1>7 DEF Codes!Shl
      <3>3. \A k \in 0..31 : (k < 32 - sh <=> sh + k < 32) /\ k - (32 - sh) = sh + k - 32
        BY <1>1
      <3>4. QED
        BY <3>2, <3>3
    <2> HIDE DEF down, up
    <2> DEFINE both == Codes!Or(down, up)
    <2>2. \A k \in 0..31 : both[k] = IF down[k] = Codes!Zero THEN up[k]
                                     ELSE IF up[k] = Codes!Zero THEN down[k] ELSE Codes!Junk
      BY <1>5 DEF Codes!Or
    <2> HIDE DEF both
    <2>3. ASSUME NEW k \in 0..(bits - 1)
          PROVE  both[k] = a + off + k
      <3>1. k \in 0..31 /\ a + off + k # Codes!Zero
        BY <1>1 DEF Codes!Zero
      <3>2. CASE sh + k < 32
        <4>1. down[k] = a + off + k /\ up[k] = Codes!Zero
          BY <3>1, <3>2, <1>3, <1>5, <2>1
        <4>2. QED
          BY <4>1, <3>1, <2>2
      <3>3. CASE ~ sh + k < 32
        <4>1. down[k] = Codes!Zero /\ up[k] = high[sh + k - 32] /\ sh + k >= 32
          BY <3>1, <3>3, <1>1, <1>5, <2>1
        <4>2. QED
          BY <4>1, <3>1, <2>2, <1>4, <1>7
      <3>4. QED
        BY <3>2, <3>3
    <2>4. Codes!Cut(words, off) = Codes!Low(both)
      BY <1>2, <1>7 DEF both, down, up
    <2>5. QED
      BY <2>3, <2>4 DEF Codes!Low, bits
  <1>8. QED
    BY <1>6, <1>7

\* A word of the row holds its own bits' addresses.
LEMMA WordHolds ==
  ASSUME NEW i \in 0..(Codes!WordsPerRow - 1)
  PROVE  /\ DOMAIN Codes!Word(i) = 0..31
         /\ \A p \in 0..31 : Codes!Word(i)[p] = 32 * i + p
  BY DEF Codes!Word

\* Every bit of a code lies in the row.
LEMMA CodeInRow ==
  ASSUME bits \in 1..31, nsub \in Nat, NEW n \in 0..(nsub - 1), NEW k \in 0..(bits - 1)
  PROVE  bits * n \in Nat /\ bits * n + k < 32 * Codes!WordsPerRow
  <1>1. bits * (n + 1) <= bits * nsub
    BY Times
  <1>2. bits * (n + 1) = bits * n + bits /\ bits * n \in Nat
    BY OneTimeMore, SMT
  <1>3. QED
    BY <1>1, <1>2, RowHoldsCodes

\* A reader that has loaded the words from `base` on, as far as the code
\* goes, and cuts at the code's place among them, reads the code.
LEMMA CutsCode ==
  ASSUME bits \in 1..31, nsub \in Nat, NEW n \in 0..(nsub - 1), NEW words,
         NEW base \in Nat, NEW off \in Nat, 32 * base + off = bits * n,
         \A x \in Nat : x <= (off + bits - 1) \div 32 =>
            x \in DOMAIN words /\ words[x] = Codes!Word(base + x)
  PROVE  Codes!Cut(words, off) = Codes!Code(n)
  <1>1. ASSUME NEW k \in 0..(bits - 1)
        PROVE  /\ (off + k) \div 32 \in DOMAIN words
               /\ DOMAIN words[(off + k) \div 32] = 0..31
               /\ words[(off + k) \div 32][(off + k) % 32] = 32 * base + off + k
    <2> DEFINE x == (off + k) \div 32
               p == (off + k) % 32
    <2>1. x \in Nat /\ p \in 0..31 /\ off + k = 32 * x + p /\ x <= (off + bits - 1) \div 32
      BY SMT
    <2> HIDE DEF x, p
    <2>2. bits * n + k < 32 * Codes!WordsPerRow /\ Codes!WordsPerRow \in Nat
      BY CodeInRow, RowHoldsCodes
    <2>3. base + x \in 0..(Codes!WordsPerRow - 1)
      BY <2>1, <2>2
    <2>4. x \in DOMAIN words /\ words[x] = Codes!Word(base + x)
      BY <2>1
    <2>5. words[x][p] = 32 * (base + x) + p /\ DOMAIN words[x] = 0..31
      BY <2>1, <2>3, <2>4, WordHolds
    <2>6. words[x][p] = 32 * base + off + k
      BY <2>1, <2>5
    <2>7. QED
      BY <2>4, <2>5, <2>6 DEF x, p
  <1>2. Codes!Cut(words, off) = [k \in 0..(bits - 1) |-> 32 * base + off + k]
    <2> DEFINE a == 32 * base
    <2>1. a \in Nat
      OBVIOUS
    <2>2. CodeAt(words, a, off)
      BY <1>1 DEF CodeAt
    <2> HIDE DEF a
    <2>3. Codes!Cut(words, off) = [k \in 0..(bits - 1) |-> a + off + k]
      BY <2>1, <2>2, CutReads, ZenonT(40)
    <2>4. QED
      BY <2>3 DEF a
  <1>3. Codes!Code(n) = [k \in 0..(bits - 1) |-> bits * n + k]
    BY DEF Codes!Code, bits
  <1>4. QED
    BY <1>2, <1>3

\* Where a block, or a group, and a place in it put a code.
LEMMA PlaceInBlock ==
  ASSUME NEW n \in Nat, NEW m \in 1..31
  PROVE  /\ (n \div 32) * m \in Nat /\ (n % 32) * m \in Nat
         /\ 32 * ((n \div 32) * m) + (n % 32) * m = m * n
         /\ (n % 32) * m + m <= 32 * m
  <1> DEFINE q == n \div 32
             r == n % 32
  <1>1. q \in Nat /\ r \in 0..31 /\ n = 32 * q + r
    BY SMT
  <1> HIDE DEF q, r
  <1>2. q * m \in Nat /\ r * m \in Nat /\ m * n = 32 * (q * m) + r * m
    BY <1>1, SMT
  <1>3. m * (r + 1) <= m * 32
    BY <1>1, Times
  <1>4. m * (r + 1) = r * m + m
    BY <1>1, SMT
  <1>5. QED
    BY <1>2, <1>3, <1>4 DEF q, r

\* VQ_CODE, and unpack with it, load a block's words and one more.
LEMMA VqCodeReads ==
  ASSUME bits \in 1..31, nsub \in Nat, NEW n \in 0..(nsub - 1)
  PROVE  Codes!VQ_CODE(n) = Codes!Code(n) /\ Codes!Unpack(n) = Codes!Code(n)
  <1> DEFINE base == (n \div 32) * bits
             off == (n % 32) * bits
             words == [i \in 0..bits |-> Codes!Word(base + i)]
  <1>1. base \in Nat /\ off \in Nat /\ 32 * base + off = bits * n /\ off + bits <= 32 * bits
    BY PlaceInBlock
  <1> HIDE DEF base, off
  <1>2. \A x \in Nat : x <= (off + bits - 1) \div 32 =>
          x \in DOMAIN words /\ words[x] = Codes!Word(base + x)
    <2>1. \A x \in Nat : x <= (off + bits - 1) \div 32 => x \in 0..bits
      BY <1>1
    <2>2. QED
      BY <2>1
  <1> HIDE DEF words
  <1>3. Codes!Cut(words, off) = Codes!Code(n)
    BY <1>1, <1>2, CutsCode, Zenon
  <1>4. Codes!VQ_CODE(n) = Codes!Cut(words, off) /\ Codes!Unpack(n) = Codes!Cut(words, off)
    BY DEF Codes!VQ_CODE, Codes!Unpack, words, base, off, bits
  <1>5. QED
    BY <1>3, <1>4

\* The dense kernels hold no word behind the block's last.
LEMMA LcReads ==
  ASSUME bits \in 1..31, nsub \in Nat, NEW n \in 0..(nsub - 1)
  PROVE  Codes!LC(n \div 32, n % 32) = Codes!Code(n)
  <1> DEFINE base == (n \div 32) * bits
             off == (n % 32) * bits
             words == [x \in 0..(bits - 1) |-> Codes!Word(base + x)]
  <1>1. base \in Nat /\ off \in Nat /\ 32 * base + off = bits * n /\ off + bits <= 32 * bits
    BY PlaceInBlock
  <1> HIDE DEF base, off
  <1>2. \A x \in Nat : x <= (off + bits - 1) \div 32 =>
          x \in DOMAIN words /\ words[x] = Codes!Word(base + x)
    <2>1. \A x \in Nat : x <= (off + bits - 1) \div 32 => x \in 0..(bits - 1)
      BY <1>1
    <2>2. QED
      BY <2>1
  <1> HIDE DEF words
  <1>3. Codes!Cut(words, off) = Codes!Code(n)
    BY <1>1, <1>2, CutsCode, Zenon
  <1>4. Codes!LC(n \div 32, n % 32) = Codes!Cut(words, off)
    BY DEF Codes!LC, words, base, off, bits
  <1>5. QED
    BY <1>3, <1>4

\* A thread's codes end within the words it loads, at most five of its six.
LEMMA CvecReads ==
  ASSUME bits \in 1..16, nsub \in Nat, NEW n \in 0..(nsub - 1), NEW span \in {1, 2, 4, 8}
  PROVE  Codes!CVEC(n - (n % span), span, n % span) = Codes!Code(n)
  <1> DEFINE i == n % span
             first == n - i
             boff == (first % 32) * bits
             w0 == (first \div 32) * bits + boff \div 32
             sh == boff % 32
             nw == (sh + span * bits + 31) \div 32
             wv == [x \in 0..5 |-> IF x < nw THEN Codes!Word(w0 + x) ELSE Codes!Nothing(32)]
             off == sh + i * bits
  <1>1. i \in 0..(span - 1) /\ first \in Nat /\ n = first + i
    <2>1. CASE span = 1
      BY <2>1
    <2>2. CASE span = 2
      BY <2>2
    <2>3. CASE span = 4
      BY <2>3
    <2>4. CASE span = 8
      BY <2>4
    <2>5. QED
      BY <2>1, <2>2, <2>3, <2>4
  <1>2. Codes!CVEC(n - (n % span), span, n % span) = Codes!Cut(wv, off)
    BY DEF Codes!CVEC, bits
  <1> HIDE DEF i, first
  <1>3. /\ boff \in Nat /\ (first \div 32) * bits \in Nat
        /\ 32 * ((first \div 32) * bits) + boff = bits * first
    BY <1>1, PlaceInBlock
  <1> HIDE DEF boff
  <1>4. w0 \in Nat /\ sh \in 0..31 /\ 32 * w0 + sh = bits * first
    BY <1>3
  <1> HIDE DEF w0, sh
  <1>5. /\ i * bits \in Nat /\ span * bits \in Nat /\ span * bits <= 128
        /\ bits * n = bits * first + i * bits
    BY <1>1
  <1>6. i * bits + bits <= span * bits
    <2>1. bits * (i + 1) <= bits * span
      BY <1>1, Times
    <2>2. bits * (i + 1) = i * bits + bits /\ bits * span = span * bits
      BY <1>1
    <2>3. QED
      BY <2>1, <2>2
  <1>7. off \in Nat /\ 32 * w0 + off = bits * n
    BY <1>4, <1>5
  <1>8. \A x \in Nat : x <= (off + bits - 1) \div 32 =>
          x \in DOMAIN wv /\ wv[x] = Codes!Word(w0 + x)
    <2>1. \A x \in Nat : x <= (off + bits - 1) \div 32 => x \in 0..5 /\ x < nw
      BY <1>4, <1>5, <1>6
    <2>2. QED
      BY <2>1
  <1> HIDE DEF wv, off
  <1>9. bits \in 1..31
    OBVIOUS
  <1>10. QED
    BY <1>2, <1>4, <1>7, <1>8, <1>9, CutsCode, Zenon

\* Four one-byte codes in a word.
LEMMA BytesRead ==
  ASSUME bits = 8, nsub \in Nat, NEW n \in 0..(nsub - 1)
  PROVE  Codes!D2_U32(n) = Codes!Code(n)
  <1> DEFINE i == n \div 4
             r == n % 4
  <1>1. i \in Nat /\ r \in 0..3 /\ n = 4 * i + r
    BY SMT
  <1> HIDE DEF i, r
  <1>2. 8 * n + 0 < 32 * Codes!WordsPerRow /\ Codes!WordsPerRow \in Nat
    BY CodeInRow, RowHoldsCodes
  <1>3. i \in 0..(Codes!WordsPerRow - 1)
    BY <1>1, <1>2
  <1>4. \A k \in 0..7 : 8 * r + k \in 0..31 /\ Codes!Word(i)[8 * r + k] = 32 * i + (8 * r + k)
    BY <1>1, <1>3, WordHolds
  <1>5. Codes!D2_U32(n) = [k \in 0..7 |-> Codes!Word(i)[8 * r + k]]
    BY DEF Codes!D2_U32, Codes!ByteOf, i, r
  <1>6. \A k \in 0..7 : Codes!Word(i)[8 * r + k] = 8 * n + k
    BY <1>1, <1>4
  <1>7. Codes!Code(n) = [k \in 0..7 |-> 8 * n + k]
    BY DEF Codes!Code, bits
  <1>8. QED
    BY <1>5, <1>6, <1>7

\* A row of whole bytes: three of them hold any code of up to 17 bits.
LEMMA PleReads ==
  ASSUME bits \in 1..17, nsub \in Nat, (nsub * bits) % 8 = 0, NEW n \in 0..(nsub - 1)
  PROVE  Codes!PleUnpack(n) = Codes!Code(n)
  <1> DEFINE first == n * bits
             b0 == first \div 8
             sh == first % 8
             window == [p \in 0..31 |-> IF p < 24 THEN Codes!Byte(b0 + p \div 8)[p % 8] ELSE Codes!Zero]
             down == Codes!Shr(window, sh)
  <1>1. Codes!PleUnpack(n) = Codes!Low(down)
    BY DEF Codes!PleUnpack, bits
  <1>2. first \in Nat /\ first = bits * n /\ first + bits <= nsub * bits /\ nsub * bits \in Nat
    <2>1. bits * (n + 1) <= bits * nsub
      BY Times
    <2>2. bits * (n + 1) = first + bits /\ bits * nsub = nsub * bits
      OBVIOUS
    <2>3. first \in Nat /\ first = bits * n /\ nsub * bits \in Nat
      BY SMT
    <2>4. QED
      BY <2>1, <2>2, <2>3
  <1> HIDE DEF first
  <1>3. b0 \in Nat /\ sh \in 0..7 /\ first = 8 * b0 + sh
    BY <1>2
  <1>4. Codes!RowBytes \in Nat /\ nsub * bits = 8 * Codes!RowBytes
    BY <1>2 DEF Codes!RowBytes, bits, nsub
  <1> HIDE DEF b0, sh
  <1>5. ASSUME NEW p \in 0..23, 8 * b0 + p < nsub * bits
        PROVE  window[p] = 8 * b0 + p
    <2> DEFINE i == p \div 8
               r == p % 8
    <2>1. i \in 0..2 /\ r \in 0..7 /\ p = 8 * i + r
      BY SMT
    <2>2. window[p] = Codes!Byte(b0 + i)[r]
      OBVIOUS
    <2> HIDE DEF i, r, window
    <2>3. b0 + i < Codes!RowBytes
      BY <2>1, <1>3, <1>4, <1>5
    <2>4. Codes!Byte(b0 + i)[r] = 8 * (b0 + i) + r
      BY <2>1, <2>3 DEF Codes!Byte
    <2>5. QED
      BY <2>1, <2>2, <2>4, <1>3
  <1>6. DOMAIN window = 0..31
    BY Zenon
  <1> HIDE DEF window
  <1>7. \A k \in 0..31 : k + sh \in 0..31 => down[k] = window[k + sh]
    BY <1>3, <1>6 DEF Codes!Shr
  <1> HIDE DEF down
  <1>8. ASSUME NEW k \in 0..(bits - 1)
        PROVE  down[k] = first + k
    <2>1. k \in 0..31 /\ k + sh \in 0..23 /\ 8 * b0 + (k + sh) = first + k /\ first + k < nsub * bits
      BY <1>2, <1>3
    <2>2. window[k + sh] = 8 * b0 + (k + sh)
      BY <2>1, <1>5
    <2>3. down[k] = window[k + sh]
      BY <2>1, <1>7
    <2>4. QED
      BY <2>1, <2>2, <2>3
  <1>9. Codes!Low(down) = [k \in 0..(bits - 1) |-> first + k]
    BY <1>8 DEF Codes!Low, bits
  <1>10. Codes!Code(n) = [k \in 0..(bits - 1) |-> first + k]
    BY <1>2 DEF Codes!Code, bits
  <1>11. QED
    BY <1>1, <1>9, <1>10

\* The window of a group of sixteen: an even width needs no shift; an odd one
\* starts every other group in the middle of a word, and the window then
\* ends with half a word that no code lies in.
LEMMA FunnelReads ==
  ASSUME bits \in 1..16, nsub \in Nat, NEW n \in 0..(nsub - 1)
  PROVE  Codes!Funnel(16, n) = Codes!Code(n)
  <1> DEFINE g == n \div 16
             i == n % 16
             phase == g % Codes!NPH(16)
             half == phase * 16 * bits
             blk == ((g * 16) \div 32) * bits + half \div 32
             sh0 == half % 32
             nw == Codes!NW(16)
             wb == [x \in 0..nw |-> IF x < nw THEN Codes!Word(blk + x) ELSE Codes!Nothing(32)]
             v == [x \in 0..(nw - 1) |->
                     IF sh0 = 0 THEN wb[x] ELSE Codes!Or(Codes!Shr(wb[x], sh0), Codes!Shl(wb[x + 1], 32 - sh0))]
             off == i * bits
  <1>1. Codes!Funnel(16, n) = Codes!Cut(v, off)
    BY DEF Codes!Funnel, bits
  <1>2. /\ g \in Nat /\ i \in 0..15 /\ phase \in 0..1 /\ n = 16 * g + i
        /\ g = 2 * (g \div 2) + phase /\ (g * 16) \div 32 = g \div 2 /\ g \div 2 \in Nat
    BY SMT DEF Codes!NPH
  <1>3. nw = (((16 * bits) % 32) + 16 * bits + 31) \div 32
    BY DEF Codes!NW, Codes!SH0MAX, Codes!NPH, bits
  <1> HIDE DEF g, i, phase, nw
  <1>4. half \in {0, 16 * bits} /\ half = 16 * (phase * bits) /\ half \in Nat
    BY <1>2
  <1>5. /\ off \in Nat /\ off + bits <= 16 * bits
    <2>1. bits * (i + 1) <= bits * 16
      BY <1>2, Times
    <2>2. bits * (i + 1) = off + bits /\ off \in Nat
      BY <1>2
    <2>3. QED
      BY <2>1, <2>2
  <1> DEFINE q == g \div 2
  <1>6. q * bits \in Nat /\ bits * n = 32 * (q * bits) + half + off
    <2>1. n = 32 * q + 16 * phase + i /\ q \in Nat
      BY <1>2
    <2> HIDE DEF q
    <2>2. bits * (32 * q + 16 * phase + i) = 32 * (q * bits) + 16 * (phase * bits) + i * bits
      BY <2>1, <1>2
    <2>3. q * bits \in Nat
      BY <2>1
    <2>4. QED
      BY <2>1, <2>2, <2>3, <1>4
  <1>7. blk = q * bits + half \div 32
    BY <1>2
  <1> HIDE DEF q, half, blk, off
  <1>8. blk \in Nat /\ sh0 \in {0, 16} /\ 32 * blk + sh0 + off = bits * n
    BY <1>4, <1>6, <1>7
  <1>9. sh0 = 16 => bits % 2 = 1
    BY <1>4
  <1> HIDE DEF sh0
  <1>10. bits \in 1..31
    OBVIOUS
  <1>11. CASE sh0 = 0
    <2>1. \A x \in Nat : x <= (off + bits - 1) \div 32 => x \in 0..(nw - 1)
      BY <1>3, <1>5
    <2>2. \A x \in Nat : x <= (off + bits - 1) \div 32 =>
            x \in DOMAIN v /\ v[x] = Codes!Word(blk + x)
      BY <2>1, <1>3, <1>11
    <2> HIDE DEF v
    <2>3. 32 * blk + off = bits * n
      BY <1>8, <1>11
    <2>4. QED
      BY <1>1, <1>5, <1>8, <1>10, <2>2, <2>3, CutsCode, Zenon
  <1>12. CASE sh0 = 16
    <2> DEFINE a == 32 * blk + 16
    <2>1. a \in Nat /\ a + off = bits * n
      BY <1>5, <1>8, <1>12
    <2>2. nw \in Nat /\ 32 * nw = 16 * bits + 16
      BY <1>3, <1>9, <1>12
    <2> HIDE DEF a
    <2>3. ASSUME NEW k \in 0..(bits - 1)
          PROVE  /\ (off + k) \div 32 \in DOMAIN v
                 /\ DOMAIN v[(off + k) \div 32] = 0..31
                 /\ v[(off + k) \div 32][(off + k) % 32] = a + off + k
      <3> DEFINE x == (off + k) \div 32
                 p == (off + k) % 32
                 u == Codes!Word(blk + x)
                 t == wb[x + 1]
                 down == Codes!Shr(u, 16)
                 up == Codes!Shl(t, 16)
      <3>1. x \in Nat /\ p \in 0..31 /\ off + k = 32 * x + p
        BY <1>5
      <3> HIDE DEF x, p
      <3>2. x < nw /\ (p >= 16 => x + 1 < nw)
        BY <3>1, <2>2, <1>5
      <3>3. wb[x] = u /\ DOMAIN v = 0..(nw - 1) /\ x \in 0..(nw - 1)
        BY <3>1, <3>2, <2>2
      <3>4. v[x] = Codes!Or(down, up)
        BY <3>3, <1>12
      <3>5. p >= 16 => t = Codes!Word(blk + (x + 1))
        BY <3>1, <3>2, <2>2
      <3>6. DOMAIN t = 0..31
        <4>1. x + 1 \in 0..nw
          BY <3>1, <3>2, <2>2
        <4>2. t = Codes!Word(blk + (x + 1)) \/ t = Codes!Nothing(32)
          BY <4>1
        <4>3. DOMAIN Codes!Word(blk + (x + 1)) = 0..31
          BY DEF Codes!Word
        <4>4. DOMAIN Codes!Nothing(32) = 0..31
          BY DEF Codes!Nothing
        <4>5. QED
          BY <4>2, <4>3, <4>4
      <3> HIDE DEF wb, v, t
      <3>7. bits * n + k < 32 * Codes!WordsPerRow /\ Codes!WordsPerRow \in Nat
        BY CodeInRow, RowHoldsCodes, <1>10
      <3>8. a + off + k = 32 * (blk + x) + 16 + p
        BY <3>1, <1>5, <1>8 DEF a
      <3>9. /\ p < 16 => blk + x \in 0..(Codes!WordsPerRow - 1)
            /\ p >= 16 => blk + (x + 1) \in 0..(Codes!WordsPerRow - 1)
        BY <3>1, <3>7, <3>8, <2>1, <1>8
      <3>10. DOMAIN u = 0..31
        BY DEF Codes!Word
      <3>11. /\ DOMAIN down = 0..31 /\ 16 \in DOMAIN u
             /\ down[p] = IF p < 16 THEN u[p + 16] ELSE Codes!Zero
        BY <3>1, <3>10 DEF Codes!Shr
      <3>12. up[p] = IF p < 16 THEN Codes!Zero ELSE t[p - 16]
        BY <3>1, <3>6 DEF Codes!Shl
      <3> HIDE DEF down, up
      <3>13. CASE p < 16
        <4>1. p + 16 \in 0..31
          BY <3>1, <3>13
        <4>2. u[p + 16] = 32 * (blk + x) + (p + 16)
          BY <4>1, <3>9, <3>13, WordHolds
        <4>3. down[p] = a + off + k /\ up[p] = Codes!Zero
          BY <4>2, <3>8, <3>11, <3>12, <3>13, <3>1, <1>8
        <4>4. Codes!Or(down, up)[p] = a + off + k /\ DOMAIN Codes!Or(down, up) = 0..31
          BY <4>3, <3>11, <3>1 DEF Codes!Or
        <4>5. QED
          BY <4>4, <3>3, <3>4 DEF x, p
      <3>14. CASE ~ p < 16
        <4>1. p - 16 \in 0..31 /\ p >= 16
          BY <3>1, <3>14
        <4>2. t[p - 16] = 32 * (blk + (x + 1)) + (p - 16)
          BY <4>1, <3>5, <3>9, WordHolds
        <4>3. down[p] = Codes!Zero /\ up[p] = a + off + k
          BY <4>2, <3>8, <3>11, <3>12, <3>14, <3>1, <1>8
        <4>4. Codes!Or(down, up)[p] = a + off + k /\ DOMAIN Codes!Or(down, up) = 0..31
          BY <4>3, <3>11, <3>1 DEF Codes!Or
        <4>5. QED
          BY <4>4, <3>3, <3>4 DEF x, p
      <3>15. QED
        BY <3>13, <3>14
    <2> HIDE DEF v
    <2>4. Codes!Cut(v, off) = [k \in 0..(bits - 1) |-> a + off + k]
      <3>1. a \in Nat
        BY <2>1
      <3>2. off \in Nat
        BY <1>5
      <3>3. CodeAt(v, a, off)
        BY <2>3 DEF CodeAt
      <3>4. QED
        BY <3>1, <3>2, <3>3, <1>10, CutReads, Zenon
    <2>5. Codes!Code(n) = [k \in 0..(bits - 1) |-> bits * n + k]
      BY DEF Codes!Code, bits
    <2>6. QED
      BY <2>1, <2>4, <2>5, <1>1
  <1>13. QED
    BY <1>8, <1>11, <1>12

\* pack's pass over place i writes, into bit p of a block's word, the bit of
\* that place's code that belongs there, or nothing.
LEMMA PassWrites ==
  ASSUME bits \in 1..31, NEW i \in 0..31, NEW word \in Nat, NEW p \in 0..31
  PROVE  Codes!Pass(i, word)[p]
           = IF i * bits <= 32 * word + p /\ 32 * word + p < i * bits + bits
             THEN 32 * word + p ELSE Codes!Zero
  <1> DEFINE off == i * bits
             sh == off % 32
             held == [x \in 0..63 |-> IF x < bits THEN off + x ELSE Codes!Zero]
             v == Codes!Shl(held, sh)
             high == Codes!Shr(v, 32)
             here == 32 * word + p
  <1>1. off \in Nat
    BY SMT
  <1>2. Codes!Pass(i, word)
          = IF word = off \div 32 THEN [x \in 0..31 |-> v[x]]
            ELSE IF word = off \div 32 + 1 /\ sh + bits > 32 THEN [x \in 0..31 |-> high[x]]
            ELSE Codes!Nothing(32)
    BY DEF Codes!Pass, bits
  <1> HIDE DEF off
  <1> DEFINE q == off \div 32
  <1>3. q \in Nat /\ sh \in 0..31 /\ off = 32 * q + sh
    BY <1>1
  <1>4. /\ DOMAIN v = 0..63
        /\ \A x \in 0..63 : v[x] = IF x < sh THEN Codes!Zero
                                   ELSE IF x - sh < bits THEN off + (x - sh) ELSE Codes!Zero
    <2>1. DOMAIN held = 0..63 /\ \A x \in 0..63 : held[x] = IF x < bits THEN off + x ELSE Codes!Zero
      OBVIOUS
    <2> HIDE DEF held, sh
    <2>2. sh \in 0..63
      BY <1>3
    <2>3. v = [x \in 0..63 |-> IF x < sh THEN Codes!Zero ELSE held[x - sh]]
      BY <2>1, <2>2 DEF Codes!Shl
    <2> HIDE DEF v
    <2>4. ASSUME NEW x \in 0..63
          PROVE  v[x] = IF x < sh THEN Codes!Zero
                        ELSE IF x - sh < bits THEN off + (x - sh) ELSE Codes!Zero
      <3>1. CASE x < sh
        BY <3>1, <2>3
      <3>2. CASE ~ x < sh
        <4>1. x - sh \in 0..63
          BY <3>2, <2>2
        <4>2. v[x] = held[x - sh]
          BY <3>2, <2>3
        <4>3. QED
          BY <4>1, <4>2, <3>2, <2>1
      <3>3. QED
        BY <3>1, <3>2
    <2>5. QED
      BY <2>3, <2>4
  <1> HIDE DEF held, v
  <1>5. \A x \in 0..31 : high[x] = v[x + 32]
    BY <1>4 DEF Codes!Shr
  <1> HIDE DEF high, q, sh
  <1>6. CASE word = q
    <2>1. Codes!Pass(i, word)[p] = v[p]
      BY <1>2, <1>6 DEF q
    <2>2. here = off + (p - sh)
      BY <1>3, <1>6
    <2>3. v[p] = IF p < sh THEN Codes!Zero ELSE IF p - sh < bits THEN off + (p - sh) ELSE Codes!Zero
      BY <1>4
    <2>4. /\ off <= here <=> ~ p < sh
          /\ here < off + bits <=> p - sh < bits
      BY <2>2, <1>1, <1>3
    <2>5. QED
      BY <2>1, <2>2, <2>3, <2>4 DEF off
  <1>7. CASE word = q + 1 /\ sh + bits > 32
    <2>1. Codes!Pass(i, word)[p] = high[p] /\ word # q
      BY <1>2, <1>3, <1>7 DEF q
    <2>2. here = off + ((p + 32) - sh) /\ p + 32 \in 0..63 /\ ~ p + 32 < sh
      BY <1>3, <1>7
    <2>3. v[p + 32] = IF (p + 32) - sh < bits THEN off + ((p + 32) - sh) ELSE Codes!Zero
      <3> DEFINE x == p + 32
      <3>1. x \in 0..63 /\ ~ x < sh
        BY <2>2
      <3> HIDE DEF x
      <3>2. v[x] = IF x - sh < bits THEN off + (x - sh) ELSE Codes!Zero
        BY <3>1, <1>4
      <3>3. x = p + 32
        BY DEF x
      <3>4. QED
        BY <3>2, <3>3, Zenon
    <2>4. /\ off <= here
          /\ here < off + bits <=> (p + 32) - sh < bits
      BY <2>2, <1>1, <1>3
    <2>5. QED
      BY <2>1, <2>2, <2>3, <2>4, <1>5 DEF off
  <1>8. CASE word # q /\ ~ (word = q + 1 /\ sh + bits > 32)
    <2>1. Codes!Pass(i, word)[p] = Codes!Zero
      BY <1>2, <1>8 DEF Codes!Nothing, q
    <2>2. ~ (off <= here /\ here < off + bits)
      BY <1>1, <1>3, <1>8
    <2>3. QED
      BY <2>1, <2>2 DEF off
  <1>9. QED
    BY <1>6, <1>7, <1>8

\* A bit of a block belongs to one code: halving the block five times
\* finds its place.
LEMMA Halve ==
  ASSUME NEW m \in 1..31, NEW x \in Nat, NEW i \in Nat, NEW h \in {1, 2, 4, 8, 16},
         i * m <= x, x < i * m + 2 * h * m
  PROVE  \E e \in {i, i + h} : e * m <= x /\ x < e * m + h * m
  <1>1. (i + h) * m = i * m + h * m /\ 2 * h * m = h * m + h * m
    BY SMT
  <1>2. CASE x < i * m + h * m
    BY <1>2
  <1>3. CASE ~ x < i * m + h * m
    <2>1. (i + h) * m <= x /\ x < (i + h) * m + h * m
      BY <1>1, <1>3
    <2>2. QED
      BY <2>1
  <1>4. QED
    BY <1>2, <1>3

LEMMA OnePlace ==
  ASSUME NEW m \in 1..31, NEW x \in Nat, x < 32 * m
  PROVE  \E i \in 0..31 : /\ i * m <= x /\ x < i * m + m
                          /\ \A k \in 0..31 : (k * m <= x /\ x < k * m + m) => k = i
  <1>1. PICK a \in {0, 16} : a * m <= x /\ x < a * m + 16 * m
    <2>1. 0 * m <= x /\ x < 0 * m + 2 * 16 * m
      OBVIOUS
    <2>2. QED
      BY <2>1, Halve
  <1>2. PICK b \in {a, a + 8} : b * m <= x /\ x < b * m + 8 * m
    BY <1>1, Halve
  <1>3. PICK c \in {b, b + 4} : c * m <= x /\ x < c * m + 4 * m
    BY <1>1, <1>2, Halve
  <1>4. PICK d \in {c, c + 2} : d * m <= x /\ x < d * m + 2 * m
    BY <1>1, <1>2, <1>3, Halve
  <1>5. PICK i \in {d, d + 1} : i * m <= x /\ x < i * m + 1 * m
    BY <1>1, <1>2, <1>3, <1>4, Halve
  <1>6. i \in 0..31 /\ i * m <= x /\ x < i * m + m
    BY <1>1, <1>2, <1>3, <1>4, <1>5
  <1>7. ASSUME NEW k \in 0..31, k * m <= x, x < k * m + m
        PROVE  k = i
    <2>1. CASE k < i
      <3>1. m * (k + 1) <= m * i
        BY <2>1, <1>6, Times
      <3>2. m * (k + 1) = k * m + m /\ m * i = i * m
        BY <1>6
      <3>3. QED
        BY <3>1, <3>2, <1>6, <1>7
    <2>2. CASE i < k
      <3>1. m * (i + 1) <= m * k
        BY <2>2, <1>6, Times
      <3>2. m * (i + 1) = m * i + m /\ m * i = i * m /\ m * k = k * m
        BY <1>6, OneTimeMore
      <3>3. QED
        BY <3>1, <3>2, <1>6, <1>7
    <2>3. QED
      BY <2>1, <2>2, <1>6
  <1>8. QED
    BY <1>6, <1>7

\* pack leaves each bit of a block where Code says, and in one place.
LEMMA PackWrites ==
  ASSUME bits \in 1..31, NEW b \in 0..(bits - 1)
  PROVE  Codes!Packed(b) = [p \in 0..31 |-> 32 * b + p]
  <1>0. b \in Nat
    OBVIOUS
  <1>1. ASSUME NEW p \in 0..31
        PROVE  Codes!OrAll({Codes!Pass(i, b)[p] : i \in 0..31}) = 32 * b + p
    <2> DEFINE here == 32 * b + p
               values == {Codes!Pass(i, b)[p] : i \in 0..31}
    <2>1. here \in Nat /\ here < 32 * bits /\ here # Codes!Zero
      BY DEF Codes!Zero
    <2>2. ASSUME NEW i \in 0..31
          PROVE  Codes!Pass(i, b)[p]
                   = IF i * bits <= here /\ here < i * bits + bits THEN here ELSE Codes!Zero
      BY <1>0, PassWrites, Zenon
    <2> HIDE DEF here
    <2>3. PICK i \in 0..31 : /\ i * bits <= here /\ here < i * bits + bits
                             /\ \A k \in 0..31 : (k * bits <= here /\ here < k * bits + bits) => k = i
      BY <2>1, OnePlace
    <2>4. here \in values
      BY <2>2, <2>3
    <2>5. \A x \in values : x = here \/ x = Codes!Zero
      BY <2>2
    <2> HIDE DEF values
    <2>6. values \ {Codes!Zero} = {here}
      BY <2>1, <2>4, <2>5
    <2>7. ~ values \subseteq {Codes!Zero}
      BY <2>1, <2>4
    <2>8. Cardinality(values \ {Codes!Zero}) = 1
      BY <2>6, FS_Singleton
    <2>9. (CHOOSE x \in values : x # Codes!Zero) = here
      BY <2>1, <2>4, <2>5
    <2>10. Codes!OrAll(values) = here
      <3> DEFINE card == Cardinality(values \ {Codes!Zero})
                 chosen == CHOOSE x \in values : x # Codes!Zero
      <3>1. Codes!OrAll(values) = CASE values \subseteq {Codes!Zero} -> Codes!Zero
                                    [] card = 1                     -> chosen
                                    [] OTHER                        -> Codes!Junk
        BY DEF Codes!OrAll
      <3>2. card = 1 /\ chosen = here
        BY <2>8, <2>9
      <3> HIDE DEF card, chosen
      <3>3. QED
        BY <3>1, <3>2, <2>7
    <2>11. QED
      BY <2>10 DEF values, here
  <1>2. Codes!Packed(b) = [p \in 0..31 |-> Codes!OrAll({Codes!Pass(i, b)[p] : i \in 0..31})]
    BY DEF Codes!Packed
  <1>3. QED
    BY <1>1, <1>2

\* Whatever the width and the row: pack's places and every reader's agree.
LEMMA AllReadersAgree ==
  ASSUME bits \in 1..31, nsub \in Nat
  PROVE  Codes!ReadersAgree
  <1>1. \A b \in 0..(bits - 1) : Codes!Packed(b) = [p \in 0..31 |-> 32 * b + p]
    BY PackWrites
  <1>2. ASSUME NEW n \in 0..(nsub - 1)
        PROVE  /\ Codes!VQ_CODE(n) = Codes!Code(n)
               /\ Codes!Unpack(n) = Codes!Code(n)
               /\ Codes!LC(n \div 32, n % 32) = Codes!Code(n)
    BY VqCodeReads, LcReads
  <1>3. ASSUME NEW n \in 0..(nsub - 1), bits <= 16, NEW span \in {1, 2, 4, 8}
        PROVE  Codes!CVEC(n - (n % span), span, n % span) = Codes!Code(n)
    <2>1. bits \in 1..16
      BY <1>3
    <2>2. QED
      BY <2>1, CvecReads
  <1>4. ASSUME NEW n \in 0..(nsub - 1), bits = 8
        PROVE  Codes!D2_U32(n) = Codes!Code(n)
    BY <1>4, BytesRead
  <1>5. ASSUME NEW n \in 0..(nsub - 1), bits <= 17, (nsub * bits) % 8 = 0
        PROVE  Codes!PleUnpack(n) = Codes!Code(n)
    <2>1. bits \in 1..17
      BY <1>5
    <2>2. QED
      BY <2>1, <1>5, PleReads
  <1>6. ASSUME NEW n \in 0..(nsub - 1), bits <= 16
        PROVE  Codes!Funnel(16, n) = Codes!Code(n)
    <2>1. bits \in 1..16
      BY <1>6
    <2>2. QED
      BY <2>1, FunnelReads
  <1>7. QED
    BY <1>1, <1>2, <1>3, <1>4, <1>5, <1>6, Zenon DEF Codes!ReadersAgree, bits, nsub

LEMMA RowStays ==
  ASSUME WalkInv, UNCHANGED vs
  PROVE  WalkInv'
  BY DEF WalkInv, RowTypes, Loaded, Held, Codes!Code, vs, bits, nsub, taken, fetched, nb, buf, code

LEMMA RowHolds ==
  ASSUME WalkInv
  PROVE  Codes!WalkReadsCodes /\ Codes!ReadersAgree
  BY WalkHolds, AllReadersAgree DEF WalkInv, RowTypes

\* The walk (the kernels named *_WALK of vq_switch.py) takes a row's codes in
\* order and loads no word past it, for every width and every length.
THEOREM WalkIsRight == Codes!Spec => []Codes!WalkReadsCodes
  <1>1. Codes!Init => WalkInv
    BY WalkStarts
  <1>2. WalkInv /\ [Codes!Next]_(Codes!rowvars) => WalkInv'
    <2>1. WalkInv /\ Codes!Next => WalkInv'
      BY WalkTakes DEF Codes!Next
    <2>2. WalkInv /\ UNCHANGED Codes!rowvars => WalkInv'
      BY DEF WalkInv, RowTypes, Loaded, Held, Codes!Code, Codes!rowvars,
             bits, nsub, taken, fetched, nb, buf, code
    <2>3. QED
      BY <2>1, <2>2
  <1>3. WalkInv => Codes!WalkReadsCodes
    BY WalkHolds
  <1>4. QED
    BY <1>1, <1>2, <1>3, PTL DEF Codes!Spec

\* In the composition the readers that cut codes out of words find the same
\* ones, where pack put them.
THEOREM RuntimeCodes == RuntimeSpec => []CodesAreRead
  <1> DEFINE Inv == part = "codes" => WalkInv
  <1>1. RuntimeInit => Inv
    BY WalkStarts DEF RuntimeInit
  <1>2. Inv /\ [RuntimeNext]_<<part, vars, vs>> => Inv'
    <2>1. RuntimeNext => part' = part /\ (part = "codes" => Codes!Take)
      BY DEF RuntimeNext, Codes!Next
    <2>2. ASSUME Inv, RuntimeNext
          PROVE  Inv'
      BY <2>1, <2>2, WalkTakes
    <2>3. ASSUME Inv, UNCHANGED <<part, vars, vs>>
          PROVE  Inv'
      BY <2>3, RowStays
    <2>4. QED
      BY <2>2, <2>3
  <1>3. Inv => CodesAreRead
    BY RowHolds DEF CodesAreRead
  <1>4. QED
    BY <1>1, <1>2, <1>3, PTL DEF RuntimeSpec

=============================================================================
