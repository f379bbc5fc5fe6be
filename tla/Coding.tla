------------------------------- MODULE Coding -------------------------------
(***************************************************************************)
(* What the two decompressors read and end with, code by code and byte by  *)
(* byte.  The canonical Huffman decoders: inflate.rs's counts and symbols, *)
(* and bzip2.rs's limit, base and perm.  A set of code lengths is a        *)
(* sequence, its n-th element the length of symbol n - 1 (0: no code).  A  *)
(* read answers a symbol, or -1 with the error, and the next position.     *)
(* The checksums: Adler-32 of a zlib stream, kept in two unsigned integers *)
(* that are reduced only every NMax bytes (inflate.rs, adler32_update),    *)
(* and the two table-driven CRCs: the reflected one of gzip and zip        *)
(* (inflate.rs) and bzip2's, most significant bit first.  A byte has       *)
(* ByteBits bits, a register CrcBits.                                      *)
(***************************************************************************)
EXTENDS Integers, Sequences, FiniteSets, SequencesExt, FiniteSetsExt, Bitwise

CONSTANT MaxBits     \* the longest code the format permits

ASSUME HuffmanAssumption == MaxBits \in Nat \ {0}

\* What a limit leaves to write.
Room(limit, written) == Max({limit - written, 0})

Symbol(s, next) == [sym |-> s, next |-> next, error |-> "none"]
NoSymbol(error, next) == [sym |-> -1, next |-> next, error |-> error]

\* A set in the order of Less.
InOrder(S, Less(_, _)) ==
    [k \in 1..Cardinality(S) |->
        CHOOSE x \in S : Cardinality({y \in S : Less(y, x)}) = k - 1]
Ascending(S) == InOrder(S, <)

OfLength(lengths, n) == {i - 1 : i \in {j \in DOMAIN lengths : lengths[j] = n}}
Count(lengths, n) == Cardinality(OfLength(lengths, n))

\* The symbols by length, and by value within one.
CodeOrder(lengths) ==
    FlattenSeq([n \in 1..MaxBits |-> Ascending(OfLength(lengths, n))])

Used(lengths) == {n \in 1..MaxBits : Count(lengths, n) > 0}

\* Bits as a code, the most significant first.
CodeOf(bits) == FoldLeft(LAMBDA v, b : 2 * v + b, 0, bits)
-----------------------------------------------------------------------------
\* The codes of each length left to assign: negative when over-subscribed.
Left(lengths) ==
    LET left[n \in 0..MaxBits] ==
            IF n = 0 THEN 1 ELSE 2 * left[n-1] - Count(lengths, n)
    IN left

\* inflate.rs: Huffman::new rejects what is over-subscribed, and what is
\* incomplete unless it is empty or, where that is allowed, a lone 1-bit code.
Accepts(lengths, lone) ==
    LET left == Left(lengths)
        total == Len(CodeOrder(lengths))
    IN /\ \A i \in DOMAIN lengths : lengths[i] <= MaxBits
       /\ \A n \in 1..MaxBits : left[n] >= 0
       /\ left[MaxBits] > 0 => total = 0 \/ (lone /\ total = 1 /\ Count(lengths, 1) = 1)

Table(lengths) ==
    [counts |-> [n \in 1..MaxBits |-> Count(lengths, n)],
     max |-> IF Used(lengths) = {} THEN 0 ELSE Max(Used(lengths)),
     symbols |-> CodeOrder(lengths), lengths |-> lengths]

\* A bit at a time, until the code is among those of its length; p bits are read.
ReadSymbol(t, bits, p) ==
    LET first[n \in 1..MaxBits] == IF n = 1 THEN 0 ELSE 2 * (first[n-1] + t.counts[n-1])
        index[n \in 1..MaxBits] == IF n = 1 THEN 0 ELSE index[n-1] + t.counts[n-1]
        code(n) == CodeOf(SubSeq(bits, p + 1, p + n))
        hits == {n \in 1..t.max : p + n <= Len(bits) /\ code(n) - first[n] < t.counts[n]}
        n == Min(hits)
    IN IF hits # {} THEN Symbol(t.symbols[index[n] + code(n) - first[n] + 1], p + n)
       ELSE IF p + t.max > Len(bits) THEN NoSymbol("truncated", Len(bits))
       ELSE NoSymbol("malformed", p + t.max)
-----------------------------------------------------------------------------
\* bzip2.rs: any set of lengths in 1..MaxBits is accepted, as libbz2 does.
Limits2(lengths) ==
    LET lo == Min(Used(lengths))
        hi == Max(Used(lengths))
        below[n \in 1..(MaxBits + 1)] ==
            IF n = 1 THEN 0 ELSE below[n-1] + Count(lengths, n - 1)
        vec[n \in lo..hi] == (IF n = lo THEN 0 ELSE 2 * vec[n-1]) + Count(lengths, n)
    IN [min |-> lo, perm |-> CodeOrder(lengths), lengths |-> lengths,
        limit |-> [n \in 1..MaxBits |-> IF n \in lo..hi THEN vec[n] - 1 ELSE 0],
        base |-> [n \in 1..MaxBits |->
                    IF n \in (lo + 1)..hi THEN 2 * vec[n-1] - below[n] ELSE below[n]]]

ReadSymbol2(t, bits, p) ==
    LET code(n) == CodeOf(SubSeq(bits, p + 1, p + n))
        hits == {n \in t.min..MaxBits : p + n <= Len(bits) /\ code(n) <= t.limit[n]}
        n == Min(hits)
        at == code(n) - t.base[n]
    IN IF hits = {}
       THEN IF p + MaxBits + 1 > Len(bits) THEN NoSymbol("truncated", Len(bits))
            ELSE NoSymbol("malformed", p + MaxBits + 1)
       ELSE IF at \in 0..(Len(t.lengths) - 1) THEN Symbol(t.perm[at + 1], p + n)
       ELSE NoSymbol("malformed", p + n)
-----------------------------------------------------------------------------
\* The codes the formats define: within a length consecutive, and each
\* length's first one twice the code after the last of the length before.
CanonicalCode(lengths, s) ==
    LET len == lengths[s + 1]
        first[n \in 1..MaxBits] ==
            IF n = 1 THEN 0 ELSE 2 * (first[n-1] + Count(lengths, n - 1))
        value == first[len] + Cardinality({x \in OfLength(lengths, len) : x < s})
    IN [i \in 1..len |-> (value \div 2^(len - i)) % 2]
-----------------------------------------------------------------------------
CONSTANTS Mod,        \* the modulus of both sums
          NMax,       \* the longest run of bytes between two reductions
          Width,      \* the integers hold 0 .. Width - 1
          MaxByte

ASSUME AdlerAssumption ==
    /\ Mod \in Nat \ {0} /\ NMax \in Nat \ {0} /\ Width \in Nat /\ MaxByte \in Nat
    /\ 2 * (Mod - 1) * (NMax + 1) + MaxByte * NMax * (NMax + 1) < 2 * Width

AdlerInit == <<1, 0>>

\* One byte: both additions wrap at the width.
AdlerByte(s, byte) ==
    LET a == (s[1] + byte) % Width IN <<a, (s[2] + a) % Width>>

Reduce(s) == <<s[1] % Mod, s[2] % Mod>>

\* The bytes in runs of NMax, the sums reduced after each and at the end.
AdlerUpdate(s, data) ==
    LET run[i \in 0..Len(data)] ==
            IF i = 0 THEN s
            ELSE LET t == AdlerByte(run[i-1], data[i])
                 IN IF i % NMax = 0 \/ i = Len(data) THEN Reduce(t) ELSE t
    IN run[Len(data)]

\* The definition of RFC 1950: reduced at every byte.
AdlerOf(data) ==
    LET sum[i \in 0..Len(data)] ==
            IF i = 0 THEN <<1, 0>>
            ELSE LET a == (sum[i-1][1] + data[i]) % Mod IN <<a, (sum[i-1][2] + a) % Mod>>
    IN sum[Len(data)]
-----------------------------------------------------------------------------
CONSTANTS ByteBits, CrcBits, Poly, PolyReflected

Top2 == 2^(CrcBits - ByteBits)
Ones == 2^CrcBits - 1

\* One bit shifted out of the register, in either direction.
ShiftDown(crc) == IF crc % 2 = 1 THEN (crc \div 2) ^^ PolyReflected ELSE crc \div 2
ShiftUp(crc) == IF crc \div 2^(CrcBits - 1) = 1 THEN ((2 * crc) % 2^CrcBits) ^^ Poly
                ELSE (2 * crc) % 2^CrcBits

After(Shift(_), crc, n) == FoldLeft(LAMBDA c, i : Shift(c), crc, [i \in 1..n |-> i])

\* crc32_table and CRC_TABLE: every byte value shifted through the register.
CrcTable == [i \in 0..(2^ByteBits - 1) |-> After(ShiftDown, i, ByteBits)]
CrcTableMsb == [i \in 0..(2^ByteBits - 1) |-> After(ShiftUp, i * Top2, ByteBits)]

\* crc32_update: a register continued over more bytes.
CrcUpdate(crc, data) ==
    FoldLeft(LAMBDA c, b : (c \div 2^ByteBits) ^^ CrcTable[(c ^^ b) % 2^ByteBits], crc, data)

\* crc32_msb: the whole of a block.
CrcMsb(data) ==
    Ones - FoldLeft(LAMBDA c, b : ((c * 2^ByteBits) % 2^CrcBits) ^^
                                  CrcTableMsb[(c \div Top2) ^^ b], Ones, data)

\* The definitions: each byte added to the register, then shifted out.
CrcOfBytes(data) ==
    Ones - FoldLeft(LAMBDA c, b : After(ShiftDown, c ^^ b, ByteBits), Ones, data)
CrcMsbOfBytes(data) ==
    Ones - FoldLeft(LAMBDA c, b : After(ShiftUp, c ^^ (b * Top2), ByteBits), Ones, data)
=============================================================================
