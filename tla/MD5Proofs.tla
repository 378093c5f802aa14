----------------------------- MODULE MD5Proofs -----------------------------
(***************************************************************************)
(* Proofs about MD5.tla: the counting and the buffering of update and      *)
(* digest, for every size of bytes, words and blocks, every message and    *)
(* every way to cut it into pieces.                                        *)
(*                                                                         *)
(* Where a piece goes in the buffer follows from _count, and what _count   *)
(* says is only the length modulo its range; that this is enough rests on  *)
(* the bits of a block dividing the range of a word (IndexCounted).        *)
(***************************************************************************)
EXTENDS MD5, SequenceTheorems, TLAPS

-----------------------------------------------------------------------------
(* Division.                                                               *)

LEMMA MulMono ==
    ASSUME NEW a \in Nat, NEW b \in Nat, NEW c \in Nat, a <= b
    PROVE  c * a <= c * b
OBVIOUS

LEMMA DivMod ==
    ASSUME NEW a \in Nat, NEW b \in Nat \ {0}
    PROVE  /\ a \div b \in Nat /\ a % b \in Nat /\ a % b < b
           /\ a = b * (a \div b) + (a % b)
OBVIOUS

LEMMA DivUnique ==
    ASSUME NEW b \in Nat \ {0}, NEW q \in Nat, NEW r \in Nat, r < b,
           NEW p \in Nat, NEW s \in Nat, s < b, b * q + r = b * p + s
    PROVE  q = p /\ r = s
<1> DEFINE x == b * q
           y == b * p
<1>1. x \in Nat /\ y \in Nat /\ x + r = y + s
  OBVIOUS
<1>2. ~(q < p)
  <2>1. SUFFICES ASSUME q < p PROVE FALSE
    OBVIOUS
  <2>2. b * (q + 1) <= b * p /\ b * (q + 1) = b * q + b
    BY <2>1, MulMono
  <2>3. x + b <= y
    BY <2>2
  <2> HIDE DEF x, y
  <2> QED BY <1>1, <2>3
<1>3. ~(p < q)
  <2>1. SUFFICES ASSUME p < q PROVE FALSE
    OBVIOUS
  <2>2. b * (p + 1) <= b * q /\ b * (p + 1) = b * p + b
    BY <2>1, MulMono
  <2>3. y + b <= x
    BY <2>2
  <2> HIDE DEF x, y
  <2> QED BY <1>1, <2>3
<1>4. q = p
  BY <1>2, <1>3
<1>5. x = y
  BY <1>4
<1> HIDE DEF x, y
<1> QED BY <1>1, <1>4, <1>5

LEMMA DivModOf ==
    ASSUME NEW b \in Nat \ {0}, NEW q \in Nat, NEW r \in Nat, r < b,
           NEW a, a = b * q + r
    PROVE  a \div b = q /\ a % b = r
<1>1. a \in Nat
  OBVIOUS
<1>2. PICK p, s : p = a \div b /\ s = a % b
  OBVIOUS
<1>3. p \in Nat /\ s \in Nat /\ s < b /\ a = b * p + s
  BY <1>1, <1>2, DivMod
<1> QED BY <1>2, <1>3, DivUnique

-----------------------------------------------------------------------------
(* The count.                                                              *)

Words == 0..(Word - 1)

\* The count says t, as far as it can.
Counted(count, t) ==
    /\ count \in Words \X Words
    /\ count[1] + Word * count[2] = (t * Bits) % Wide

LEMMA Sizes ==
    /\ Word \in Nat \ {0} /\ Bits \in Nat \ {0} /\ BlockSize \in Nat \ {0}
    /\ Wide \in Nat \ {0} /\ Wide = Word * Word
    /\ LengthBytes \in Nat \ {0} /\ LengthBytes < BlockSize
    /\ MaxBytes \in Nat
<1>1. Word \in Nat \ {0} /\ Bits \in Nat \ {0} /\ BlockSize \in Nat \ {0}
  BY MD5Assumption
<1>2. Wide = Word * Word
  BY DEF Wide
<1>3. Wide \in Nat \ {0}
  <2> HIDE DEF Word
  <2> QED BY <1>1, <1>2
<1>4. LengthBytes \in Nat \ {0} /\ LengthBytes < BlockSize
  BY MD5Assumption DEF LengthBytes
<1> QED BY <1>1, <1>2, <1>3, <1>4, MD5Assumption

\* The two words, as quotient and remainder.
LEMMA CountedMeans ==
    ASSUME NEW count, NEW t \in Nat, Counted(count, t)
    PROVE  \E p \in Nat : t * Bits = Word * (Word * p + count[2]) + count[1]
<1>1. t * Bits \in Nat
  BY Sizes
<1>2. PICK p : p = (t * Bits) \div Wide
  OBVIOUS
<1>3. p \in Nat /\ t * Bits = Wide * p + ((t * Bits) % Wide)
  BY <1>1, <1>2, Sizes, DivMod
<1>4. PICK a, b : a = count[1] /\ b = count[2]
  OBVIOUS
<1>5. a \in Nat /\ b \in Nat /\ a + Word * b = (t * Bits) % Wide
  BY <1>4, Sizes DEF Counted, Words
<1>6. t * Bits = Word * Word * p + (a + Word * b)
  BY <1>3, <1>5, Sizes
<1>7. Word * Word * p + (a + Word * b) = Word * (Word * p + b) + a
  BY <1>3, <1>5, Sizes
<1> QED BY <1>3, <1>4, <1>6, <1>7

LEMMA CountedIs ==
    ASSUME NEW lo \in Words, NEW hi \in Words, NEW t \in Nat, NEW p \in Nat,
           t * Bits = Word * (Word * p + hi) + lo
    PROVE  Counted(<<lo, hi>>, t)
<1>0. PICK W : W = Word
  OBVIOUS
<1>1. W \in Nat \ {0} /\ lo \in Nat /\ hi \in Nat /\ lo < W /\ hi + 1 <= W
      /\ Wide = W * W /\ Wide \in Nat \ {0}
  BY <1>0, Sizes DEF Words
<1>2. lo + W * hi \in Nat
  BY <1>1
<1>3. lo + W * hi < Wide
  <2>1. W * (hi + 1) <= W * W /\ W * (hi + 1) = W * hi + W
    BY <1>1, MulMono
  <2>2. PICK x : x = W * hi /\ x \in Nat
    BY <1>1
  <2> QED BY <1>1, <2>1, <2>2
<1>4. t * Bits = Wide * p + (lo + W * hi)
  BY <1>0, <1>1
<1>5. (t * Bits) % Wide = lo + W * hi
  BY <1>1, <1>2, <1>3, <1>4, DivModOf
<1> QED BY <1>0, <1>5 DEF Counted

\* Adding n bytes: the carry is taken when the low word wraps, and only then.
LEMMA AddCounted ==
    ASSUME NEW count, NEW t \in Nat, NEW n \in Nat, Counted(count, t)
    PROVE  Counted(AddCount(count, n), t + n)
<1>1. PICK W, a, b, d, add, low, carry, high :
         /\ W = Word /\ a = count[1] /\ b = count[2]
         /\ d = (n * Bits) \div Word /\ add = (n * Bits) % Word
         /\ low = (a + add) % Word /\ carry = IF low < add THEN 1 ELSE 0
         /\ high = (b + carry + d) % Word
  OBVIOUS
<1>2. AddCount(count, n) = <<low, high>>
  BY <1>1 DEF AddCount
<1>3. /\ W \in Nat \ {0} /\ a \in Nat /\ b \in Nat /\ a < W /\ b < W
      /\ n * Bits \in Nat /\ t * Bits \in Nat
  BY <1>1, Sizes DEF Counted, Words
<1>4. d \in Nat /\ add \in Nat /\ add < W /\ n * Bits = W * d + add
  BY <1>1, <1>3, DivMod
<1>5. low \in Nat /\ low < W /\ carry \in {0, 1} /\ a + add = W * carry + low
  <2>1. CASE a + add < W
    <3>1. a + add = W * 0 + (a + add) /\ a + add \in Nat
      BY <1>3, <1>4
    <3>2. low = a + add
      BY <1>1, <1>3, <2>1, <3>1, DivModOf
    <3>3. ~(low < add)
      BY <1>3, <1>4, <3>2
    <3>4. carry = 0
      BY <1>1, <3>3
    <3>5. W * carry = 0
      BY <1>3, <3>4
    <3> QED BY <1>3, <1>4, <2>1, <3>2, <3>4, <3>5
  <2>2. CASE ~(a + add < W)
    <3>1. a + add = W * 1 + (a + add - W) /\ a + add - W \in Nat
          /\ a + add - W < W
      BY <1>3, <1>4, <2>2
    <3>2. low = a + add - W
      BY <1>1, <1>3, <3>1, DivModOf
    <3>3. low < add
      BY <1>3, <1>4, <3>1, <3>2
    <3>4. carry = 1
      BY <1>1, <3>3
    <3>5. W * carry = W
      BY <1>3, <3>4
    <3> QED BY <1>3, <1>4, <3>1, <3>2, <3>4, <3>5
  <2> QED BY <2>1, <2>2
<1>6. PICK q : q = (b + carry + d) \div Word
  OBVIOUS
<1>7. /\ q \in Nat /\ high \in Nat /\ high < W /\ b + carry + d = W * q + high
  <2>1. b + carry + d \in Nat
    BY <1>3, <1>4, <1>5
  <2> QED BY <1>1, <1>3, <1>6, <2>1, DivMod
<1>8. PICK p \in Nat : t * Bits = W * (W * p + b) + a
  BY <1>1, CountedMeans
<1>9. (t + n) * Bits = t * Bits + n * Bits
  BY Sizes
<1>10. (t + n) * Bits = W * (W * (p + q) + high) + low
  <2>1. t * Bits + n * Bits = (W * (W * p + b) + a) + (W * d + add)
    BY <1>4, <1>8
  <2>2. (W * (W * p + b) + a) + (W * d + add)
           = W * (W * p + b) + W * d + (W * carry + low)
    <3>1. PICK x, y : x = W * (W * p + b) /\ y = W * d /\ x \in Nat /\ y \in Nat
      BY <1>3, <1>4
    <3>2. PICK z : z = W * carry /\ z \in Nat
      BY <1>3, <1>5
    <3> QED BY <1>3, <1>4, <1>5, <3>1, <3>2
  <2>3. W * (W * p + b) + W * d + (W * carry + low)
           = W * (W * p + (b + carry + d)) + low
    <3>1. carry \in Nat
      BY <1>5
    <3> QED BY <1>3, <1>4, <1>5, <3>1
  <2>4. W * (W * p + (b + carry + d)) + low = W * (W * p + (W * q + high)) + low
    BY <1>7
  <2>5. W * p + (W * q + high) = W * (p + q) + high
    BY <1>3, <1>7
  <2> QED BY <1>9, <2>1, <2>2, <2>3, <2>4, <2>5
<1>11. low \in Words /\ high \in Words /\ t + n \in Nat /\ p + q \in Nat
  BY <1>1, <1>3, <1>5, <1>7 DEF Words
<1> QED BY <1>1, <1>2, <1>10, <1>11, CountedIs

\* The place in the buffer.
LEMMA IndexCounted ==
    ASSUME NEW count, NEW t \in Nat, Counted(count, t)
    PROVE  Index(count) = t % BlockSize
<1>1. PICK W, a, b : W = Word /\ a = count[1] /\ b = count[2]
  OBVIOUS
<1>2. a \in Nat /\ b \in Nat /\ a < W /\ W \in Nat \ {0}
  BY <1>1, Sizes DEF Counted, Words
<1>3. PICK p \in Nat : t * Bits = W * (W * p + b) + a
  BY <1>1, CountedMeans
<1>4. PICK B, K : B = BlockSize /\ K = Bits
  OBVIOUS
<1>5. B \in Nat \ {0} /\ K \in Nat \ {0} /\ B * K \in Nat \ {0}
  BY <1>4, Sizes
<1>6. PICK J \in Nat : W = B * K * J
  <2>1. W % (B * K) = 0
    BY <1>1, <1>4, MD5Assumption
  <2>2. PICK M, j : M = B * K /\ j = W \div M
    OBVIOUS
  <2>3. j \in Nat /\ W % M = 0 /\ W = M * j + (W % M) /\ M \in Nat
    BY <1>2, <1>5, <2>1, <2>2, DivMod
  <2>4. W = M * j
    BY <2>3
  <2>5. W = B * K * j
    BY <2>2, <2>4
  <2> QED BY <2>3, <2>5
<1>7. PICK x : x = W * p + b /\ x \in Nat
  BY <1>2, <1>3
<1>8. PICK z : z = B * (J * x) /\ z \in Nat
  BY <1>5, <1>6, <1>7
<1>9. K * t = K * z + a
  <2>1. t * K = B * K * J * x + a
    BY <1>3, <1>4, <1>6, <1>7
  <2>2. B * K * J * x = K * (B * (J * x))
    BY <1>5, <1>6, <1>7
  <2> QED BY <1>5, <1>8, <2>1, <2>2
<1>10. z <= t
  <2>1. SUFFICES ASSUME t + 1 <= z PROVE FALSE
    BY <1>8
  <2>2. K * (t + 1) <= K * z /\ K * (t + 1) = K * t + K
    BY <1>5, <1>8, <2>1, MulMono
  <2>3. PICK v, w : v = K * t /\ w = K * z /\ v \in Nat /\ w \in Nat
    BY <1>5, <1>8
  <2> QED BY <1>2, <1>5, <1>9, <2>2, <2>3
<1>11. a = K * (t - z) + 0 /\ t - z \in Nat
  <2>1. t - z \in Nat
    BY <1>8, <1>10
  <2>2. K * (t - z) = K * t - K * z
    BY <1>5, <1>8, <2>1
  <2>3. PICK v, w : v = K * t /\ w = K * z /\ v \in Nat /\ w \in Nat
    BY <1>5, <1>8
  <2> QED BY <1>2, <1>9, <2>1, <2>2, <2>3
<1>12. a \div K = t - z
  BY <1>5, <1>11, DivModOf
<1>13. PICK q, r : q = (t - z) \div B /\ r = (t - z) % B
  OBVIOUS
<1>14. q \in Nat /\ r \in Nat /\ r < B /\ t - z = B * q + r
  BY <1>5, <1>11, <1>13, DivMod
<1>15. t = B * (J * x + q) + r /\ J * x + q \in Nat
  <2>1. J * x + q \in Nat /\ B * (J * x + q) = B * (J * x) + B * q
    BY <1>5, <1>6, <1>7, <1>14
  <2>2. PICK v : v = B * q /\ v \in Nat
    BY <1>5, <1>14
  <2> QED BY <1>8, <1>14, <2>1, <2>2
<1>16. t % B = r
  BY <1>5, <1>14, <1>15, DivModOf
<1> QED BY <1>1, <1>4, <1>12, <1>13, <1>16 DEF Index

-----------------------------------------------------------------------------
(* What update does to an object.                                          *)

Shaped(o) == /\ DOMAIN o = {"_count", "_state", "_finished", "_buffer"}
             /\ DOMAIN o._buffer = 0..(BlockSize - 1)

\* The object after update, field by field: the piece does not fill the
\* block in the buffer ...
LEMMA UpdateShort ==
    ASSUME NEW o, Shaped(o), NEW input,
           Len(input) < BlockSize - Index(o._count)
    PROVE  LET u == Update(o, input)
           IN  /\ DOMAIN u = DOMAIN o /\ u._state = o._state
               /\ u._count = AddCount(o._count, Len(input))
               /\ u._buffer = Copy(o._buffer, Index(o._count), input)
BY DEF Update, Absorb, Shaped

\* ... and it does.
LEMMA UpdateLong ==
    ASSUME NEW o, Shaped(o), NEW input,
           ~(Len(input) < BlockSize - Index(o._count))
    PROVE  LET u == Update(o, input)
               part == BlockSize - Index(o._count)
               more == (Len(input) - part) \div BlockSize
               filled == Copy(o._buffer, Index(o._count), SubSeq(input, 1, part))
           IN  /\ DOMAIN u = DOMAIN o
               /\ u._count = AddCount(o._count, Len(input))
               /\ u._state = o._state \o <<Block(filled)>>
                                      \o Blocks(input, part, more)
               /\ u._buffer = Copy(filled, 0,
                    SubSeq(input, part + more * BlockSize + 1, Len(input)))
BY DEF Update, Absorb, Shaped

LEMMA CopyDomain ==
    ASSUME NEW buffer, NEW at, NEW bytes
    PROVE  DOMAIN Copy(buffer, at, bytes) = DOMAIN buffer
BY DEF Copy

LEMMA UpdateShape ==
    ASSUME NEW o, Shaped(o), NEW input
    PROVE  /\ Shaped(Update(o, input))
           /\ Update(o, input)._count = AddCount(o._count, Len(input))
<1>1. CASE Len(input) < BlockSize - Index(o._count)
  BY <1>1, UpdateShort, CopyDomain DEF Shaped
<1>2. CASE ~(Len(input) < BlockSize - Index(o._count))
  <2>0. PICK at, part, piece, rest :
           /\ at = Index(o._count) /\ part = BlockSize - at
           /\ piece = SubSeq(input, 1, part)
           /\ rest = SubSeq(input, part + ((Len(input) - part) \div BlockSize)
                                            * BlockSize + 1, Len(input))
    OBVIOUS
  <2>1. Update(o, input)._buffer = Copy(Copy(o._buffer, at, piece), 0, rest)
    BY <1>2, <2>0, UpdateLong
  <2>2. DOMAIN Update(o, input)._buffer = DOMAIN o._buffer
    BY <2>1, CopyDomain
  <2>3. DOMAIN Update(o, input) = DOMAIN o
    BY <1>2, UpdateLong
  <2>4. Update(o, input)._count = AddCount(o._count, Len(input))
    BY <1>2, UpdateLong
  <2> QED BY <2>2, <2>3, <2>4 DEF Shaped
<1> QED BY <1>1, <1>2

-----------------------------------------------------------------------------
(* What an object has absorbed.                                            *)

\* The blocks number p + 1 to p + n of the stream of bytes f.
Chunk(f, k) == [j \in 1..BlockSize |-> f[BlockSize * (k - 1) + j]]
Chunks(f, p, n) == [k \in 1..n |-> Chunk(f, p + k)]

\* The object has absorbed the first t bytes of the stream f.
Holds(o, f, t) ==
    /\ o._state = Chunks(f, 0, t \div BlockSize)
    /\ \A i \in 0..((t % BlockSize) - 1) :
          o._buffer[i] = f[BlockSize * (t \div BlockSize) + i + 1]

LEMMA ChunksJoin ==
    ASSUME NEW f, NEW a \in Nat, NEW b \in Nat
    PROVE  Chunks(f, 0, a) \o Chunks(f, a, b) = Chunks(f, 0, a + b)
<1>1. PICK S : \A k \in Nat : Chunk(f, k) \in S
  <2> DEFINE T == {Chunk(f, k) : k \in Nat}
  <2>1. \A k \in Nat : Chunk(f, k) \in T
    OBVIOUS
  <2> HIDE DEF T
  <2> QED BY <2>1
<1> DEFINE x == Chunks(f, 0, a)
           y == Chunks(f, a, b)
           z == Chunks(f, 0, a + b)
<1>2. /\ x \in [1..a -> S] /\ y \in [1..b -> S] /\ z \in [1..(a + b) -> S]
      /\ \A k \in 1..a : x[k] = Chunk(f, k)
      /\ \A k \in 1..b : y[k] = Chunk(f, a + k)
      /\ \A k \in 1..(a + b) : z[k] = Chunk(f, k)
  <2>1. \A k \in Nat : 0 + k = k
    OBVIOUS
  <2> QED BY <1>1, <2>1 DEF Chunks
<1> HIDE DEF x, y, z
<1>3. x \in Seq(S) /\ Len(x) = a /\ y \in Seq(S) /\ Len(y) = b
      /\ z \in Seq(S) /\ Len(z) = a + b
  <2>1. ASSUME NEW n \in Nat, NEW s \in [1..n -> S]
        PROVE  s \in Seq(S) /\ Len(s) = n
    BY <2>1
  <2>2. a + b \in Nat
    OBVIOUS
  <2> QED BY <1>2, <2>1, <2>2
<1>4. /\ x \o y \in Seq(S) /\ Len(x \o y) = a + b
      /\ \A k \in 1..(a + b) : (x \o y)[k] = IF k <= a THEN x[k] ELSE y[k - a]
  BY <1>3, ConcatProperties
<1>5. ASSUME NEW k \in 1..(a + b) PROVE (x \o y)[k] = z[k]
  <2>1. CASE k <= a
    BY <1>2, <1>4, <1>5, <2>1
  <2>2. CASE ~(k <= a)
    <3>1. k - a \in 1..b /\ a + (k - a) = k
      BY <1>5, <2>2
    <3> QED BY <1>2, <1>4, <1>5, <2>2, <3>1
  <2> QED BY <2>1, <2>2
<1>6. x \o y = z
  BY <1>3, <1>4, <1>5, SeqEqual
<1> QED BY <1>6 DEF x, y, z

LEMMA ChunkOne ==
    ASSUME NEW f, NEW p \in Nat
    PROVE  <<Chunk(f, p + 1)>> = Chunks(f, p, 1)
BY DEF Chunks

LEMMA SubSeqBytes ==
    ASSUME NEW S, NEW s \in Seq(S), NEW a \in Nat \ {0}, NEW b \in Nat,
           a <= b + 1, b <= Len(s)
    PROVE  /\ SubSeq(s, a, b) \in Seq(S) /\ Len(SubSeq(s, a, b)) = b + 1 - a
           /\ \A j \in 1..(b + 1 - a) : SubSeq(s, a, b)[j] = s[a + j - 1]
<1>1. Len(s) \in Nat /\ \A i \in 1..Len(s) : s[i] \in S
  OBVIOUS
<1>2. \A i \in a..b : s[i] \in S
  BY <1>1
<1>3. b - a + 1 = b + 1 - a
  OBVIOUS
<1>4. Len(SubSeq(s, a, b)) = IF a <= b THEN b - a + 1 ELSE 0
  BY <1>2, SubSeqProperties
<1>5. Len(SubSeq(s, a, b)) = b + 1 - a
  BY <1>4
<1> QED BY <1>2, <1>3, <1>5, SubSeqProperties

\* The same, as a function.
LEMMA SubSeqFun ==
    ASSUME NEW S, NEW s \in Seq(S), NEW a \in Nat \ {0}, NEW b \in Nat,
           a <= b + 1, b <= Len(s)
    PROVE  SubSeq(s, a, b) = [j \in 1..(b + 1 - a) |-> s[a + j - 1]]
<1> DEFINE x == SubSeq(s, a, b)
<1>1. /\ x \in Seq(S) /\ Len(x) = b + 1 - a
      /\ \A j \in 1..(b + 1 - a) : x[j] = s[a + j - 1]
  BY SubSeqBytes
<1> HIDE DEF x
<1>2. x = [j \in 1..Len(x) |-> x[j]]
  BY <1>1
<1>3. x = [j \in 1..(b + 1 - a) |-> s[a + j - 1]]
  BY <1>1, <1>2
<1> QED BY <1>3 DEF x

\* The piece of n bytes goes on where the object stopped.
LEMMA HoldsShort ==
    ASSUME NEW o, Shaped(o), NEW f, NEW t \in Nat, Holds(o, f, t),
           NEW S, NEW input \in Seq(S), Counted(o._count, t),
           \A k \in 1..Len(input) : input[k] = f[t + k],
           Len(input) < BlockSize - Index(o._count)
    PROVE  Holds(Update(o, input), f, t + Len(input))
<1>1. PICK B, q, r, n : /\ B = BlockSize /\ q = t \div B /\ r = t % B
                        /\ n = Len(input)
  OBVIOUS
<1>2. B \in Nat \ {0} /\ q \in Nat /\ r \in Nat /\ r < B /\ t = B * q + r
      /\ n \in Nat
  BY <1>1, Sizes, DivMod
<1>3. Index(o._count) = r
  BY <1>1, IndexCounted
<1>4. n < B - r
  BY <1>1, <1>3
<1>5. (t + n) \div B = q /\ (t + n) % B = r + n
  <2>1. t + n = B * q + (r + n) /\ r + n \in Nat /\ r + n < B
    <3>1. PICK x : x = B * q /\ x \in Nat
      BY <1>2
    <3> QED BY <1>2, <1>4, <3>1
  <2>2. PICK T, R : T = t + n /\ R = r + n
    OBVIOUS
  <2>3. T = B * q + R /\ R \in Nat /\ R < B
    BY <2>1, <2>2
  <2>4. T \div B = q /\ T % B = R
    BY <1>2, <2>3, DivModOf
  <2> QED BY <2>2, <2>4
<1>6. PICK u, old : u = Update(o, input) /\ old = o._buffer
  OBVIOUS
<1>7. u._state = o._state /\ u._buffer = Copy(old, r, input)
  BY <1>1, <1>3, <1>4, <1>6, UpdateShort
<1>8. u._state = Chunks(f, 0, q)
  BY <1>1, <1>7 DEF Holds
<1>9. ASSUME NEW i \in 0..(r + n - 1) PROVE u._buffer[i] = f[B * q + i + 1]
  <2>1. i \in Nat /\ i < B /\ i \in DOMAIN old
    <3>1. DOMAIN old = 0..(B - 1)
      BY <1>1, <1>6 DEF Shaped
    <3> QED BY <1>2, <1>4, <1>9, <3>1
  <2>2. u._buffer[i] = IF i >= r /\ i < r + n THEN input[i - r + 1] ELSE old[i]
    BY <1>1, <1>7, <2>1 DEF Copy
  <2>3. CASE i < r
    <3>1. u._buffer[i] = old[i] /\ i \in 0..(r - 1)
      BY <1>2, <2>1, <2>2, <2>3
    <3> QED BY <1>1, <1>6, <3>1 DEF Holds
  <2>4. CASE ~(i < r)
    <3>1. u._buffer[i] = input[i - r + 1] /\ i - r + 1 \in 1..n
      BY <1>2, <1>9, <2>1, <2>2, <2>4
    <3>2. t + (i - r + 1) = B * q + i + 1
      <4>1. PICK x : x = B * q /\ x \in Nat
        BY <1>2
      <4> QED BY <1>2, <2>1, <4>1
    <3> QED BY <1>1, <3>1, <3>2
  <2> QED BY <2>3, <2>4
<1> QED BY <1>1, <1>5, <1>6, <1>8, <1>9 DEF Holds

LEMMA HoldsLong ==
    ASSUME NEW o, Shaped(o), NEW f, NEW t \in Nat, Holds(o, f, t),
           NEW S, NEW input \in Seq(S), Counted(o._count, t),
           \A k \in 1..Len(input) : input[k] = f[t + k],
           ~(Len(input) < BlockSize - Index(o._count))
    PROVE  Holds(Update(o, input), f, t + Len(input))
<1>1. PICK B, q, r, n, old :
         /\ B = BlockSize /\ q = t \div B /\ r = t % B
         /\ n = Len(input) /\ old = o._buffer
  OBVIOUS
<1>2. B \in Nat \ {0} /\ q \in Nat /\ r \in Nat /\ r < B /\ t = B * q + r
      /\ n \in Nat
  BY <1>1, Sizes, DivMod
<1>3. Index(o._count) = r
  BY <1>1, IndexCounted
<1>4. ~(n < B - r)
  BY <1>1, <1>3
<1>5. PICK part, m, s : /\ part = B - r /\ m = (n - part) \div B
                        /\ s = (n - part) % B
  OBVIOUS
<1>5a. part = B - r
  BY <1>5
<1>6. PICK mB : mB = m * B
  OBVIOUS
<1>7. /\ part \in Nat \ {0} /\ m \in Nat /\ s \in Nat /\ s < B /\ mB \in Nat
      /\ n = part + mB + s
  <2>1. part \in Nat \ {0} /\ n - part \in Nat
    BY <1>2, <1>4, <1>5
  <2>2. m \in Nat /\ s \in Nat /\ s < B /\ n - part = B * m + s
    BY <1>2, <1>5, <2>1, DivMod
  <2>3. mB \in Nat /\ B * m = mB
    BY <1>2, <1>6, <2>2
  <2> QED BY <1>2, <2>1, <2>2, <2>3
<1>8. PICK qB : qB = B * q /\ qB \in Nat /\ t = qB + r
  BY <1>2
<1>9. B * (q + 1 + m) = qB + B + mB
  BY <1>2, <1>6, <1>7, <1>8
<1>10. (t + n) \div B = q + 1 + m /\ (t + n) % B = s
  <2>1. PICK T, Q : T = t + n /\ Q = q + 1 + m
    OBVIOUS
  <2>2. Q \in Nat /\ B * Q = qB + B + mB
    BY <1>2, <1>7, <1>9, <2>1
  <2>3. T = (qB + B + mB) + s
    BY <1>2, <1>5a, <1>7, <1>8, <2>1
  <2>4. T = B * Q + s
    BY <2>2, <2>3
  <2>5. T \div B = Q /\ T % B = s
    BY <1>2, <1>7, <2>2, <2>4, DivModOf
  <2> QED BY <2>1, <2>5
<1>11. PICK u, filled, head, tail :
          /\ u = Update(o, input) /\ head = SubSeq(input, 1, part)
          /\ filled = Copy(old, r, head)
          /\ tail = SubSeq(input, part + mB + 1, n)
  OBVIOUS
<1>12. /\ u._state = o._state \o <<Block(filled)>> \o Blocks(input, part, m)
       /\ u._buffer = Copy(filled, 0, tail)
  BY <1>1, <1>3, <1>4, <1>5, <1>6, <1>11, UpdateLong
<1>13. Len(head) = part /\ \A j \in 1..part : head[j] = input[j]
  <2>1. part <= n /\ 1 <= part + 1
    BY <1>7
  <2>2. /\ Len(head) = part + 1 - 1
        /\ \A j \in 1..(part + 1 - 1) : head[j] = input[1 + j - 1]
    BY <1>1, <1>7, <1>11, <2>1, SubSeqBytes
  <2> QED BY <1>7, <2>2
<1>14. Len(tail) = s /\ \A j \in 1..s : tail[j] = input[part + mB + j]
  <2>1. part + mB + 1 \in Nat \ {0} /\ part + mB + 1 <= n + 1
        /\ n + 1 - (part + mB + 1) = s
    BY <1>7
  <2>2. PICK lo : lo = part + mB + 1
    OBVIOUS
  <2>3. /\ lo \in Nat \ {0} /\ n \in Nat /\ lo <= n + 1 /\ n <= Len(input)
        /\ n + 1 - lo = s /\ tail = SubSeq(input, lo, n)
    BY <1>1, <1>2, <1>11, <2>1, <2>2
  <2>4. /\ Len(tail) = n + 1 - lo
        /\ \A j \in 1..(n + 1 - lo) : tail[j] = input[lo + j - 1]
    BY <2>3, SubSeqBytes
  <2>5. \A j \in 1..s : lo + j - 1 = part + mB + j
    BY <1>7, <2>2
  <2> QED BY <2>3, <2>4, <2>5
<1>15. DOMAIN old = 0..(B - 1) /\ DOMAIN filled = 0..(B - 1)
  BY <1>1, <1>11, CopyDomain DEF Shaped
<1>16. ASSUME NEW j \in 1..B PROVE filled[j - 1] = f[qB + j]
  <2>1. filled[j - 1] = IF j - 1 >= r /\ j - 1 < r + part
                        THEN head[j - 1 - r + 1] ELSE old[j - 1]
    <3>1. j - 1 \in DOMAIN old
      BY <1>2, <1>15, <1>16
    <3> QED BY <1>11, <1>13, <3>1 DEF Copy
  <2>2. CASE j - 1 < r
    <3>1. filled[j - 1] = old[j - 1] /\ j - 1 \in 0..(r - 1)
      BY <1>2, <1>16, <2>1, <2>2
    <3>2. old[j - 1] = f[qB + (j - 1) + 1]
      BY <1>1, <1>8, <3>1 DEF Holds
    <3> QED BY <1>8, <1>16, <3>1, <3>2
  <2>3. CASE ~(j - 1 < r)
    <3>1. filled[j - 1] = head[j - r] /\ j - r \in 1..part
      BY <1>2, <1>5a, <1>16, <2>1, <2>3
    <3>2. head[j - r] = input[j - r] /\ j - r \in 1..n /\ t + (j - r) = qB + j
      BY <1>2, <1>7, <1>8, <1>13, <3>1
    <3> QED BY <1>1, <3>1, <3>2
  <2> QED BY <2>2, <2>3
<1>17. Block(filled) = Chunk(f, q + 1)
  <2>1. q + 1 - 1 = q
    BY <1>2
  <2>2. Chunk(f, q + 1) = [j \in 1..B |-> f[qB + j]]
    BY <1>1, <1>8, <2>1 DEF Chunk
  <2> QED BY <1>1, <1>16, <2>2 DEF Block
<1>18. ASSUME NEW k \in 1..m
       PROVE  SubSeq(input, part + (k - 1) * B + 1, part + k * B)
                 = Chunk(f, q + 1 + k)
  <2>1. PICK z : z = (k - 1) * B
    OBVIOUS
  <2>2. z \in Nat /\ k * B = z + B /\ z + B <= mB
    <3>1. z \in Nat /\ k * B = z + B
      BY <1>2, <1>7, <1>18, <2>1
    <3>2. B * k <= B * m
      BY <1>2, <1>7, <1>18, MulMono
    <3>3. B * k = k * B /\ B * m = mB
      BY <1>2, <1>6, <1>7, <1>18
    <3> QED BY <3>1, <3>2, <3>3
  <2>3. PICK lo, hi : lo = part + z + 1 /\ hi = part + (z + B)
    OBVIOUS
  <2>4. lo \in Nat \ {0} /\ hi \in Nat /\ lo <= hi + 1 /\ hi <= n
        /\ hi + 1 - lo = B
    BY <1>2, <1>7, <2>2, <2>3
  <2>5. SubSeq(input, lo, hi) = [j \in 1..(hi + 1 - lo) |-> input[lo + j - 1]]
    <3>1. hi <= Len(input)
      BY <1>1, <2>4
    <3>2. lo \in Nat \ {0} /\ hi \in Nat /\ lo <= hi + 1
      BY <2>4
    <3> QED BY <3>1, <3>2, SubSeqFun, SMTT(20)
  <2>6. \A j \in 1..B : input[lo + j - 1] = f[qB + B + z + j]
    <3>1. TAKE j \in 1..B
    <3>2. lo + j - 1 \in 1..n /\ t + (lo + j - 1) = qB + B + z + j
      BY <1>2, <1>5a, <1>7, <1>8, <2>2, <2>3, <3>1
    <3> QED BY <1>1, <3>2
  <2>7. B * (q + 1 + k - 1) = qB + B + z
    <3>1. B * (q + 1 + k - 1) = B * q + B * k
      BY <1>2, <1>18
    <3> QED BY <1>2, <1>8, <1>18, <2>2, <3>1
  <2>8. Chunk(f, q + 1 + k) = [j \in 1..B |-> f[qB + B + z + j]]
    BY <1>1, <2>7 DEF Chunk
  <2>9. SubSeq(input, lo, hi) = Chunk(f, q + 1 + k)
    BY <2>4, <2>5, <2>6, <2>8
  <2> QED BY <2>1, <2>2, <2>3, <2>9
<1>19. Blocks(input, part, m) = Chunks(f, q + 1, m)
  BY <1>1, <1>18 DEF Blocks, Chunks
<1>20. u._state = Chunks(f, 0, q + 1 + m)
  <2>1. o._state = Chunks(f, 0, q)
    BY <1>1 DEF Holds
  <2>2. Chunks(f, 0, q) \o Chunks(f, q, 1) = Chunks(f, 0, q + 1)
    <3>1. PICK one \in Nat : one = 1
      OBVIOUS
    <3>2. Chunks(f, 0, q) \o Chunks(f, q, one) = Chunks(f, 0, q + one)
      BY <1>2, ChunksJoin
    <3> QED BY <3>1, <3>2
  <2>3. <<Block(filled)>> = Chunks(f, q, 1)
    BY <1>2, <1>17, ChunkOne
  <2>4. o._state \o <<Block(filled)>> = Chunks(f, 0, q + 1)
    BY <2>1, <2>2, <2>3
  <2>5. PICK Q : Q = q + 1
    OBVIOUS
  <2>6. Q \in Nat
    BY <1>2, <2>5
  <2>7. Chunks(f, 0, Q) \o Chunks(f, Q, m) = Chunks(f, 0, Q + m)
    BY <1>7, <2>6, ChunksJoin
  <2> QED BY <1>12, <1>19, <2>4, <2>5, <2>6, <2>7
<1>21. ASSUME NEW i \in 0..(s - 1)
       PROVE  u._buffer[i] = f[B * (q + 1 + m) + i + 1]
  <2>1. i \in DOMAIN filled /\ i \in Nat /\ i < s /\ 0 + s = s /\ i - 0 = i
    BY <1>2, <1>7, <1>15, <1>21
  <2>2. u._buffer[i] = tail[i + 1]
    BY <1>12, <1>14, <2>1 DEF Copy
  <2>3. i + 1 \in 1..s /\ part + mB + (i + 1) \in 1..n
        /\ t + (part + mB + (i + 1)) = qB + B + mB + i + 1
    BY <1>2, <1>5a, <1>7, <1>8, <2>1
  <2>4. tail[i + 1] = f[t + (part + mB + (i + 1))]
    BY <1>1, <1>14, <2>3
  <2> QED BY <1>9, <2>2, <2>3, <2>4
<1> QED BY <1>1, <1>10, <1>11, <1>20, <1>21 DEF Holds

\* Update of an object that has absorbed t bytes of a stream with its next
\* bytes, however many they are.
LEMMA HoldsUpdate ==
    ASSUME NEW o, Shaped(o), NEW f, NEW t \in Nat, Holds(o, f, t),
           NEW S, NEW input \in Seq(S), Counted(o._count, t),
           \A k \in 1..Len(input) : input[k] = f[t + k]
    PROVE  Holds(Update(o, input), f, t + Len(input))
<1>1. CASE Len(input) < BlockSize - Index(o._count)
  BY <1>1, HoldsShort
<1>2. CASE ~(Len(input) < BlockSize - Index(o._count))
  BY <1>2, HoldsLong
<1> QED BY <1>1, <1>2

-----------------------------------------------------------------------------
(* Streams and sequences.                                                  *)

\* A sequence of n elements, whatever they are.
IsSeq(s, n) == s = [k \in 1..n |-> s[k]]

LEMMA IsSeqIn ==
    ASSUME NEW s, NEW n \in Nat, IsSeq(s, n)
    PROVE  \E S : s \in Seq(S) /\ Len(s) = n
<1>1. PICK S : S = {s[k] : k \in 1..n}
  OBVIOUS
<1>2. \A k \in 1..n : s[k] \in S
  BY <1>1
<1>3. s \in [1..n -> S]
  BY <1>2 DEF IsSeq
<1>4. s \in Seq(S) /\ Len(s) = n
  BY <1>3
<1> QED BY <1>4

\* z is the a elements of x, followed by the b elements of y.
Joins(z, x, a, y, b) ==
    /\ IsSeq(z, a + b)
    /\ \A k \in 1..a : z[k] = x[k]
    /\ \A k \in 1..b : z[a + k] = y[k]

LEMMA ConcatIs ==
    ASSUME NEW x, NEW a \in Nat, IsSeq(x, a), NEW y, NEW b \in Nat, IsSeq(y, b)
    PROVE  Joins(x \o y, x, a, y, b)
<1>1. PICK X : x \in Seq(X) /\ Len(x) = a
  BY IsSeqIn
<1>2. PICK Y : y \in Seq(Y) /\ Len(y) = b
  BY IsSeqIn
<1>3. PICK S : S = X \union Y
  OBVIOUS
<1>4. x \in Seq(S) /\ y \in Seq(S)
  BY <1>1, <1>2, <1>3
<1>5. PICK z : z = x \o y
  OBVIOUS
<1>6. /\ z \in Seq(S) /\ Len(z) = a + b
      /\ \A k \in 1..(a + b) : z[k] = IF k <= a THEN x[k] ELSE y[k - a]
  BY <1>1, <1>2, <1>4, <1>5, ConcatProperties
<1>7. IsSeq(z, a + b)
  BY <1>6 DEF IsSeq
<1>8. ASSUME NEW k \in 1..a PROVE z[k] = x[k]
  <2>1. k \in 1..(a + b) /\ k <= a
    BY <1>8
  <2> QED BY <1>6, <2>1
<1>9. ASSUME NEW k \in 1..b PROVE z[a + k] = y[k]
  <2>1. a + k \in 1..(a + b) /\ ~(a + k <= a) /\ a + k - a = k
    BY <1>9
  <2> QED BY <1>6, <2>1
<1> QED BY <1>5, <1>7, <1>8, <1>9 DEF Joins

LEMMA ChunksSame ==
    ASSUME NEW f, NEW g, NEW n \in Nat,
           \A p \in 1..(BlockSize * n) : f[p] = g[p]
    PROVE  Chunks(f, 0, n) = Chunks(g, 0, n)
<1>1. PICK B : B = BlockSize
  OBVIOUS
<1>2. B \in Nat \ {0}
  BY <1>1, Sizes
<1>3. ASSUME NEW k \in 1..n, NEW j \in 1..B
      PROVE  f[B * (0 + k - 1) + j] = g[B * (0 + k - 1) + j]
  <2>1. PICK z : z = B * (0 + k - 1)
    OBVIOUS
  <2>2. z \in Nat /\ z + B = B * k
    BY <1>2, <1>3, <2>1
  <2>3. B * k <= B * n
    BY <1>2, <1>3, MulMono
  <2>4. PICK N : N = B * n /\ N \in Nat
    BY <1>2
  <2>5. z + B <= N
    BY <2>2, <2>3, <2>4
  <2>6. z + j \in 1..N
    BY <1>2, <1>3, <2>2, <2>4, <2>5
  <2> QED BY <1>1, <2>1, <2>4, <2>6
<1>4. ASSUME NEW k \in 1..n PROVE Chunk(f, 0 + k) = Chunk(g, 0 + k)
  BY <1>1, <1>3, <1>4 DEF Chunk
<1> QED BY <1>4 DEF Chunks

LEMMA HoldsSame ==
    ASSUME NEW o, NEW f, NEW g, NEW t \in Nat, Holds(o, f, t),
           \A p \in 1..t : f[p] = g[p]
    PROVE  Holds(o, g, t)
<1>1. PICK B, q, r : B = BlockSize /\ q = t \div B /\ r = t % B
  OBVIOUS
<1>2. B \in Nat \ {0} /\ q \in Nat /\ r \in Nat /\ r < B /\ t = B * q + r
  BY <1>1, Sizes, DivMod
<1>3. PICK z : z = B * q /\ z \in Nat /\ t = z + r
  BY <1>2
<1>4. \A p \in 1..z : f[p] = g[p]
  BY <1>2, <1>3
<1>5. Chunks(f, 0, q) = Chunks(g, 0, q)
  BY <1>1, <1>2, <1>3, <1>4, ChunksSame
<1>6. ASSUME NEW i \in 0..(r - 1) PROVE o._buffer[i] = g[z + i + 1]
  <2>1. z + i + 1 \in 1..t
    BY <1>2, <1>3, <1>6
  <2>2. o._buffer[i] = f[z + i + 1]
    BY <1>1, <1>3, <1>6 DEF Holds
  <2> QED BY <2>1, <2>2
<1> QED BY <1>1, <1>3, <1>5, <1>6 DEF Holds

\* The blocks of a sequence, cut with SubSeq.
LEMMA BlocksAre ==
    ASSUME NEW s, NEW N \in Nat, IsSeq(s, N), NEW n \in Nat, BlockSize * n <= N
    PROVE  Blocks(s, 0, n) = Chunks(s, 0, n)
<1>1. PICK S : s \in Seq(S) /\ Len(s) = N
  BY IsSeqIn
<1>2. PICK B : B = BlockSize
  OBVIOUS
<1>3. B \in Nat \ {0}
  BY <1>2, Sizes
<1>4. ASSUME NEW k \in 1..n
      PROVE  SubSeq(s, 0 + (k - 1) * B + 1, 0 + k * B) = Chunk(s, 0 + k)
  <2>1. PICK z : z = (k - 1) * B
    OBVIOUS
  <2>2. z \in Nat /\ k * B = z + B /\ B * k = z + B /\ B * (0 + k - 1) = z
    BY <1>3, <1>4, <2>1
  <2>3. B * k <= B * n
    BY <1>3, <1>4, MulMono
  <2>4. PICK M : M = B * n /\ M \in Nat /\ M <= N
    BY <1>2, <1>3
  <2>5. z + B <= N
    BY <1>3, <2>2, <2>3, <2>4
  <2>6. PICK lo, hi : lo = 0 + z + 1 /\ hi = 0 + (z + B)
    OBVIOUS
  <2>7. lo \in Nat \ {0} /\ hi \in Nat /\ lo <= hi + 1 /\ hi <= N
        /\ hi + 1 - lo = B /\ \A j \in 1..B : lo + j - 1 = z + j
    BY <1>3, <2>2, <2>5, <2>6
  <2>8. SubSeq(s, lo, hi) = [j \in 1..(hi + 1 - lo) |-> s[lo + j - 1]]
    BY <1>1, <2>7, SubSeqFun
  <2>9. Chunk(s, 0 + k) = [j \in 1..B |-> s[z + j]]
    BY <1>2, <2>2 DEF Chunk
  <2>10. SubSeq(s, lo, hi) = Chunk(s, 0 + k)
    BY <2>7, <2>8, <2>9
  <2> QED BY <2>1, <2>2, <2>6, <2>10
<1> QED BY <1>2, <1>4 DEF Blocks, Chunks

-----------------------------------------------------------------------------
(* The bytes of the length.                                                *)

\* The range of i bytes.
P(i) == 2 ^ (Bits * i)

LEMMA Powers ==
    /\ WordBytes \in Nat \ {0} /\ LengthBytes = 2 * WordBytes
    /\ \A i \in 0..LengthBytes : P(i) \in Nat \ {0}
    /\ \A i, j \in 0..LengthBytes :
          i + j \in 0..LengthBytes => P(i + j) = P(i) * P(j)
    /\ Word = P(WordBytes) /\ 2 ^ Bits = P(1)
<1>1. WordBytes \in Nat \ {0} /\ LengthBytes = 2 * WordBytes
  BY MD5Assumption DEF LengthBytes
<1>2. WordBits = Bits * WordBytes /\ Bits * 1 = Bits
  BY <1>1, Sizes DEF WordBits
<1> QED BY <1>1, <1>2, PowerAssumption DEF P, Word

\* A byte of the low word is the same byte of both words ...
LEMMA LowByte ==
    ASSUME NEW lo \in Words, NEW hi \in Words, NEW i \in 0..(WordBytes - 1)
    PROVE  (lo \div P(i)) % P(1) = ((lo + Word * hi) \div P(i)) % P(1)
<1>1. PICK W, one, c, d, e : /\ W = Word /\ one = P(1) /\ c = P(i)
                             /\ d = P(WordBytes - i - 1) /\ e = d * hi
  OBVIOUS
<1>2. PICK n : n = WordBytes
  OBVIOUS
<1>3. n \in Nat \ {0} /\ LengthBytes = 2 * n
  BY <1>2, Powers
<1>4. /\ i \in 0..LengthBytes /\ 1 \in 0..LengthBytes
      /\ n - i - 1 \in 0..LengthBytes /\ n - i \in 0..LengthBytes
      /\ n \in 0..LengthBytes /\ 1 + (n - i - 1) = n - i /\ i + (n - i) = n
  BY <1>2, <1>3
<1>5. one \in Nat \ {0} /\ c \in Nat \ {0} /\ d \in Nat \ {0}
  BY <1>1, <1>2, <1>4, Powers
<1>6. P(n - i) = one * d /\ W = c * P(n - i)
  BY <1>1, <1>2, <1>4, Powers
<1>7. lo \in Nat /\ hi \in Nat /\ e \in Nat
  BY <1>1, <1>5, Sizes DEF Words
<1>8. W * hi = c * (one * e)
  <2>1. W = c * (one * d)
    BY <1>6
  <2> QED BY <1>1, <1>5, <1>7, <2>1
<1>9. PICK x, y, u, v : /\ x = lo \div c /\ y = lo % c
                        /\ u = x \div one /\ v = x % one
  OBVIOUS
<1>10. x \in Nat /\ y \in Nat /\ y < c /\ lo = c * x + y
  BY <1>5, <1>7, <1>9, DivMod
<1>11. u \in Nat /\ v \in Nat /\ v < one /\ x = one * u + v
  BY <1>5, <1>9, <1>10, DivMod
<1>12. PICK s, z : s = lo + W * hi /\ z = x + one * e
  OBVIOUS
<1>13. z \in Nat /\ s = c * z + y
  <2>1. z \in Nat /\ c * z = c * x + c * (one * e)
    BY <1>5, <1>7, <1>10, <1>12
  <2>2. PICK k, l : k = c * x /\ l = c * (one * e) /\ k \in Nat /\ l \in Nat
    BY <1>5, <1>7, <1>10
  <2> QED BY <1>8, <1>10, <1>12, <2>1, <2>2
<1>14. s \div c = z
  BY <1>5, <1>10, <1>13, DivModOf
<1>15. u + e \in Nat /\ z = one * (u + e) + v
  <2>1. u + e \in Nat /\ one * (u + e) = one * u + one * e
    BY <1>5, <1>7, <1>11
  <2>2. PICK k, l : k = one * u /\ l = one * e /\ k \in Nat /\ l \in Nat
    BY <1>5, <1>7, <1>11
  <2> QED BY <1>11, <1>12, <2>1, <2>2
<1>16. z % one = v
  BY <1>5, <1>11, <1>15, DivModOf
<1> QED BY <1>1, <1>9, <1>12, <1>14, <1>16

\* ... and one of the high word the byte WordBytes further on.
LEMMA HighByte ==
    ASSUME NEW lo \in Words, NEW hi \in Words, NEW i \in 0..(WordBytes - 1)
    PROVE  hi \div P(i) = (lo + Word * hi) \div P(WordBytes + i)
<1>1. PICK W, c, x, y : /\ W = Word /\ c = P(i)
                        /\ x = hi \div c /\ y = hi % c
  OBVIOUS
<1>2. PICK n : n = WordBytes
  OBVIOUS
<1>3. n \in Nat \ {0} /\ LengthBytes = 2 * n
  BY <1>2, Powers
<1>4. i \in 0..LengthBytes /\ n \in 0..LengthBytes /\ n + i \in 0..LengthBytes
  BY <1>2, <1>3
<1>5. W \in Nat \ {0} /\ c \in Nat \ {0} /\ P(n + i) = W * c
  BY <1>1, <1>2, <1>4, Powers, Sizes
<1>6. lo \in Nat /\ hi \in Nat /\ lo < W
  BY <1>1, Sizes DEF Words
<1>7. x \in Nat /\ y \in Nat /\ y < c /\ hi = c * x + y
  BY <1>1, <1>5, <1>6, DivMod
<1>8. PICK M, R, s : M = W * c /\ R = W * y + lo /\ s = lo + W * hi
  OBVIOUS
<1>9. M \in Nat \ {0} /\ R \in Nat
  BY <1>5, <1>6, <1>7, <1>8
<1>10. R < M
  <2>1. W * (y + 1) <= W * c /\ W * (y + 1) = W * y + W
    BY <1>5, <1>7, MulMono
  <2>2. PICK k : k = W * y /\ k \in Nat
    BY <1>5, <1>7
  <2> QED BY <1>5, <1>6, <1>8, <1>9, <2>1, <2>2
<1>11. s = M * x + R
  <2>1. W * hi = W * c * x + W * y
    BY <1>5, <1>7
  <2>2. PICK k, l : k = W * c * x /\ l = W * y /\ k \in Nat /\ l \in Nat
    BY <1>5, <1>7
  <2> QED BY <1>6, <1>8, <2>1, <2>2
<1>12. s \div M = x
  BY <1>7, <1>9, <1>10, <1>11, DivModOf
<1> QED BY <1>1, <1>2, <1>5, <1>8, <1>12

\* encode writes the length as MD5 wants it: as one number, low byte first.
LEMMA EncodeIs ==
    ASSUME NEW count, NEW t \in Nat, Counted(count, t)
    PROVE  /\ IsSeq(Encode(count), LengthBytes)
           /\ \A k \in 1..LengthBytes : Encode(count)[k]
                 = (((t * Bits) % Wide) \div 2 ^ (Bits * (k - 1))) % 2 ^ Bits
<1>1. PICK lo, hi, n : lo = count[1] /\ hi = count[2] /\ n = WordBytes
  OBVIOUS
<1>2. /\ lo \in Words /\ hi \in Words /\ Len(count) = 2
      /\ lo + Word * hi = (t * Bits) % Wide
  BY <1>1 DEF Counted
<1>3. n \in Nat \ {0} /\ LengthBytes = 2 * n
  BY <1>1, Powers
<1>4. Encode(count) = [k \in 1..LengthBytes |->
         (count[(k - 1) \div n + 1] \div P((k - 1) % n)) % P(1)]
  BY <1>1, <1>2, <1>3, Powers DEF Encode, P
<1>5. ASSUME NEW k \in 1..LengthBytes
      PROVE  Encode(count)[k] = ((lo + Word * hi) \div P(k - 1)) % P(1)
  <2>1. PICK m : m = k - 1
    OBVIOUS
  <2>2. m \in Nat /\ m < 2 * n
    BY <1>3, <1>5, <2>1
  <2>3. Encode(count)[k] = (count[m \div n + 1] \div P(m % n)) % P(1)
    BY <1>4, <1>5, <2>1
  <2>4. CASE m < n
    <3>1. m = n * 0 + m
      BY <1>3, <2>2
    <3>2. m \div n = 0 /\ m % n = m
      BY <1>3, <2>2, <2>4, <3>1, DivModOf
    <3>3. Encode(count)[k] = (lo \div P(m)) % P(1)
      BY <1>1, <2>3, <3>2
    <3>4. m \in 0..(n - 1)
      BY <1>3, <2>2, <2>4
    <3> QED BY <1>1, <1>2, <2>1, <3>3, <3>4, LowByte
  <2>5. CASE ~(m < n)
    <3>1. PICK j : j = m - n
      OBVIOUS
    <3>2. m = n * 1 + j /\ j \in Nat /\ j < n /\ m = n + j
      BY <1>3, <2>2, <2>5, <3>1
    <3>3. m \div n = 1 /\ m % n = j
      BY <1>3, <3>2, DivModOf
    <3>4. Encode(count)[k] = (hi \div P(j)) % P(1)
      BY <1>1, <2>3, <3>3
    <3>5. j \in 0..(n - 1)
      BY <1>3, <3>2
    <3>6. hi \div P(j) = (lo + Word * hi) \div P(n + j)
      BY <1>1, <1>2, <3>5, HighByte
    <3> QED BY <2>1, <3>2, <3>4, <3>6
  <2> QED BY <2>4, <2>5
<1>6. IsSeq(Encode(count), LengthBytes)
  BY <1>4 DEF IsSeq
<1>7. ASSUME NEW k \in 1..LengthBytes
      PROVE  Encode(count)[k]
                = (((t * Bits) % Wide) \div 2 ^ (Bits * (k - 1))) % 2 ^ Bits
  BY <1>2, <1>5, Powers DEF P
<1> QED BY <1>6, <1>7

-----------------------------------------------------------------------------
(* final().                                                                *)

\* What final appends to a message of t bytes: byte number k.
Pads(t) == PadLen(t % BlockSize)
Appended(t, k) ==
    IF k = 1 THEN 2 ^ (Bits - 1)
    ELSE IF k <= Pads(t) THEN 0
    ELSE (((t * Bits) % Wide) \div 2 ^ (Bits * (k - Pads(t) - 1))) % 2 ^ Bits

\* The stream f, cut off after t bytes and padded.
Closed(f, t) == [p \in Nat |-> IF p <= t THEN f[p] ELSE Appended(t, p - t)]
Total(t) == t + Pads(t) + LengthBytes

\* The padding leaves room for the length, at the end of this block or of
\* the next one.
LEMMA PadFits ==
    ASSUME NEW t \in Nat
    PROVE  /\ Pads(t) \in 1..BlockSize
           /\ (t + Pads(t)) % BlockSize = BlockSize - LengthBytes
           /\ (t + Pads(t)) \div BlockSize =
                 IF t % BlockSize < BlockSize - LengthBytes
                 THEN t \div BlockSize ELSE t \div BlockSize + 1
           /\ Total(t) % BlockSize = 0
           /\ Total(t) \div BlockSize = (t + Pads(t)) \div BlockSize + 1
<1>1. PICK B, L, q, r, z : /\ B = BlockSize /\ L = LengthBytes
                           /\ q = t \div B /\ r = t % B /\ z = B * q
  OBVIOUS
<1>2. B \in Nat \ {0} /\ L \in Nat \ {0} /\ L < B /\ q \in Nat /\ r \in Nat
      /\ r < B /\ t = z + r /\ z \in Nat
  BY <1>1, Sizes, DivMod
<1>3. PICK d : d = Pads(t)
  OBVIOUS
<1>4. d = IF r < B - L THEN B - L - r ELSE 2 * B - L - r
  BY <1>1, <1>3 DEF Pads, PadLen
<1>5. d \in 1..B /\ d \in Nat
  BY <1>2, <1>4
<1>6. PICK e : e = IF r < B - L THEN q ELSE q + 1
  OBVIOUS
<1>7. e \in Nat /\ t + d = B * e + (B - L)
  <2>1. CASE r < B - L
    <3>1. d = B - L - r /\ e = q /\ B * e = z
      BY <1>1, <1>4, <1>6, <2>1
    <3> QED BY <1>2, <3>1
  <2>2. CASE ~(r < B - L)
    <3>1. d = 2 * B - L - r /\ e = q + 1
      BY <1>4, <1>6, <2>2
    <3>2. B * e = z + B
      BY <1>1, <1>2, <3>1
    <3> QED BY <1>2, <3>1, <3>2
  <2> QED BY <2>1, <2>2
<1>8. PICK T, R, U : T = t + d /\ R = B - L /\ U = T + L
  OBVIOUS
<1>9. R \in Nat /\ R < B /\ T = B * e + R
  BY <1>2, <1>7, <1>8
<1>10. T \div B = e /\ T % B = R
  <2>1. B \in Nat \ {0} /\ e \in Nat
    BY <1>2, <1>7
  <2> QED BY <1>9, <2>1, DivModOf
<1>11. U = B * (e + 1) + 0 /\ e + 1 \in Nat
  <2>1. e + 1 \in Nat /\ B * (e + 1) = B * e + B
    BY <1>2, <1>7
  <2>2. PICK k : k = B * e /\ k \in Nat
    BY <1>2, <1>7
  <2> QED BY <1>2, <1>8, <1>9, <2>1, <2>2
<1>12. U \div B = e + 1 /\ U % B = 0
  BY <1>2, <1>11, DivModOf
<1> QED BY <1>1, <1>3, <1>5, <1>6, <1>8, <1>10, <1>12 DEF Total

LEMMA PaddingIs ==
    ASSUME NEW t \in Nat
    PROVE  LET pad == SubSeq(PADDING, 1, Pads(t))
           IN  /\ IsSeq(pad, Pads(t))
               /\ \A k \in 1..Pads(t) : pad[k] = Appended(t, k)
<1>1. PICK B, d, pad : /\ B = BlockSize /\ d = Pads(t)
                       /\ pad = SubSeq(PADDING, 1, d)
  OBVIOUS
<1>2. B \in Nat \ {0} /\ d \in 1..B /\ d \in Nat
  BY <1>1, Sizes, PadFits
<1>3. IsSeq(PADDING, B)
  BY <1>1 DEF PADDING, IsSeq
<1>4. PICK S : PADDING \in Seq(S) /\ Len(PADDING) = B
  BY <1>2, <1>3, IsSeqIn
<1>5. pad = [j \in 1..(d + 1 - 1) |-> PADDING[1 + j - 1]]
  <2>1. 1 \in Nat \ {0} /\ 1 <= d + 1 /\ d <= B
    BY <1>2
  <2> QED BY <1>1, <1>2, <1>4, <2>1, SubSeqFun
<1>6. pad = [j \in 1..d |-> PADDING[j]]
  <2>1. d + 1 - 1 = d /\ \A j \in 1..d : 1 + j - 1 = j
    BY <1>2
  <2> QED BY <1>5, <2>1
<1>7. IsSeq(pad, d)
  BY <1>6 DEF IsSeq
<1>8. ASSUME NEW k \in 1..d PROVE pad[k] = Appended(t, k)
  <2>1. k \in 1..B /\ k <= d
    BY <1>2, <1>8
  <2>2. pad[k] = IF k = 1 THEN 2 ^ (Bits - 1) ELSE 0
    BY <1>1, <1>6, <1>8, <2>1 DEF PADDING
  <2> QED BY <1>1, <2>1, <2>2 DEF Appended
<1> QED BY <1>1, <1>7, <1>8

\* The last update fills the block and leaves the rest of the buffer alone.
LEMMA LastUpdate ==
    ASSUME NEW o, Shaped(o), Index(o._count) = BlockSize - LengthBytes,
           NEW input, IsSeq(input, LengthBytes),
           NEW i \in 0..(BlockSize - LengthBytes - 1)
    PROVE  Update(o, input)._buffer[i] = o._buffer[i]
<1>1. PICK B, L, old, head, tail :
         /\ B = BlockSize /\ L = LengthBytes /\ old = o._buffer
         /\ head = SubSeq(input, 1, L)
         /\ tail = SubSeq(input, L + ((L - L) \div B) * B + 1, L)
  OBVIOUS
<1>2. B \in Nat \ {0} /\ L \in Nat \ {0} /\ L < B /\ i \in Nat /\ i < B - L
  BY <1>1, Sizes
<1>3. PICK S : input \in Seq(S) /\ Len(input) = L
  BY <1>1, <1>2, IsSeqIn
<1>4. B - (B - L) = L /\ ~(L < B - (B - L)) /\ L - L = 0
  BY <1>2
<1>5. (L - L) \div B = 0
  <2>1. 0 = B * 0 + 0
    BY <1>2
  <2> QED BY <1>2, <1>4, <2>1, DivModOf
<1>6. tail = <<>>
  <2>1. L + 0 * B + 1 = L + 1 /\ L + 1 \in Int /\ L \in Int /\ L < L + 1
    BY <1>2
  <2>2. tail = SubSeq(input, L + 1, L)
    BY <1>1, <1>5, <2>1
  <2> QED BY <2>1, <2>2, SubSeqEmpty
<1>7. Update(o, input)._buffer = Copy(Copy(old, B - L, head), 0, tail)
  <2>1. PICK part, at : part = B - at /\ at = B - L
    OBVIOUS
  <2>2. part = L /\ at = Index(o._count) /\ ~(Len(input) < B - at)
    BY <1>1, <1>3, <1>4, <2>1
  <2>3. Update(o, input)._buffer = Copy(Copy(old, at, SubSeq(input, 1, part)), 0,
           SubSeq(input, part + ((Len(input) - part) \div B) * B + 1, Len(input)))
    BY <1>1, <2>1, <2>2, UpdateLong
  <2> QED BY <1>1, <1>3, <2>1, <2>2, <2>3
<1>8. i \in DOMAIN old
  <2>1. DOMAIN old = 0..(B - 1)
    BY <1>1 DEF Shaped
  <2> QED BY <1>2, <2>1
<1>9. Copy(old, B - L, head)[i] = old[i]
  <2>1. ~(i >= B - L)
    BY <1>2
  <2> QED BY <1>8, <2>1 DEF Copy
<1>10. Copy(Copy(old, B - L, head), 0, tail)[i] = Copy(old, B - L, head)[i]
  <2>1. ~(i < 0 + Len(tail))
    BY <1>2, <1>6
  <2>2. i \in DOMAIN Copy(old, B - L, head)
    BY <1>8, CopyDomain
  <2> QED BY <2>1, <2>2 DEF Copy
<1> QED BY <1>1, <1>7, <1>9, <1>10

\* final: the digest is that of the padded stream, _count and _state are
\* restored, and the buffer is that of the padding up to the length.
LEMMA FinalIs ==
    ASSUME NEW o, Shaped(o), NEW f, NEW t \in Nat, Counted(o._count, t),
           Holds(o, f, t)
    PROVE  LET new == Final(o).o
           IN  /\ Shaped(new)
               /\ new._count = o._count /\ new._state = o._state
               /\ Final(o).digest
                     = Chunks(Closed(f, t), 0, Total(t) \div BlockSize)
               /\ \A i \in 0..(BlockSize - LengthBytes - 1) :
                     new._buffer[i] = Closed(f, t)[BlockSize
                          * ((t + Pads(t)) \div BlockSize) + i + 1]
<1>1. PICK B, L, d, g, pad, code :
         /\ B = BlockSize /\ L = LengthBytes /\ d = Pads(t)
         /\ g = Closed(f, t) /\ pad = SubSeq(PADDING, 1, d)
         /\ code = Encode(o._count)
  OBVIOUS
<1>2. /\ B \in Nat \ {0} /\ L \in Nat \ {0} /\ L < B /\ d \in Nat \ {0}
      /\ (t + d) % B = B - L
  <2>1. /\ B \in Nat \ {0} /\ L \in Nat \ {0} /\ L < B
    BY <1>1, Sizes
  <2>2. d \in 1..B /\ (t + d) % B = B - L
    BY <1>1, PadFits
  <2> QED BY <2>1, <2>2
<1>3. \A p \in 1..t : f[p] = g[p]
  BY <1>1 DEF Closed
<1>4. Holds(o, g, t)
  BY <1>3, HoldsSame
<1>5. ASSUME NEW k \in Nat \ {0} PROVE g[t + k] = Appended(t, k)
  <2>1. t + k \in Nat /\ ~(t + k <= t) /\ t + k - t = k
    BY <1>5
  <2> QED BY <1>1, <2>1 DEF Closed
<1>6. IsSeq(pad, d) /\ \A k \in 1..d : pad[k] = g[t + k]
  <2>1. IsSeq(pad, d) /\ \A k \in 1..d : pad[k] = Appended(t, k)
    BY <1>1, PaddingIs
  <2>2. \A k \in 1..d : k \in Nat \ {0}
    OBVIOUS
  <2> QED BY <1>5, <2>1, <2>2
<1>7. PICK S : pad \in Seq(S) /\ Len(pad) = d
  BY <1>2, <1>6, IsSeqIn
<1>8. PICK a, b : a = Update(o, pad) /\ b = Update(a, code)
  OBVIOUS
<1>9. Holds(a, g, t + d)
  BY <1>4, <1>6, <1>7, <1>8, HoldsUpdate
<1>10. Shaped(a) /\ Counted(a._count, t + d)
  BY <1>2, <1>7, <1>8, UpdateShape, AddCounted
<1>11. Index(a._count) = B - L
  <2>1. t + d \in Nat
    BY <1>2
  <2> QED BY <1>1, <1>2, <1>10, <2>1, IndexCounted
<1>12. IsSeq(code, L) /\ \A k \in 1..L : code[k] = g[t + d + k]
  <2>1. IsSeq(code, L)
    BY <1>1, EncodeIs
  <2>2. ASSUME NEW k \in 1..L PROVE code[k] = g[t + d + k]
    <3>1. /\ d + k \in Nat \ {0} /\ d + k # 1 /\ ~(d + k <= d)
          /\ d + k - d - 1 = k - 1 /\ t + (d + k) = t + d + k
      BY <1>2, <2>2
    <3>2. g[t + d + k] = Appended(t, d + k)
      BY <1>5, <3>1
    <3>3. Appended(t, d + k) = (((t * Bits) % Wide)
                                   \div 2 ^ (Bits * (k - 1))) % 2 ^ Bits
      <4>1. PICK m : m = d + k
        OBVIOUS
      <4>2. m # 1 /\ ~(m <= d) /\ m - d - 1 = k - 1
        BY <1>2, <2>2, <3>1, <4>1
      <4>3. Appended(t, m) = (((t * Bits) % Wide)
                                   \div 2 ^ (Bits * (m - d - 1))) % 2 ^ Bits
        BY <1>1, <4>2 DEF Appended
      <4> QED BY <4>1, <4>2, <4>3
    <3>4. code[k] = (((t * Bits) % Wide) \div 2 ^ (Bits * (k - 1))) % 2 ^ Bits
      BY <1>1, <2>2, EncodeIs
    <3> QED BY <3>2, <3>3, <3>4
  <2> QED BY <2>1, <2>2
<1>13. PICK C : code \in Seq(C) /\ Len(code) = L
  BY <1>2, <1>12, IsSeqIn
<1>14. Holds(b, g, t + d + L)
  <2>1. PICK T : T = t + d
    OBVIOUS
  <2>2. T \in Nat /\ Holds(a, g, T) /\ Counted(a._count, T)
        /\ \A k \in 1..L : code[k] = g[T + k]
    BY <1>2, <1>9, <1>10, <1>12, <2>1
  <2>3. Holds(b, g, T + L)
    BY <1>8, <1>10, <1>13, <2>2, HoldsUpdate
  <2> QED BY <2>1, <2>3
<1>15. Shaped(b)
  BY <1>8, <1>10, UpdateShape
<1>16. ASSUME NEW i \in 0..(B - L - 1)
       PROVE  b._buffer[i] = g[B * ((t + d) \div B) + i + 1]
  <2>1. b._buffer[i] = a._buffer[i]
    BY <1>1, <1>8, <1>10, <1>11, <1>12, <1>16, LastUpdate
  <2>2. a._buffer[i] = g[B * ((t + d) \div B) + i + 1]
    BY <1>1, <1>2, <1>9, <1>16 DEF Holds
  <2> QED BY <2>1, <2>2
<1>17. Pads(t) = PadLen(Index(o._count))
  BY IndexCounted DEF Pads
<1>18. /\ Final(o).o = [b EXCEPT !._state = o._state, !._count = o._count]
       /\ Final(o).digest = b._state
  BY <1>1, <1>8, <1>17 DEF Final
<1>19. PICK new : new = [b EXCEPT !._state = o._state, !._count = o._count]
  OBVIOUS
<1>20. /\ Shaped(new) /\ new._count = o._count /\ new._state = o._state
       /\ new._buffer = b._buffer
  BY <1>15, <1>19 DEF Shaped
<1>21. b._state = Chunks(g, 0, Total(t) \div B)
  BY <1>1, <1>14 DEF Holds, Total
<1> QED BY <1>1, <1>16, <1>18, <1>19, <1>20, <1>21

-----------------------------------------------------------------------------
(* The invariant.                                                          *)

\* Byte number p of message g.
Stream(g) == [p \in Nat |-> g * (MaxBytes + 1) + p + 256]

\* What the object has absorbed is the message or, once digest() has
\* overwritten bytes, a stream with a zero where a block begins.
Absorbed(o, g, t, bad) ==
    \E f : /\ Holds(o, f, t)
           /\ ~bad => \A p \in 1..t : f[p] = Stream(g)[p]
           /\ bad => \E b \in Nat : /\ BlockSize * b + 1 \in 1..t
                                    /\ f[BlockSize * b + 1] = 0

\* The count says how long the message is; the blocks and the buffer hold
\* what was absorbed; and the last digest is right or spoiled.
IInv == /\ gen \in Nat /\ len \in Nat /\ left \in Nat \union {NoFile}
        /\ spoiled \in BOOLEAN
        /\ Shaped(h) /\ Counted(h._count, len)
        /\ Absorbed(h, gen, len, spoiled)
        /\ DigestRight

LEMMA DataIs ==
    ASSUME NEW g \in Nat, NEW t \in Nat, NEW n \in Nat
    PROVE  /\ IsSeq(Data(g, t + 1, t + n), n)
           /\ \A k \in 1..n : Data(g, t + 1, t + n)[k] = Stream(g)[t + k]
<1>1. PICK m : m = g * (MaxBytes + 1) /\ m \in Nat
  BY Sizes
<1>2. t + n - (t + 1) + 1 = n
  OBVIOUS
<1>3. Data(g, t + 1, t + n) = [k \in 1..n |-> m + (t + 1) + k + 255]
  BY <1>1, <1>2 DEF Data
<1>4. ASSUME NEW k \in 1..n
      PROVE  m + (t + 1) + k + 255 = m + (t + k) + 256 /\ t + k \in Nat
  BY <1>1, <1>4
<1>5. IsSeq(Data(g, t + 1, t + n), n)
  BY <1>3 DEF IsSeq
<1>6. ASSUME NEW k \in 1..n
      PROVE  Data(g, t + 1, t + n)[k] = Stream(g)[t + k]
  <2>1. PICK p : p = t + k
    OBVIOUS
  <2>2. Stream(g)[p] = m + p + 256
    BY <1>1, <1>4, <2>1 DEF Stream
  <2> QED BY <1>3, <1>4, <2>1, <2>2
<1> QED BY <1>5, <1>6

\* A message in the stream's terms.
LEMMA MessageIs ==
    ASSUME NEW g \in Nat, NEW n \in Nat
    PROVE  /\ IsSeq(Data(g, 1, n), n)
           /\ \A k \in 1..n : Data(g, 1, n)[k] = Stream(g)[k]
<1>1. PICK o \in Nat : o = 0
  OBVIOUS
<1>2. /\ IsSeq(Data(g, o + 1, o + n), n)
      /\ \A k \in 1..n : Data(g, o + 1, o + n)[k] = Stream(g)[o + k]
  BY DataIs
<1>3. o + 1 = 1 /\ o + n = n /\ \A k \in 1..n : o + k = k
  BY <1>1
<1> QED BY <1>2, <1>3

\* No byte of a message is a zero.
LEMMA StreamAbove ==
    ASSUME NEW g \in Nat, NEW p \in Nat
    PROVE  Stream(g)[p] # 0
<1>1. PICK m : m = g * (MaxBytes + 1) /\ m \in Nat
  BY Sizes
<1>2. m + p + 256 # 0
  BY <1>1
<1> QED BY <1>1, <1>2 DEF Stream

-----------------------------------------------------------------------------
(* The steps.                                                              *)

\* Feed: a piece of the message.
LEMMA FeedKeeps ==
    ASSUME gen \in Nat, len \in Nat, Shaped(h), Counted(h._count, len),
           Absorbed(h, gen, len, spoiled), NEW n \in Nat, Feed(n),
           gen' = gen, spoiled' = spoiled
    PROVE  /\ len' \in Nat /\ Shaped(h') /\ Counted(h'._count, len')
           /\ Absorbed(h', gen', len', spoiled')
<1>1. PICK f : /\ Holds(h, f, len)
               /\ ~spoiled => \A p \in 1..len : f[p] = Stream(gen)[p]
               /\ spoiled => \E b \in Nat : /\ BlockSize * b + 1 \in 1..len
                                            /\ f[BlockSize * b + 1] = 0
  BY DEF Absorbed
<1>2. PICK input, S, t, o, g :
         /\ input = Data(gen, len + 1, len + n) /\ t = len /\ o = h /\ g = gen
         /\ input \in Seq(S) /\ Len(input) = n
  BY DataIs, IsSeqIn
<1>3. h' = Update(o, input) /\ len' = t + n /\ t \in Nat
  BY <1>2 DEF Feed
<1>4. PICK e : e = [p \in Nat |-> IF p <= t THEN f[p] ELSE Stream(g)[p]]
  OBVIOUS
<1>5. \A p \in 1..t : f[p] = e[p]
  BY <1>3, <1>4
<1>6. Holds(o, e, t)
  BY <1>1, <1>2, <1>3, <1>5, HoldsSame
<1>7. ASSUME NEW k \in 1..n PROVE input[k] = e[t + k]
  <2>1. t + k \in Nat /\ ~(t + k <= t)
    BY <1>3, <1>7
  <2>2. input[k] = Stream(g)[t + k]
    BY <1>2, <1>7, DataIs
  <2> QED BY <1>4, <2>1, <2>2
<1>8. Holds(h', e, t + n)
  BY <1>2, <1>3, <1>6, <1>7, HoldsUpdate
<1>9. Shaped(h') /\ Counted(h'._count, t + n)
  <2>1. Shaped(o) /\ Counted(o._count, t)
    BY <1>2
  <2>2. Shaped(h') /\ h'._count = AddCount(o._count, n)
    BY <1>2, <1>3, <2>1, UpdateShape
  <2>3. Counted(AddCount(o._count, n), t + n)
    BY <1>3, <2>1, AddCounted
  <2> QED BY <2>2, <2>3
<1>10. ~spoiled => \A p \in 1..(t + n) : e[p] = Stream(g)[p]
  BY <1>1, <1>2, <1>3, <1>4
<1>11. spoiled => \E b \in Nat : /\ BlockSize * b + 1 \in 1..(t + n)
                                 /\ e[BlockSize * b + 1] = 0
  <2>1. SUFFICES ASSUME spoiled
                 PROVE  \E b \in Nat : /\ BlockSize * b + 1 \in 1..(t + n)
                                       /\ e[BlockSize * b + 1] = 0
    OBVIOUS
  <2>2. PICK b \in Nat : /\ BlockSize * b + 1 \in 1..t
                         /\ f[BlockSize * b + 1] = 0
    BY <1>1, <1>2, <2>1
  <2>3. PICK z : z = BlockSize * b + 1
    OBVIOUS
  <2>4. z \in 1..(t + n) /\ e[z] = 0
    BY <1>3, <1>5, <2>2, <2>3
  <2> QED BY <2>3, <2>4
<1>12. Absorbed(h', g, t + n, spoiled)
  BY <1>8, <1>10, <1>11 DEF Absorbed
<1> QED BY <1>2, <1>3, <1>9, <1>12

\* MD5's definition of the padded message, in the stream's terms.
LEMMA PaddedIs ==
    ASSUME NEW g \in Nat, NEW t \in Nat
    PROVE  LET padded == Padded(Data(g, 1, t))
           IN  Blocks(padded, 0, Len(padded) \div BlockSize)
                  = Chunks(Closed(Stream(g), t), 0, Total(t) \div BlockSize)
<1>1. PICK B, L, r, d, bits, x, y, message, zeros, code, c :
         /\ B = BlockSize /\ L = LengthBytes /\ r = t % B /\ d = Pads(t)
         /\ bits = (t * Bits) % Wide
         /\ message = Data(g, 1, t) /\ zeros = [k \in 1..(d - 1) |-> 0]
         /\ code = [k \in 1..L |-> (bits \div 2 ^ (Bits * (k - 1))) % 2 ^ Bits]
         /\ x = message \o <<2 ^ (Bits - 1)>> /\ y = x \o zeros
         /\ c = Closed(Stream(g), t)
  OBVIOUS
<1>2. /\ B \in Nat \ {0} /\ L \in Nat \ {0} /\ L < B /\ d \in Nat \ {0}
      /\ d \in 1..B /\ r \in Nat /\ r < B
      /\ d = IF r < B - L THEN B - L - r ELSE 2 * B - L - r
  <2>1. d \in 1..B /\ B \in Nat \ {0} /\ L \in Nat \ {0} /\ L < B
    BY <1>1, Sizes, PadFits
  <2>2. r \in Nat /\ r < B
    BY <1>1, <2>1, DivMod
  <2>3. d = IF r < B - L THEN B - L - r ELSE 2 * B - L - r
    BY <1>1 DEF Pads, PadLen
  <2> QED BY <2>1, <2>2, <2>3
<1>2a. B \in Nat \ {0}
  BY <1>2
<1>3. (2 * B - L - 1 - r) % B = d - 1
  <2>1. PICK a : a = 2 * B - L - 1 - r
    OBVIOUS
  <2>2. CASE r < B - L
    <3>1. PICK e, one : e = d - 1 /\ one = 1
      OBVIOUS
    <3>2. a = B * one + e /\ e \in Nat /\ e < B /\ one \in Nat
      BY <1>2, <2>1, <2>2, <3>1
    <3>3. a % B = e
      BY <1>2a, <3>2, DivModOf
    <3> QED BY <2>1, <3>1, <3>3
  <2>3. CASE ~(r < B - L)
    <3>1. PICK e, none : e = d - 1 /\ none = 0
      OBVIOUS
    <3>2. a = B * none + e /\ e \in Nat /\ e < B /\ none \in Nat
      BY <1>2, <2>1, <2>3, <3>1
    <3>3. a % B = e
      BY <1>2a, <3>2, DivModOf
    <3> QED BY <2>1, <3>1, <3>3
  <2> QED BY <2>2, <2>3
<1>4. IsSeq(message, t) /\ \A k \in 1..t : message[k] = Stream(g)[k]
  BY <1>1, MessageIs
<1>5. Len(message) = t
  BY <1>4, IsSeqIn
<1>6. Padded(message) = y \o code
  BY <1>1, <1>3, <1>5 DEF Padded
<1>7. IsSeq(x, t + 1) /\ x[t + 1] = 2 ^ (Bits - 1)
      /\ \A k \in 1..t : x[k] = Stream(g)[k]
  <2>0. PICK one \in Nat : one = 1
    OBVIOUS
  <2>1. PICK s : s = <<2 ^ (Bits - 1)>>
    OBVIOUS
  <2>2. IsSeq(s, one) /\ s[1] = 2 ^ (Bits - 1) /\ 1 \in 1..one
    BY <2>0, <2>1 DEF IsSeq
  <2>3. /\ IsSeq(message \o s, t + one)
        /\ \A k \in 1..t : (message \o s)[k] = message[k]
        /\ \A k \in 1..one : (message \o s)[t + k] = s[k]
    <3>1. t \in Nat /\ one \in Nat /\ IsSeq(message, t) /\ IsSeq(s, one)
      BY <1>4, <2>0, <2>2
    <3>2. Joins(message \o s, message, t, s, one)
      BY <3>1, ConcatIs
    <3> QED BY <3>2 DEF Joins
  <2> QED BY <1>1, <1>4, <2>0, <2>1, <2>2, <2>3
<1>8. IsSeq(y, t + d) /\ \A k \in 1..(t + d) : y[k] = c[k]
  <2>1. PICK e : e = d - 1
    OBVIOUS
  <2>2. PICK u : u = t + 1
    OBVIOUS
  <2>3. e \in Nat /\ u \in Nat /\ u + e = t + d
    BY <1>2, <2>1, <2>2
  <2>4. IsSeq(zeros, e) /\ \A k \in 1..e : zeros[k] = 0
    BY <1>1, <2>1 DEF IsSeq
  <2>5. /\ IsSeq(y, u + e) /\ \A k \in 1..u : y[k] = x[k]
        /\ \A k \in 1..e : y[u + k] = zeros[k]
    <3>1. IsSeq(x, u)
      BY <1>7, <2>2
    <3>2. y = x \o zeros
      BY <1>1
    <3>3. u \in Nat /\ e \in Nat /\ IsSeq(zeros, e)
      BY <2>3, <2>4
    <3>4. Joins(x \o zeros, x, u, zeros, e)
      BY <3>1, <3>3, ConcatIs
    <3> QED BY <3>2, <3>4 DEF Joins
  <2>6. ASSUME NEW k \in 1..(t + d) PROVE y[k] = c[k]
    <3>1. k \in Nat
      BY <2>6
    <3>2. CASE k <= t
      <4>1. k \in 1..t /\ k \in 1..u
        BY <2>2, <2>6, <3>2
      <4>2. c[k] = Stream(g)[k]
        BY <1>1, <3>1, <3>2 DEF Closed
      <4> QED BY <1>7, <2>5, <4>1, <4>2
    <3>3. CASE k = t + 1
      <4>1. k \in 1..u /\ ~(k <= t) /\ k - t = 1
        BY <2>2, <2>6, <3>3
      <4>2. c[k] = 2 ^ (Bits - 1)
        BY <1>1, <3>1, <4>1 DEF Closed, Appended
      <4> QED BY <1>7, <2>5, <3>3, <4>1, <4>2
    <3>4. CASE k > t + 1
      <4>1. PICK j, l : j = k - u /\ l = k - t
        OBVIOUS
      <4>2. j \in 1..e /\ u + j = k /\ ~(k <= t) /\ l # 1 /\ l <= d
        BY <1>2, <2>1, <2>2, <2>6, <3>4, <4>1
      <4>3. c[k] = 0
        BY <1>1, <3>1, <4>1, <4>2 DEF Closed, Appended
      <4> QED BY <2>4, <2>5, <4>2, <4>3
    <3> QED BY <3>1, <3>2, <3>3, <3>4
  <2> QED BY <2>3, <2>5, <2>6
<1>9. PICK w, N, T : w = y \o code /\ N = Total(t) /\ T = t + d
  OBVIOUS
<1>10. T \in Nat /\ N = T + L /\ N \in Nat
  <2>1. N = t + d + L
    BY <1>1, <1>9 DEF Total
  <2> QED BY <1>2, <1>9, <2>1
<1>11. /\ IsSeq(w, N) /\ \A k \in 1..T : w[k] = y[k]
       /\ \A k \in 1..L : w[T + k] = code[k]
  <2>1. IsSeq(code, L)
    BY <1>1 DEF IsSeq
  <2>2. IsSeq(y, T)
    BY <1>8, <1>9
  <2>3. L \in Nat
    BY <1>2
  <2>4. w = y \o code
    BY <1>9
  <2>5. T \in Nat
    BY <1>10
  <2>6. /\ IsSeq(w, T + L) /\ \A k \in 1..T : w[k] = y[k]
        /\ \A k \in 1..L : w[T + k] = code[k]
    <3>1. Joins(y \o code, y, T, code, L)
      BY <2>1, <2>2, <2>3, <2>5, ConcatIs
    <3> QED BY <2>4, <3>1 DEF Joins
  <2> QED BY <1>10, <2>6
<1>12. ASSUME NEW p \in 1..N PROVE w[p] = c[p]
  <2>1. CASE p <= T
    <3>1. p \in 1..T
      BY <1>10, <1>12, <2>1
    <3>2. y[p] = c[p]
      BY <1>8, <1>9, <3>1
    <3> QED BY <1>11, <3>1, <3>2
  <2>2. CASE ~(p <= T)
    <3>1. PICK k, l : k = p - T /\ l = p - t
      OBVIOUS
    <3>2. k \in 1..L /\ T + k = p /\ p \in Nat /\ ~(p <= t) /\ l # 1
          /\ ~(l <= d) /\ l - d - 1 = k - 1
      BY <1>2, <1>9, <1>10, <1>12, <2>2, <3>1
    <3>3. c[p] = Appended(t, l)
      BY <1>1, <3>1, <3>2 DEF Closed
    <3>4. Appended(t, l) = (bits \div 2 ^ (Bits * (l - d - 1))) % 2 ^ Bits
      BY <1>1, <3>2 DEF Appended
    <3>5. code[k] = (bits \div 2 ^ (Bits * (k - 1))) % 2 ^ Bits
      BY <1>1, <3>2
    <3> QED BY <1>11, <3>2, <3>3, <3>4, <3>5
  <2> QED BY <2>1, <2>2
<1>13. Len(w) = N
  BY <1>10, <1>11, IsSeqIn
<1>14. PICK n : n = N \div B
  OBVIOUS
<1>15. n \in Nat /\ B * n <= N
  <2>1. n \in Nat /\ N = B * n + (N % B) /\ N % B \in Nat
    BY <1>2, <1>10, <1>14, DivMod
  <2>2. PICK z : z = B * n /\ z \in Nat
    BY <1>2, <2>1
  <2> QED BY <1>10, <2>1, <2>2
<1>16. Blocks(w, 0, n) = Chunks(w, 0, n)
  BY <1>1, <1>10, <1>11, <1>15, BlocksAre
<1>17. \A p \in 1..(B * n) : w[p] = c[p]
  <2>1. PICK z : z = B * n /\ z \in Nat /\ z <= N
    BY <1>2, <1>15
  <2>2. \A p \in 1..z : p \in 1..N
    BY <1>10, <2>1
  <2> QED BY <1>12, <2>1, <2>2
<1>18. Chunks(w, 0, n) = Chunks(c, 0, n)
  BY <1>1, <1>15, <1>17, ChunksSame
<1> QED BY <1>1, <1>6, <1>9, <1>13, <1>14, <1>16, <1>18

\* digest(): the buffer below the padding survives if the length fits into
\* this block; if not, its first byte is now one of the padding's zeros.
LEMMA DigestKeeps ==
    ASSUME NEW o, Shaped(o), NEW t \in Nat, NEW g \in Nat, NEW bad \in BOOLEAN,
           Counted(o._count, t), Absorbed(o, g, t, bad)
    PROVE  Absorbed(Final(o).o, g, t,
                    bad \/ Index(o._count) >= BlockSize - LengthBytes)
<1>1. PICK f : /\ Holds(o, f, t)
               /\ ~bad => \A p \in 1..t : f[p] = Stream(g)[p]
               /\ bad => \E b \in Nat : /\ BlockSize * b + 1 \in 1..t
                                        /\ f[BlockSize * b + 1] = 0
  BY DEF Absorbed
<1>2. PICK B, L, q, r, z, d, new, c :
         /\ B = BlockSize /\ L = LengthBytes /\ q = t \div B /\ r = t % B
         /\ z = B * q /\ d = Pads(t) /\ new = Final(o).o /\ c = Closed(f, t)
  OBVIOUS
<1>3. B \in Nat \ {0} /\ L \in Nat \ {0} /\ L < B /\ q \in Nat /\ r \in Nat
      /\ r < B /\ z \in Nat /\ t = z + r
  BY <1>2, Sizes, DivMod
<1>4. Index(o._count) = r
  BY <1>2, IndexCounted
<1>5. /\ new._state = o._state
      /\ \A i \in 0..(B - L - 1) :
            new._buffer[i] = c[B * ((t + d) \div B) + i + 1]
  BY <1>1, <1>2, FinalIs
<1>6. o._state = Chunks(f, 0, q)
  BY <1>1, <1>2 DEF Holds
<1>7. CASE r < B - L
  <2>1. (t + d) \div B = q
    BY <1>2, <1>7, PadFits
  <2>2. ASSUME NEW i \in 0..(r - 1) PROVE new._buffer[i] = f[B * q + i + 1]
    <3>1. i \in 0..(B - L - 1) /\ z + i + 1 <= t /\ z + i + 1 \in Nat
      BY <1>3, <1>7, <2>2
    <3>2. new._buffer[i] = c[z + i + 1]
      BY <1>2, <1>5, <2>1, <3>1
    <3>3. c[z + i + 1] = f[z + i + 1]
      BY <1>2, <3>1 DEF Closed
    <3> QED BY <1>2, <3>2, <3>3
  <2>3. Holds(new, f, t)
    BY <1>2, <1>5, <1>6, <2>2 DEF Holds
  <2>4. (bad \/ r >= B - L) <=> bad
    BY <1>3, <1>7
  <2>5. Absorbed(new, g, t, bad)
    BY <1>1, <2>3 DEF Absorbed
  <2>6. (bad \/ r >= B - L) = bad
    BY <2>4
  <2> QED BY <1>2, <1>4, <2>5, <2>6
<1>8. CASE ~(r < B - L)
  <2>1. (t + d) \div B = q + 1
    BY <1>2, <1>8, PadFits
  <2>2. new._buffer[0] = 0
    <3>1. B * (q + 1) = z + B /\ 0 \in 0..(B - L - 1)
      BY <1>2, <1>3
    <3>2. PICK p : p = z + B + 0 + 1
      OBVIOUS
    <3>3. new._buffer[0] = c[p]
      BY <1>5, <2>1, <3>1, <3>2
    <3>4. PICK k : k = p - t
      OBVIOUS
    <3>5. d = 2 * B - L - r
      BY <1>2, <1>8 DEF Pads, PadLen
    <3>6. p \in Nat /\ ~(p <= t) /\ k # 1 /\ k <= d
      BY <1>3, <3>2, <3>4, <3>5
    <3>7. c[p] = Appended(t, k)
      BY <1>2, <3>4, <3>6 DEF Closed
    <3>8. Appended(t, k) = 0
      BY <1>2, <3>6 DEF Appended
    <3> QED BY <3>3, <3>7, <3>8
  <2>3. PICK e : e = [p \in Nat |-> IF p <= z THEN f[p]
                                    ELSE new._buffer[p - z - 1]]
    OBVIOUS
  <2>4. \A p \in 1..(B * q) : f[p] = e[p]
    BY <1>2, <1>3, <2>3
  <2>5. Chunks(f, 0, q) = Chunks(e, 0, q)
    BY <1>2, <1>3, <2>4, ChunksSame
  <2>6. ASSUME NEW i \in 0..(r - 1) PROVE new._buffer[i] = e[B * q + i + 1]
    <3>1. PICK p : p = z + i + 1
      OBVIOUS
    <3>2. p \in Nat /\ ~(p <= z) /\ p - z - 1 = i
      BY <1>3, <2>6, <3>1
    <3>3. e[p] = new._buffer[p - z - 1]
      BY <2>3, <3>2
    <3> QED BY <1>2, <3>1, <3>2, <3>3
  <2>7. Holds(new, e, t)
    BY <1>2, <1>5, <1>6, <2>5, <2>6 DEF Holds
  <2>8. B * q + 1 \in 1..t /\ e[B * q + 1] = 0
    <3>1. PICK p : p = z + 1
      OBVIOUS
    <3>2. p \in Nat /\ ~(p <= z) /\ p - z - 1 = 0 /\ p \in 1..t
      BY <1>3, <1>8, <3>1
    <3>3. e[p] = new._buffer[p - z - 1]
      BY <2>3, <3>2
    <3> QED BY <1>2, <2>2, <3>1, <3>2, <3>3
  <2>9. \E b \in Nat : BlockSize * b + 1 \in 1..t /\ e[BlockSize * b + 1] = 0
    BY <1>2, <1>3, <2>8
  <2>10. (bad \/ r >= B - L) = TRUE
    <3>1. r >= B - L
      BY <1>3, <1>8
    <3> QED BY <3>1
  <2>11. Absorbed(new, g, t, TRUE)
    BY <2>7, <2>9 DEF Absorbed
  <2> QED BY <1>2, <1>4, <2>10, <2>11
<1> QED BY <1>7, <1>8

\* The digest of what was absorbed is MD5's, or a zero gives it away.
LEMMA DigestIs ==
    ASSUME NEW o, Shaped(o), NEW t \in Nat, NEW g \in Nat, NEW bad \in BOOLEAN,
           Counted(o._count, t), Absorbed(o, g, t, bad)
    PROVE  LET padded == Padded(Data(g, 1, t))
           IN  (Final(o).digest = Blocks(padded, 0, Len(padded) \div BlockSize))
               <=> ~bad
<1>1. PICK f : /\ Holds(o, f, t)
               /\ ~bad => \A p \in 1..t : f[p] = Stream(g)[p]
               /\ bad => \E b \in Nat : /\ BlockSize * b + 1 \in 1..t
                                        /\ f[BlockSize * b + 1] = 0
  BY DEF Absorbed
<1>2. PICK B, n, c, s, padded :
         /\ B = BlockSize /\ n = Total(t) \div B /\ c = Closed(f, t)
         /\ s = Closed(Stream(g), t) /\ padded = Padded(Data(g, 1, t))
  OBVIOUS
<1>3. Final(o).digest = Chunks(c, 0, n)
  BY <1>1, <1>2, FinalIs
<1>4. Blocks(padded, 0, Len(padded) \div B) = Chunks(s, 0, n)
  BY <1>2, PaddedIs
<1>5. B \in Nat \ {0} /\ n \in Nat /\ t <= B * n /\ B * n \in Nat
  <2>1. PICK N, L, d : N = Total(t) /\ L = LengthBytes /\ d = Pads(t)
    OBVIOUS
  <2>2. N = t + d + L /\ d \in 1..B /\ L \in Nat /\ N % B = 0 /\ B \in Nat \ {0}
    BY <1>2, <2>1, PadFits, Sizes DEF Total
  <2>3. N \in Nat /\ t <= N
    BY <2>2
  <2>4. n \in Nat /\ N = B * n + (N % B)
    <3>1. n = N \div B /\ B \in Nat \ {0}
      BY <1>2, <2>1, <2>2
    <3> QED BY <2>3, <3>1, DivMod
  <2>5. PICK z : z = B * n /\ z \in Nat
    BY <2>2, <2>4
  <2>6. N = z
    BY <2>2, <2>4, <2>5
  <2> QED BY <2>2, <2>3, <2>4, <2>5, <2>6
<1>6. ASSUME NEW p \in Nat, p <= t PROVE c[p] = f[p] /\ s[p] = Stream(g)[p]
  BY <1>2, <1>6 DEF Closed
<1>7. CASE ~bad
  <2>1. ASSUME NEW p \in 1..(B * n) PROVE c[p] = s[p]
    <3>1. p \in Nat
      BY <1>5, <2>1
    <3>2. CASE p <= t
      <4>1. p \in 1..t
        BY <1>5, <2>1, <3>2
      <4> QED BY <1>1, <1>6, <1>7, <3>1, <3>2, <4>1
    <3>3. CASE ~(p <= t)
      BY <1>2, <3>1, <3>3 DEF Closed
    <3> QED BY <3>2, <3>3
  <2>2. Chunks(c, 0, n) = Chunks(s, 0, n)
    BY <1>2, <1>5, <2>1, ChunksSame
  <2> QED BY <1>2, <1>3, <1>4, <1>7, <2>2
<1>8. CASE bad
  <2>1. PICK b \in Nat : B * b + 1 \in 1..t /\ f[B * b + 1] = 0
    BY <1>1, <1>2, <1>8
  <2>2. PICK z, k : z = B * b /\ z \in Nat /\ k = b + 1
    BY <1>5, <2>1
  <2>3. z + 1 \in Nat /\ z + 1 <= t /\ f[z + 1] = 0
    BY <2>1, <2>2
  <2>4. c[z + 1] = 0 /\ s[z + 1] # 0
    BY <1>6, <2>3, StreamAbove
  <2>5. k \in 1..n
    <3>1. b < n
      <4>1. SUFFICES ASSUME n <= b PROVE FALSE
        BY <1>5, <2>1
      <4>2. B * n <= B * b
        BY <1>5, <2>1, <4>1, MulMono
      <4>3. PICK y : y = B * n /\ y \in Nat /\ t <= y
        BY <1>5
      <4> QED BY <2>2, <2>3, <4>2, <4>3
    <3> QED BY <1>5, <2>1, <2>2, <3>1
  <2>6. Chunks(c, 0, n)[k][1] = c[z + 1] /\ Chunks(s, 0, n)[k][1] = s[z + 1]
    <3>1. 0 + k - 1 = b /\ 1 \in 1..B
      BY <1>5, <2>1, <2>2
    <3>2. Chunks(c, 0, n)[k] = Chunk(c, 0 + k)
          /\ Chunks(s, 0, n)[k] = Chunk(s, 0 + k)
      BY <2>5 DEF Chunks
    <3>3. Chunk(c, 0 + k)[1] = c[z + 1] /\ Chunk(s, 0 + k)[1] = s[z + 1]
      BY <1>2, <2>2, <3>1 DEF Chunk
    <3> QED BY <3>2, <3>3
  <2>7. Chunks(c, 0, n) # Chunks(s, 0, n)
    BY <2>4, <2>6
  <2> QED BY <1>2, <1>3, <1>4, <1>8, <2>7
<1> QED BY <1>7, <1>8

-----------------------------------------------------------------------------
(* The theorems.                                                           *)

LEMMA InitHolds == Init => IInv
<1>1. SUFFICES ASSUME Init PROVE IInv
  OBVIOUS
<1>2. PICK none \in Nat : none = 0
  OBVIOUS
<1>3. /\ gen \in Nat /\ len = none /\ left \in Nat \union {NoFile}
      /\ spoiled = FALSE /\ _digest = NoDigest
  BY <1>1, <1>2 DEF Init
<1>4. Shaped(h) /\ h._count = <<0, 0>> /\ h._state = <<>>
  BY <1>1 DEF Init, Reset, Shaped
<1>5. Counted(h._count, none)
  <2>1. 0 \in Words
    BY Sizes DEF Words
  <2>2. none * Bits = Word * (Word * 0 + 0) + 0
    BY <1>2, Sizes
  <2> QED BY <1>4, <2>1, <2>2, CountedIs
<1>6. Absorbed(h, gen, none, FALSE)
  <2>1. none = BlockSize * 0 + 0
    BY <1>2, Sizes
  <2>2. none \div BlockSize = 0 /\ none % BlockSize = 0
    BY <2>1, Sizes, DivModOf
  <2>3. Chunks(Stream(gen), 0, 0) = <<>>
    BY DEF Chunks
  <2>4. Holds(h, Stream(gen), none)
    BY <1>4, <2>2, <2>3 DEF Holds
  <2> QED BY <2>4 DEF Absorbed
<1>7. DigestRight
  BY <1>3 DEF DigestRight, NoDigest
<1> QED BY <1>3, <1>4, <1>5, <1>6, <1>7 DEF IInv

\* A piece of the message, fed by any of the methods.
LEMMA FeedStep ==
    ASSUME IInv, NEW n \in Nat, Feed(n),
           left' \in Nat \union {NoFile}, UNCHANGED <<_digest, gen, spoiled>>
    PROVE  IInv'
<1>1. /\ len' \in Nat /\ Shaped(h') /\ Counted(h'._count, len')
      /\ Absorbed(h', gen', len', spoiled')
  BY FeedKeeps DEF IInv
<1>2. DigestRight'
  BY DEF IInv, DigestRight
<1> QED BY <1>1, <1>2 DEF IInv

LEMMA DigestStep ==
    ASSUME IInv, digest
    PROVE  IInv'
<1>1. CASE h._finished
  <2>1. UNCHANGED <<h, _digest, gen, len, spoiled, left>>
    BY <1>1 DEF digest
  <2> QED BY <2>1 DEF IInv, DigestRight
<1>2. CASE ~h._finished
  <2>1. PICK o, t, g, bad : /\ o = [h EXCEPT !._finished = TRUE]
                            /\ t = len /\ g = gen /\ bad = spoiled
    OBVIOUS
  <2>2. /\ h' = Final(o).o
        /\ _digest' = [blocks |-> Final(o).digest, of |-> t, spoiled |-> bad]
        /\ spoiled' = (bad \/ Index(h._count) >= BlockSize - LengthBytes)
        /\ gen' = g /\ len' = t /\ left' = left
    BY <1>2, <2>1 DEF digest
  <2>3. /\ Shaped(o) /\ o._count = h._count /\ o._state = h._state
        /\ o._buffer = h._buffer
    BY <2>1 DEF IInv, Shaped
  <2>4. t \in Nat /\ g \in Nat /\ bad \in BOOLEAN /\ Counted(o._count, t)
    BY <2>1, <2>3 DEF IInv
  <2>5. Absorbed(o, g, t, bad)
    <3>1. PICK f : /\ Holds(h, f, t)
                   /\ ~bad => \A p \in 1..t : f[p] = Stream(g)[p]
                   /\ bad => \E b \in Nat : /\ BlockSize * b + 1 \in 1..t
                                            /\ f[BlockSize * b + 1] = 0
      BY <2>1 DEF IInv, Absorbed
    <3>2. Holds(o, f, t)
      BY <2>3, <3>1 DEF Holds
    <3> QED BY <3>1, <3>2 DEF Absorbed
  <2>6. Absorbed(h', g, t, spoiled')
    BY <2>2, <2>3, <2>4, <2>5, DigestKeeps
  <2>7. PICK f : Holds(o, f, t)
    BY <2>5 DEF Absorbed
  <2>8. Shaped(h') /\ h'._count = o._count
    BY <2>2, <2>3, <2>4, <2>7, FinalIs
  <2>9. DigestRight'
    <3>1. LET padded == Padded(Data(g, 1, t))
          IN  (Final(o).digest = Blocks(padded, 0, Len(padded) \div BlockSize))
              <=> ~bad
      BY <2>3, <2>4, <2>5, DigestIs
    <3>2. _digest'.blocks = Final(o).digest /\ _digest'.of = t
          /\ _digest'.spoiled = bad
      BY <2>2
    <3> QED BY <2>2, <3>1, <3>2 DEF DigestRight
  <2>10. spoiled' \in BOOLEAN
    BY <2>2
  <2> QED BY <2>2, <2>4, <2>6, <2>8, <2>9, <2>10 DEF IInv
<1> QED BY <1>1, <1>2

LEMMA ResetStep ==
    ASSUME IInv, reset
    PROVE  IInv'
<1>1. PICK none \in Nat : none = 0
  OBVIOUS
<1>2. /\ h' = Reset(h) /\ gen' = gen + 1 /\ len' = none /\ spoiled' = FALSE
      /\ _digest' = NoDigest /\ left' = left
  BY <1>1 DEF reset
<1>3. Shaped(h') /\ h'._count = <<0, 0>> /\ h'._state = <<>>
  BY <1>2 DEF IInv, Reset, Shaped
<1>4. Counted(h'._count, none)
  <2>1. 0 \in Words
    BY Sizes DEF Words
  <2>2. none * Bits = Word * (Word * 0 + 0) + 0
    BY <1>1, Sizes
  <2> QED BY <1>3, <2>1, <2>2, CountedIs
<1>5. PICK g : g = gen'
  OBVIOUS
<1>6. Absorbed(h', g, none, FALSE)
  <2>1. none = BlockSize * 0 + 0
    BY <1>1, Sizes
  <2>2. none \div BlockSize = 0 /\ none % BlockSize = 0
    BY <2>1, Sizes, DivModOf
  <2>3. Chunks(Stream(g), 0, 0) = <<>>
    BY DEF Chunks
  <2>4. Holds(h', Stream(g), none)
    BY <1>3, <2>2, <2>3 DEF Holds
  <2> QED BY <2>4 DEF Absorbed
<1>7. DigestRight'
  BY <1>2 DEF DigestRight, NoDigest
<1>8. gen' \in Nat
  BY <1>2 DEF IInv
<1> QED BY <1>2, <1>3, <1>4, <1>5, <1>6, <1>7, <1>8 DEF IInv

LEMMA NextKeeps == IInv /\ [Next]_vars => IInv'
<1>1. SUFFICES ASSUME IInv, [Next]_vars PROVE IInv'
  OBVIOUS
<1>2. ASSUME NEW n \in Lengths, update(n) PROVE IInv'
  <2>1. n \in Nat
    BY <1>2, MD5Assumption
  <2> QED BY <1>1, <1>2, <2>1, FeedStep DEF update, IInv
<1>3. ASSUME NEW n \in Lengths, updateFile(n) PROVE IInv'
  <2>1. n \in Nat
    BY <1>3, MD5Assumption
  <2>2. UNCHANGED <<h, _digest, gen, len, spoiled>> /\ left' = n
    BY <1>3 DEF updateFile
  <2> QED BY <1>1, <2>1, <2>2 DEF IInv, DigestRight
<1>4. ASSUME readPiece PROVE IInv'
  <2>1. PICK n : n = IF left < BUFFER_SIZE THEN left ELSE BUFFER_SIZE
    OBVIOUS
  <2>2. left \in Nat /\ BUFFER_SIZE \in Nat
    BY <1>1, <1>4, MD5Assumption DEF readPiece, IInv
  <2>3. /\ n \in Nat /\ UNCHANGED <<_digest, gen, spoiled>>
        /\ (n > 0 /\ Feed(n)) \/ (n = 0 /\ UNCHANGED <<h, len>>)
        /\ left' \in Nat \union {NoFile}
    BY <1>4, <2>1, <2>2 DEF readPiece
  <2>4. CASE Feed(n)
    BY <1>1, <2>3, <2>4, FeedStep
  <2>5. CASE UNCHANGED <<h, len>>
    BY <1>1, <2>3, <2>5 DEF IInv, DigestRight
  <2> QED BY <2>3, <2>4, <2>5
<1>5. ASSUME readFails PROVE IInv'
  BY <1>1, <1>5 DEF readFails, IInv, DigestRight
<1>6. CASE UNCHANGED vars
  BY <1>1, <1>6 DEF vars, IInv, DigestRight
<1> QED BY <1>1, <1>2, <1>3, <1>4, <1>5, <1>6, DigestStep, ResetStep DEF Next

\* IInv holds in every state, for all sizes and every sequence of calls.
THEOREM DigestInvariant == Spec => []IInv
BY InitHolds, NextKeeps, PTL DEF Spec

\* The two words of _count: no carry is lost or counted twice (AddCounted).
THEOREM CountsExactly == Spec => []CountExact
<1>1. IInv => CountExact
  BY DEF IInv, Counted, CountExact
<1> QED BY <1>1, DigestInvariant, PTL

\* The blocks given to transform and the bytes in the buffer are the
\* message, however it was cut, until digest() spoils the buffer.
THEOREM KeepsTheTail == Spec => []TailKept
<1>1. ASSUME IInv, ~spoiled
      PROVE  LET full == len \div BlockSize
                 message == Data(gen, 1, len)
             IN  /\ h._state = Blocks(message, 0, full)
                 /\ \A i \in 0..(len - full * BlockSize - 1) :
                       h._buffer[i] = message[full * BlockSize + i + 1]
  <2>1. PICK B, t, q, r, z, m : /\ B = BlockSize /\ t = len /\ q = t \div B
                                /\ r = t % B /\ z = B * q
                                /\ m = Data(gen, 1, t)
    OBVIOUS
  <2>2. /\ B \in Nat \ {0} /\ t \in Nat /\ q \in Nat /\ r \in Nat /\ r < B
        /\ z \in Nat /\ t = z + r
    <3>1. t \in Nat /\ B \in Nat \ {0}
      BY <1>1, <2>1, Sizes DEF IInv
    <3>2. q \in Nat /\ r \in Nat /\ r < B /\ t = B * q + r
      BY <2>1, <3>1, DivMod
    <3> QED BY <2>1, <3>1, <3>2
  <2>3. q * B = z /\ t - z - 1 = r - 1 /\ B * q <= t
    BY <2>1, <2>2
  <2>4. PICK f : /\ Holds(h, f, t)
                 /\ \A p \in 1..t : f[p] = Stream(gen)[p]
    BY <1>1, <2>1 DEF IInv, Absorbed
  <2>5. IsSeq(m, t) /\ \A p \in 1..t : m[p] = Stream(gen)[p]
    BY <1>1, <2>1, <2>2, MessageIs DEF IInv
  <2>6. \A p \in 1..t : f[p] = m[p]
    BY <2>4, <2>5
  <2>7. Holds(h, m, t)
    BY <2>2, <2>4, <2>6, HoldsSame
  <2>8. Blocks(m, 0, q) = Chunks(m, 0, q)
    BY <2>1, <2>2, <2>3, <2>5, BlocksAre
  <2>9. \A i \in 0..(r - 1) : h._buffer[i] = m[z + i + 1]
    BY <2>1, <2>7 DEF Holds
  <2>10. h._state = Chunks(m, 0, q)
    BY <2>1, <2>7 DEF Holds
  <2> QED BY <2>1, <2>3, <2>8, <2>9, <2>10
<1>2. IInv => TailKept
  BY <1>1 DEF TailKept
<1> QED BY <1>2, DigestInvariant, PTL

\* digest() is MD5's for the message so far, if and only if no earlier call
\* of it overwrote bytes that were still needed.
THEOREM DigestsRightly == Spec => []DigestRight
<1>1. IInv => DigestRight
  BY DEF IInv
<1> QED BY <1>1, DigestInvariant, PTL
=============================================================================
