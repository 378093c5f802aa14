-------------------------------- MODULE MD5 --------------------------------
(***************************************************************************)
(* utils/md5.cpp: an MD5 object that is fed a message in pieces and asked  *)
(* for its digest, possibly more than once.                                *)
(*                                                                         *)
(* transform, which mixes a block into _state, is kept abstract: _state is *)
(* the sequence of the blocks it was given, so that two states are equal   *)
(* only if MD5 is the same by definition.  The sizes are parameters; a     *)
(* byte of the message is a number that says where it comes from.          *)
(***************************************************************************)
EXTENDS Integers, Sequences

CONSTANTS ByteShift,   \* a byte has 2 ^ ByteShift bits (3 in the code)
          WordBytes,   \* bytes in a uint32 (4)
          BlockSize,   \* bytes in a block (64)
          BUFFER_SIZE, \* bytes read from a file at a time (1024)
          Lengths,     \* bound: the lengths of one piece
          MaxBytes,    \* bound: the length of a message
          MaxMessages, \* bound: messages fed to the object
          MaxDigests   \* bound: calls of digest() per message

Bits == 2 ^ ByteShift
WordBits == WordBytes * Bits
Word == 2 ^ WordBits
Wide == Word * Word
LengthBytes == 2 * WordBytes   \* bytes[8]: the two words of count

\* A block and its padding fit, a word counts the bits of whole blocks, and no
\* piece is so long that (uint32)length loses part of it.
ASSUME MD5Assumption ==
    /\ ByteShift \in Nat /\ WordBytes \in Nat \ {0} /\ BlockSize \in Nat \ {0}
    /\ \E k \in 1..WordBits : BlockSize = 2 ^ k
    /\ Bits \in Nat \ {0} /\ Word \in Nat \ {0}
    /\ BlockSize > LengthBytes /\ Word % (BlockSize * Bits) = 0
    /\ BUFFER_SIZE \in Nat \ {0}
    /\ \A n \in Lengths : n \in Nat /\ n < Word
    /\ MaxBytes \in Nat /\ MaxMessages \in Nat /\ MaxDigests \in Nat

\* The law of powers, for those the length in bytes needs.
ASSUME PowerAssumption ==
    /\ \A i \in 0..LengthBytes : 2 ^ (Bits * i) \in Nat \ {0}
    /\ \A i, j \in 0..LengthBytes :
          i + j \in 0..LengthBytes =>
             2 ^ (Bits * (i + j)) = 2 ^ (Bits * i) * 2 ^ (Bits * j)

VARIABLES
    h,        \* _count, _buffer, _state, _finished
    _digest,  \* what the last call of digest() returned, and for what
    gen, len, \* history: number of the message, and its bytes so far
    asked,    \* number of calls of digest() for the message
    spoiled,  \* history: digest() overwrote bytes that were still needed
    left,     \* bytes of the file that update(ifstream&) has yet to read
    stuck     \* reading a file that fails without reaching its end

vars == <<h, _digest, gen, len, asked, spoiled, left, stuck>>

\* the bytes of message g with numbers i..j; above any value of a byte
Data(g, i, j) == [k \in 1..(j - i + 1) |-> g * (MaxBytes + 1) + i + k + 255]

Junk == -1     \* uninitialised memory
NoFile == -1   \* no call of update(ifstream&) in progress
NoDigest == [blocks |-> <<>>, of |-> -1, spoiled |-> FALSE]

Reset(old) == [old EXCEPT !._finished = FALSE, !._count = <<0, 0>>,
                          !._state = <<>>]

Init == /\ h = Reset([_count |-> <<0, 0>>, _state |-> <<>>, _finished |-> FALSE,
                      _buffer |-> [i \in 0..(BlockSize - 1) |-> Junk]])
        /\ _digest = NoDigest /\ gen = 1 /\ len = 0 /\ asked = 0
        /\ spoiled = FALSE /\ left = NoFile /\ stuck = FALSE

-----------------------------------------------------------------------------
(* update(const byte*, size_t).                                            *)

\* the number of bytes in the buffer
Index(count) == (count[1] \div Bits) % BlockSize

\* the count without the carry into the high word
AddNoCarry(count, n) ==
    <<(count[1] + n * Bits) % Word, (count[2] + (n * Bits) \div Word) % Word>>

\* the two words, low first, plus n bytes
AddCount(count, n) ==
    LET add == (n * Bits) % Word
        low == (count[1] + add) % Word
        carry == IF low < add THEN 1 ELSE 0
    IN  <<low, (count[2] + carry + (n * Bits) \div Word) % Word>>

\* memcpy to buffer[at]
Copy(buffer, at, bytes) ==
    [i \in DOMAIN buffer |-> IF i >= at /\ i < at + Len(bytes)
                             THEN bytes[i - at + 1] ELSE buffer[i]]

Block(buffer) == [k \in 1..BlockSize |-> buffer[k - 1]]

\* n blocks of the sequence, from its byte number i + 1
Blocks(bytes, i, n) ==
    [k \in 1..n |-> SubSeq(bytes, i + (k - 1) * BlockSize + 1,
                                  i + k * BlockSize)]

\* The body of update; what is left over goes to the buffer from `rest` on.
Absorb(o, input, rest) ==
    LET index == Index(o._count)
        partLen == BlockSize - index
        filled == Copy(o._buffer, index, SubSeq(input, 1, partLen))
        more == (Len(input) - partLen) \div BlockSize  \* turns of the loop
        i == partLen + more * BlockSize
        counted == [o EXCEPT !._finished = FALSE,
                             !._count = AddCount(@, Len(input))]
    IN  IF Len(input) < partLen
        THEN [counted EXCEPT !._buffer = Copy(@, index, input)]
        ELSE [counted EXCEPT !._state = @ \o <<Block(filled)>>
                                          \o Blocks(input, partLen, more),
                             !._buffer = Copy(filled, rest,
                                           SubSeq(input, i + 1, Len(input)))]

\* update without index = 0 after the blocks
UpdateKeepsIndex(o, input) == Absorb(o, input, Index(o._count))

Update(o, input) == Absorb(o, input, 0)

-----------------------------------------------------------------------------
(* final().                                                                *)

\* encode: the bytes of the words, low byte first
Encode(words) ==
    [k \in 1..(Len(words) * WordBytes) |->
        (words[(k - 1) \div WordBytes + 1]
            \div 2 ^ (Bits * ((k - 1) % WordBytes))) % 2 ^ Bits]

PADDING == [k \in 1..BlockSize |-> IF k = 1 THEN 2 ^ (Bits - 1) ELSE 0]

\* PadLen with <= in place of <
PadLenOff(index) ==
    IF index <= BlockSize - LengthBytes THEN BlockSize - LengthBytes - index
    ELSE 2 * BlockSize - LengthBytes - index

PadLen(index) ==
    IF index < BlockSize - LengthBytes THEN BlockSize - LengthBytes - index
    ELSE 2 * BlockSize - LengthBytes - index

\* The object after padding, length and restoring, and the state stored in
\* the digest.  The buffer is not restored.
Final(o) ==
    LET padded == Update(o, SubSeq(PADDING, 1, PadLen(Index(o._count))))
        done == Update(padded, Encode(o._count))
    IN  [o |-> [done EXCEPT !._state = o._state, !._count = o._count],
         digest |-> done._state]

-----------------------------------------------------------------------------
(* The public methods.                                                     *)

Feed(n) == /\ h' = Update(h, Data(gen, len + 1, len + n))
           /\ len' = len + n

\* update(const void*, size_t) and update(const string&)
update(n) ==
    /\ left = NoFile /\ len + n <= MaxBytes
    /\ Feed(n)
    /\ UNCHANGED <<_digest, gen, asked, spoiled, left, stuck>>

\* update(ifstream&) on a file of n bytes ...
updateFile(n) ==
    /\ left = NoFile /\ len + n <= MaxBytes
    /\ left' = n
    /\ UNCHANGED <<h, _digest, gen, len, asked, spoiled, stuck>>

\* ... and one turn of its loop: a read that gets less than it asks for
\* reaches the end
readPiece ==
    LET length == IF left < BUFFER_SIZE THEN left ELSE BUFFER_SIZE
    IN  /\ left # NoFile
        /\ left' = IF left < BUFFER_SIZE THEN NoFile ELSE left - length
        /\ \/ length > 0 /\ Feed(length)
           \/ length = 0 /\ UNCHANGED <<h, len>>
        /\ UNCHANGED <<_digest, gen, asked, spoiled, stuck>>

\* A read that fails sets no eof, so the loop does not end.
readFails == /\ left # NoFile /\ stuck' = TRUE
             /\ UNCHANGED <<h, _digest, gen, len, asked, spoiled, left>>

\* digest() and toString().  Update clears _finished again, so every call
\* computes.
digest ==
    LET f == Final([h EXCEPT !._finished = TRUE])
    IN  /\ left = NoFile
        /\ asked < MaxDigests /\ asked' = asked + 1
        /\ IF h._finished THEN UNCHANGED <<h, _digest, spoiled>>
           ELSE /\ h' = f.o
                /\ _digest' = [blocks |-> f.digest, of |-> len,
                               spoiled |-> spoiled]
                /\ spoiled' = (\/ spoiled
                               \/ Index(h._count) >= BlockSize - LengthBytes)
        /\ UNCHANGED <<gen, len, left, stuck>>

reset ==
    /\ left = NoFile /\ gen < MaxMessages
    /\ h' = Reset(h)
    /\ gen' = gen + 1 /\ len' = 0 /\ asked' = 0 /\ spoiled' = FALSE
    /\ _digest' = NoDigest /\ UNCHANGED <<left, stuck>>

Next == /\ ~stuck
        /\ \/ \E n \in Lengths : update(n) \/ updateFile(n)
           \/ readPiece \/ readFails \/ digest \/ reset

Spec == Init /\ [][Next]_vars

-----------------------------------------------------------------------------
(* Properties.                                                             *)

\* Whatever the pieces, the two words hold the length of the message in
\* bits, modulo their range: the carry is neither lost nor counted twice.
CountExact == h._count[1] + Word * h._count[2] = (len * Bits) % Wide

\* The blocks transformed and the bytes in the buffer are the message so
\* far, however it was cut into pieces, unless digest() overwrote bytes.
TailKept ==
    LET full == len \div BlockSize
        message == Data(gen, 1, len)
    IN  ~spoiled =>
           /\ h._state = Blocks(message, 0, full)
           /\ \A i \in 0..(len - full * BlockSize - 1) :
                 h._buffer[i] = message[full * BlockSize + i + 1]

\* MD5's definition: the message, one 1 bit, zeros up to the length field,
\* and the length in bits.
Padded(message) ==
    LET n == Len(message)
        zeros == (2 * BlockSize - LengthBytes - 1 - (n % BlockSize)) % BlockSize
        bits == (n * Bits) % Wide
    IN  message \o <<2 ^ (Bits - 1)>> \o [k \in 1..zeros |-> 0]
        \o [k \in 1..LengthBytes |-> (bits \div 2 ^ (Bits * (k - 1))) % 2 ^ Bits]

\* digest() gives the MD5 of the message fed so far, for every cut into
\* pieces and however often it is asked, if and only if no earlier call came
\* at a moment when the length field did not fit into the last block: final
\* restores _state and _count, but not _buffer.
DigestRight ==
    _digest.of >= 0 =>
       LET padded == Padded(Data(gen, 1, _digest.of))
       IN  (_digest.blocks = Blocks(padded, 0, Len(padded) \div BlockSize))
           <=> ~_digest.spoiled
=============================================================================
