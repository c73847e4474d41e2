----------------------------- MODULE Encodings -----------------------------
(***************************************************************************)
(* The encodings of keys, signatures and hashes: Base58 as Base58.c and     *)
(* TKHasher compute it, in place and with a bounded buffer, and the Base64  *)
(* variants of TKUtil.  Characters are the numbers they stand for.          *)
(***************************************************************************)
EXTENDS Iteration, Sequences

CONSTANTS
  LimbBytes,  \* bytes of the integers that b58tobin computes with: 4
  Inputs      \* what to encode and decode

ASSUME EncodingsAssumption ==
  /\ LimbBytes \in Nat \ {0}
  /\ \A i \in Inputs :
       \/ i.kind = "bytes" /\ i.text \in Seq(0 .. 255)
       \/ i.kind = "digits" /\ i.text \in Seq(-1 .. 57)

VARIABLE input

BytesIn == 256
Bytes == 0 .. BytesIn - 1
DigitsIn == 58
Digits == 0 .. DigitsIn - 1
NotADigit == -1
Limb == Power(BytesIn, LimbBytes)

Zeros(n) == [i \in 1 .. n |-> 0]

\* How many zeros a sequence begins with.
LeadingZeros(s) ==
  CHOOSE n \in 0 .. Len(s) :
    (\A i \in 1 .. n : s[i] = 0) /\ (n < Len(s) => s[n + 1] # 0)

\* The last n elements.
Ending(s, n) == [i \in 1 .. n |-> s[Len(s) - n + i]]

\* The number that the first elements of s are in a base, for each number of them.
Values(s, base) ==
  Iterate(0, [i \in 1 .. Len(s) |-> [v \in Nat |-> v * base + s[i]]], Len(s))
ValueOf(s, base) == Values(s, base)[Len(s)]
-----------------------------------------------------------------------------
(* b58enc *)

\* Multiplying what is in the buffer by 256 and adding a byte: what is carried, after
\* each number of digits from the right.
Carried(buf, byte) ==
  LET size == Len(buf) IN
    Iterate(byte,
            [i \in 1 .. size |-> [carry \in Nat |->
               (carry + BytesIn * buf[size + 1 - i]) \div DigitsIn]],
            size)

\* Mutant: stops as soon as nothing is carried.
StopsWithoutHigh(used, carry, size) == {n \in 0 .. size : carry[n] = 0}

\* Where the loop may stop: past all digits that were ever set, with nothing carried.
Stops(used, carry, size) == {n \in used .. size : carry[n] = 0}

\* used is the number of digits that were ever set (those right of high).
AddByte(a, byte) ==
  LET size == Len(a.buf)
      carry == Carried(a.buf, byte)
      stops == Stops(a.used, carry, size)
      n == CHOOSE n \in stops : \A m \in stops : n <= m
  IN  IF stops = {} THEN [a EXCEPT !.within = FALSE]
      ELSE [buf |-> [j \in 1 .. size |->
                       IF j <= size - n THEN a.buf[j]
                       ELSE (carry[size - j] + BytesIn * a.buf[j]) % DigitsIn],
            used |-> n,
            within |-> a.within]

Reserved(n) == (n * 138) \div 100 + 1
Buffers(size) == [buf : [1 .. size -> Digits], used : 0 .. size, within : BOOLEAN]

\* The buffer after each byte that follows the first zcount, zeros.
Buffered(bytes, zcount) ==
  LET n == Len(bytes) - zcount
      size == Reserved(n)
  IN  Iterate([buf |-> Zeros(size), used |-> 0, within |-> TRUE],
              [i \in 1 .. n |-> [a \in Buffers(size) |-> AddByte(a, bytes[zcount + i])]],
              n)

\* The digits of a number, with one 0 more for each byte 0 before it; within says that
\* the loop stayed in its buffer, fits that the caller's, of size room, is large enough.
Base58Encode(bytes, room) ==
  LET zcount == LeadingZeros(bytes)
      end == Buffered(bytes, zcount)[Len(bytes) - zcount]
      skipped == LeadingZeros(end.buf)
      size == zcount + Len(end.buf) - skipped
  IN  [within |-> end.within,
       fits |-> room > size,
       digits |-> [i \in 1 .. size |->
                     IF i <= zcount THEN 0 ELSE end.buf[i - zcount + skipped]]]

\* encodeBase58:, with four characters of room for a byte; nil if there is no byte.
HasherEncode(bytes) == Base58Encode(bytes, 4 * Len(bytes))
-----------------------------------------------------------------------------
(* b58tobin *)

\* Mutant: 5 bits for a carry.
CarryNarrow(t) == (t \div Limb) % 32

\* 6 bits are kept of a carry.
Carry(t) == (t \div Limb) % 64

\* Multiplying the limbs by 58 and adding a digit: what is carried, after each number
\* of limbs from the right.
CarriedOn(outi, digit) ==
  LET n == Len(outi) IN
    Iterate(digit,
            [i \in 1 .. n |-> [c \in Nat |-> Carry(outi[n + 1 - i] * DigitsIn + c)]],
            n)

AddDigit(outi, digit) ==
  LET n == Len(outi)
      c == CarriedOn(outi, digit)
  IN  [outi |-> [j \in 1 .. n |-> (outi[j] * DigitsIn + c[n - j]) % Limb], carry |-> c[n]]

\* Mutant: the limb that is not used in full may be.
TooBigUnmasked(added, bytesleft) == added.carry # 0

\* The last limb carried, or the one that has fewer bytes has more than these.
TooBig(added, bytesleft) ==
  \/ added.carry # 0
  \/ bytesleft # 0 /\ added.outi[1] >= Power(BytesIn, bytesleft)

LimbsFor(binsz) == (binsz + LimbBytes - 1) \div LimbBytes
Outputs(n) == [outi : [1 .. n -> 0 .. Limb - 1], ok : BOOLEAN]

\* Nothing is read after a character that is no digit, or when the number is too big.
ReadDigit(a, digit, binsz) ==
  IF ~a.ok \/ digit = NotADigit THEN [a EXCEPT !.ok = FALSE]
  ELSE LET added == AddDigit(a.outi, digit) IN
         [outi |-> added.outi, ok |-> ~TooBig(added, binsz % LimbBytes)]

\* The limbs after each digit that follows the first zerocount, zeros.
Read(digits, zerocount, binsz) ==
  LET n == Len(digits) - zerocount
      outisz == LimbsFor(binsz)
  IN  Iterate([outi |-> Zeros(outisz), ok |-> TRUE],
              [i \in 1 .. n |-> [a \in Outputs(outisz) |->
                 ReadDigit(a, digits[zerocount + i], binsz)]],
              n)

\* The bytes of the limbs, the first ones first.
LimbsToBytes(outi) ==
  [p \in 1 .. Len(outi) * LimbBytes |->
     (outi[((p - 1) \div LimbBytes) + 1]
        \div Power(BytesIn, LimbBytes - 1 - ((p - 1) % LimbBytes))) % BytesIn]

\* A number of binsz bytes, at most, and the number of its bytes without the zeros
\* before it but with one for each digit 0 that came first.
Base58Decode(digits, binsz) ==
  LET zerocount == LeadingZeros(digits)
      end == Read(digits, zerocount, binsz)[Len(digits) - zerocount]
      bin == Ending(LimbsToBytes(end.outi), binsz)
  IN  [ok |-> end.ok, bin |-> bin, size |-> binsz - LeadingZeros(bin) + zerocount]
-----------------------------------------------------------------------------
(* b58check, b58check_enc *)

SumsIn == 65521

\* The first four bytes of SHA-256, twice: any function of the bytes.
CheckSum(bytes) ==
  LET n == Len(bytes)
      h == Iterate(1, [i \in 1 .. n |-> [a \in 0 .. SumsIn - 1 |->
                         (31 * a + bytes[i] + 7) % SumsIn]], n)[n] IN
    <<h % BytesIn, h \div BytesIn, (h * 7) % BytesIn, (h * 11) % BytesIn>>

CheckEncode(ver, data, room) ==
  LET buf == <<ver>> \o data IN Base58Encode(buf \o CheckSum(buf), room)

\* Mutant: zeros that are missing are not noticed.
CheckMoreZeros(bin, digits) ==
  IF Len(bin) < 4 THEN -4
  ELSE IF Ending(bin, 4) # CheckSum(SubSeq(bin, 1, Len(bin) - 4)) THEN -1
  ELSE IF LeadingZeros(bin) < LeadingZeros(digits) THEN -3
  ELSE bin[1]

\* What is wrong, or else the version.
Check(bin, digits) ==
  IF Len(bin) < 4 THEN -4
  ELSE IF Ending(bin, 4) # CheckSum(SubSeq(bin, 1, Len(bin) - 4)) THEN -1
  ELSE IF LeadingZeros(bin) # LeadingZeros(digits) THEN -3
  ELSE bin[1]
-----------------------------------------------------------------------------
(* Base64 *)

\* Two alphabets, that differ in the last two of the 64 characters, and the padding.
Plus == 62
Slash == 63
Hyphen == 64
Underscore == 65
Equals == 66
Standard == 0 .. 63

Characters == Standard \cup {Hyphen, Underscore, Equals}

\* The elements of s that are in S.
Kept(s, S) ==
  Iterate(<<>>,
          [i \in 1 .. Len(s) |-> [kept \in Seq(Characters) |->
             IF s[i] \in S THEN Append(kept, s[i]) ELSE kept]],
          Len(s))[Len(s)]

Unpadded(s) == Kept(s, Characters \ {Equals})
Replaced(s, old, new) == [i \in DOMAIN s |-> IF s[i] = old THEN new ELSE s[i]]

\* The i-th element, or 0 if there are not so many.
At(s, i) == IF i <= Len(s) THEN s[i] ELSE 0

\* Three bytes are four characters, and back.
Sextets(a, b, c) ==
  <<a \div 4, (a % 4) * 16 + b \div 16, (b % 16) * 4 + c \div 64, c % 64>>
Octets(a, b, c, d) == <<a * 4 + b \div 16, (b % 16) * 16 + c \div 4, (c % 4) * 64 + d>>

\* base64EncodedStringWithOptions:.  In a group of n bytes, n + 1 characters are used.
Encoded64(bytes) ==
  [p \in 1 .. 4 * ((Len(bytes) + 2) \div 3) |->
     LET k == (p - 1) \div 4 IN
       IF 3 * k + (p - 4 * k) > Len(bytes) + 1 THEN Equals
       ELSE Sextets(At(bytes, 3 * k + 1), At(bytes, 3 * k + 2),
                    At(bytes, 3 * k + 3))[p - 4 * k]]

Base64Encode(bytes, url, padding) ==
  LET plain == Encoded64(bytes)
      s == IF url THEN Replaced(Replaced(plain, Slash, Underscore), Plus, Hyphen) ELSE plain
  IN  IF padding THEN s ELSE Unpadded(s)

\* Mutant: the padding is not put back.
UnpaddedAsItIs(s) == s

\* stringByPaddingToLength:, up to a multiple of 4.
PaddedAgain(s) == s \o [i \in 1 .. (4 - (Len(s) % 4)) % 4 |-> Equals]

\* NSData's decoder passes over what is not in its alphabet, and wants four characters
\* at a time, of which only the last two may be padding.
Decodable(s) ==
  /\ Len(s) % 4 = 0
  /\ \A i \in DOMAIN s : s[i] = Equals => i > Len(s) - 2 /\ s[Len(s)] = Equals

\* As many bytes as there are bits for.
Decoded64(s) ==
  LET c == Unpadded(s) IN
    [p \in 1 .. (3 * Len(c)) \div 4 |->
       LET k == (p - 1) \div 3 IN
         Octets(At(c, 4 * k + 1), At(c, 4 * k + 2), At(c, 4 * k + 3),
                At(c, 4 * k + 4))[p - 3 * k]]

Base64Decode(s, url) ==
  LET copy == PaddedAgain(
                IF url THEN Replaced(Replaced(s, Underscore, Slash), Hyphen, Plus) ELSE s)
      known == Kept(copy, Standard \cup {Equals})
  IN  [raised |-> ~Decodable(known),
       data |-> IF Decodable(known) THEN Decoded64(known) ELSE <<>>]
-----------------------------------------------------------------------------
(* One input is looked at in a behaviour. *)

NoInput == [kind |-> "none", text |-> <<>>]

EncodingsInit == input \in Inputs \cup {NoInput}

EncodingsSpec == EncodingsInit /\ [][FALSE]_input
-----------------------------------------------------------------------------
(* Properties *)

\* Base58 digits are those of the number that the bytes are, with no 0 before them but
\* for bytes 0; b58enc never leaves its buffer, and the hasher's is large enough.
\* (The values of up to three bytes are compared: others are decoded again.)
EncodesTheNumber ==
  input.kind = "bytes" =>
    LET e == HasherEncode(input.text) IN
      /\ e.within
      /\ input.text # <<>> => e.fits
      /\ LeadingZeros(e.digits) = LeadingZeros(input.text)
      /\ Len(input.text) <= 3 => ValueOf(e.digits, DigitsIn) = ValueOf(input.text, BytesIn)

\* What was encoded is decoded again, into a buffer with room for it and for any number
\* of bytes more; with less room, decoding fails or gives a size beyond it.
DecodesWhatWasEncoded ==
  input.kind = "bytes" =>
    \A binsz \in 1 .. Len(input.text) + LimbBytes :
      LET d == Base58Decode(HasherEncode(input.text).digits, binsz) IN
        IF binsz >= Len(input.text)
          THEN d.ok /\ d.size = Len(input.text) /\ Ending(d.bin, d.size) = input.text
          ELSE d.ok => d.size > binsz

\* Digits that are decoded are encoded again to the same: no two strings of digits are
\* read as the same bytes, and one with a character that is no digit is not read.
ReadsOnlyItsOwn ==
  input.kind = "digits" =>
    \A binsz \in 1 .. 3 :
      LET d == Base58Decode(input.text, binsz) IN
        d.ok /\ d.size <= binsz =>
          Base58Encode(Ending(d.bin, d.size), 4 * binsz).digits = input.text

\* A checked encoding is found to be right; with a digit 0 more before it, or one less
\* where it begins with one, it is not, though the number is the same (b58check).
ChecksOut ==
  input.kind = "bytes" /\ input.text # <<>> =>
    LET e == CheckEncode(Head(input.text), Tail(input.text), 4 * (Len(input.text) + 4))
        size == Len(input.text) + 4
        d == Base58Decode(e.digits, size)
    IN  /\ e.fits
        /\ d.ok /\ Check(d.bin, e.digits) = Head(input.text)
        /\ Check(d.bin, <<0>> \o e.digits) = -3
        /\ LeadingZeros(e.digits) > 0 => Check(d.bin, Tail(e.digits)) = -3

\* Base64 of either alphabet, padded or not, is decoded to what was encoded: the
\* signatures and keys that the engines exchange are.
DecodesBase64 ==
  input.kind = "bytes" =>
    \A url, padding \in BOOLEAN :
      LET d == Base64Decode(Base64Encode(input.text, url, padding), url) IN
        ~d.raised /\ d.data = input.text
=============================================================================
