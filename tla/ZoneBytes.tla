----------------------------- MODULE ZoneBytes -----------------------------
(***************************************************************************)
(* The numbers, points and strings of a ZoneDetect database                *)
(* (gaia/ZoneDetect): what database/builder/builder.cpp writes and         *)
(* library/zonedetect.c reads back, forwards and backwards.  A file is a   *)
(* sequence of bytes; the byte at the code's offset i is file[i + 1].      *)
(***************************************************************************)
EXTENDS Integers, SequencesExt, FiniteSetsExt

CONSTANTS Radix,       \* 128: a byte of a number is a digit, or a digit + Radix if more follow
          PointBits,   \* 32: bits of a coordinate in an interleaved point
          Remote,      \* 256: a string length from here on is the place of a string
          TimezoneFields, CountryFields   \* the names of the fields of either table

ASSUME RadixAssumption == Radix \in Nat /\ Radix > 1
ASSUME PointBitsAssumption == PointBits \in Nat /\ Remote \in Nat \ {0}

Magic == <<80, 76, 66>>
Timezones == 84   \* 'T'
Countries == 67   \* 'C'

Abs(n) == IF n < 0 THEN -n ELSE n

\* Division as C and C++ have it.
Quotient(a, b) == IF (a < 0) = (b < 0) THEN Abs(a) \div Abs(b) ELSE -(Abs(a) \div Abs(b))

\* encodeSignedToUnsigned, and ZDDecodeUnsignedToSigned.
Unsigned(value) == IF value < 0 THEN -value * 2 + 1 ELSE value * 2
Signed(value) == IF value % 2 = 1 THEN -(value \div 2) ELSE value \div 2

\* encodeVariableLength without a sign, the lowest digit first.
Digits[value \in Nat] ==
  IF value < Radix THEN <<value>> ELSE <<(value % Radix) + Radix>> \o Digits[value \div Radix]

Encoded(value) == Digits[Unsigned(value)]

More(byte) == byte >= Radix

\* ZDDecodeVariableLengthUnsigned: the number at an offset and the offset after
\* it; not ok when the file ends before the number does.
Failed == [ok |-> FALSE, value |-> 0, at |-> 0]

DecodedTo(file, at, last) ==
  [ok |-> TRUE, at |-> last + 1,
   value |-> MapThenSumSet(LAMBDA i : (file[i + 1] % Radix) * Radix ^ (i - at), at..last)]

DecodedAt(file, at) ==
  LET ends == {i \in at..Len(file) - 1 : ~More(file[i + 1])}
  IN  IF ends = {} THEN Failed ELSE DecodedTo(file, at, Min(ends))

\* Several numbers one behind the other; those with a sign are Signed where used.
NextNumber(numbers, decoded) ==
  [ok |-> numbers.ok /\ decoded.ok, at |-> decoded.at, values |-> Append(numbers.values, decoded.value)]

NumbersAt(file, at, n) ==
  FoldLeft(LAMBDA numbers, i : NextNumber(numbers, DecodedAt(file, numbers.at)),
           [ok |-> TRUE, at |-> at, values |-> <<>>], [i \in 1..n |-> i])

\* ZDDecodeVariableLengthUnsignedReverse: the number whose last byte is at an
\* offset, and the offset of the last byte of the number before it.
DecodedBefore(file, at) ==
  IF at >= Len(file) \/ at = 0 \/ More(file[at + 1]) THEN Failed
  ELSE LET ends == {i \in 0..at - 1 : ~More(file[i + 1])}
       IN  IF ends = {} THEN Failed
           ELSE [DecodedAt(file, Max(ends) + 1) EXCEPT !.at = Max(ends)]

Bit(n, i) == (n \div 2 ^ i) % 2

\* encodePointTo64: the bits of both coordinates, the latitude's on the even places.
PointKey(point) ==
  MapThenSumSet(LAMBDA i : 4 ^ i * (Bit(Unsigned(point[1]), i) + 2 * Bit(Unsigned(point[2]), i)),
                0..PointBits - 1)

\* ZDUnshuffle: the bits on the even places.
Unshuffled(key) == MapThenSumSet(LAMBDA i : 2 ^ i * Bit(key, 2 * i), 0..PointBits - 1)

\* ZDDecodePoint.
PointOf(key) == <<Signed(Unshuffled(key)), Signed(Unshuffled(key \div 2))>>

\* The high bit of every character is turned over.
Flipped(byte) == (byte + Radix) % (2 * Radix)

\* encodeStringToBinary.
EncodedString(string) == Digits[Len(string)] \o [i \in DOMAIN string |-> Flipped(string[i])]

\* ZDParseString: the string at an offset, or the one stored elsewhere among the
\* metadata, and the offset after it.  Past the end of the file it reads whatever
\* is there, which no length counted from there can hide.
CharsAt(file, length) ==
  [ok |-> TRUE, at |-> length.at + length.value,
   value |-> [i \in 1..length.value |->
                IF length.at + i <= Len(file) THEN Flipped(file[length.at + i]) ELSE 0]]

RemoteString(file, length, at) ==
  [(IF length.ok /\ length.value <= Remote THEN CharsAt(file, length) ELSE Failed) EXCEPT !.at = at]

StringOf(file, at, metadataOffset, length) ==
  IF ~length.ok THEN [Failed EXCEPT !.at = at]
  ELSE IF length.value < Remote THEN CharsAt(file, length)
  ELSE RemoteString(file, DecodedAt(file, metadataOffset + length.value - Remote), length.at)

StringAt(file, at, metadataOffset) == StringOf(file, at, metadataOffset, DecodedAt(file, at))
=============================================================================
