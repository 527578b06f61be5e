------------------------------- MODULE Octets -------------------------------
(***************************************************************************)
(* What gaia_octstr and gaia_string_util compute of octet strings and      *)
(* texts: hexadecimal and base 64, shifts, orders, split and trim.  With   *)
(* octets of fewer bits a digit of base 64 still has 3/4 of an octet's and *)
(* a hexadecimal digit half of them.  A character is the number of a digit *)
(* or a number above those.  Each call is a step.                          *)
(***************************************************************************)
EXTENDS Naturals, Integers, SequencesExt

CONSTANTS OctetBits,    \* 8
          WordBits,     \* 64, of base64EncStr's unsigned arithmetic and of size_t
          HashPrime,    \* 1099511628211 modulo 2^WordBits
          kWhitespace,  \* the text of the characters that are trimmed when none are named
          Calls         \* the calls that are made: [op, ...]

VARIABLES call, result   \* the call that was made, and what it returned

vars == <<call, result>>

\* base^n, which the prover does not know.
Power(base, n) == LET power[i \in 0..n] == IF i = 0 THEN 1 ELSE base * power[i - 1] IN power[n]

DigitBits == (OctetBits * 3) \div 4
HexBits == OctetBits \div 2
Octet == Power(2, OctetBits)
UInt == Power(2, WordBits)

OctetStrings == Seq(0..Octet - 1)
Texts == Seq(Nat)
-----------------------------------------------------------------------------
(* Base 64: val collects bits, of which valb + DigitBits wait.             *)

Pad == Power(2, DigitBits)   \* '='

\* The digits of val from bit valb down.
DigitsOf(val, valb, n) == [i \in 1..n |-> (val \div Power(2, valb - DigitBits * (i - 1))) % Pad]

\* Mutant of EncodeOctet: a digit may be left waiting.
EncodeOctetOnce(s, octet) ==
  LET val == (s.val * Octet + octet) % UInt
      valb == (s.valb + OctetBits) % UInt
      n == IF valb < UInt - DigitBits THEN 1 ELSE 0
  IN  [val |-> val, valb |-> (valb - n * DigitBits) % UInt, out |-> s.out \o DigitsOf(val, valb, n)]

\* A round of its loop: valb is unsigned, "valb < -6" is true of 0 and above.
EncodeOctet(s, octet) ==
  LET val == (s.val * Octet + octet) % UInt
      valb == (s.valb + OctetBits) % UInt
      n == IF valb < UInt - DigitBits THEN valb \div DigitBits + 1 ELSE 0
  IN  [val |-> val, valb |-> (valb - n * DigitBits) % UInt, out |-> s.out \o DigitsOf(val, valb, n)]

\* What waits is filled up with zeros, and the digits to a multiple of four.
Base64EncStr(in) ==
  LET upTo[i \in 0..Len(in)] ==
        IF i = 0 THEN [val |-> 0, valb |-> UInt - DigitBits, out |-> <<>>] ELSE EncodeOctet(upTo[i - 1], in[i])
      s == upTo[Len(in)]
      waits == s.valb > UInt - DigitBits \/ s.valb <= DigitBits
      digit == (((s.val * Octet) % UInt) \div Power(2, (s.valb + OctetBits) % UInt)) % Pad
      out == IF waits THEN Append(s.out, digit) ELSE s.out
  IN  out \o [i \in 1..(-Len(out) % 4) |-> Pad]

\* A round of base64DecStr: the first character that is no digit ends it.  Its val
\* is an int, the upper bits of which are lost, with its sign; UInt stands for it,
\* for only the bits below DigitBits + OctetBits are read.
DecodeDigit(s, c) ==
  IF s.ended \/ c >= Pad THEN [s EXCEPT !.ended = TRUE]
  ELSE LET val == (s.val * Pad + c) % UInt
           valb == s.valb + DigitBits
       IN  IF valb >= 0
             THEN [val |-> val, valb |-> valb - OctetBits, ended |-> FALSE,
                   out |-> Append(s.out, (val \div Power(2, valb)) % Octet)]
           ELSE [s EXCEPT !.val = val, !.valb = valb]

Base64DecStr(in) ==
  LET upTo[i \in 0..Len(in)] ==
        IF i = 0 THEN [val |-> 0, valb |-> -OctetBits, ended |-> FALSE, out |-> <<>>] ELSE DecodeDigit(upTo[i - 1], in[i])
  IN  upTo[Len(in)].out
-----------------------------------------------------------------------------
(* Hexadecimal: the capitals, then the small letters and what is no digit. *)

HexBase == Power(2, HexBits)
Hexlify(bytes) ==
  LET upTo[i \in 0..Len(bytes)] ==
        IF i = 0 THEN <<>> ELSE upTo[i - 1] \o <<bytes[i] \div HexBase, bytes[i] % HexBase>>
  IN  upTo[Len(bytes)]

Tmap(c) == IF c < 2 * HexBase THEN c % HexBase ELSE -1

\* A character that is no digit is passed over; a last odd digit is dropped.
UnhexDigit(s, c) ==
  IF Tmap(c) = -1 THEN s
  ELSE LET value == (s.value * HexBase + Tmap(c)) % Octet
       IN  [value |-> value, even |-> ~s.even, bin |-> IF s.even THEN s.bin ELSE Append(s.bin, value)]

Unhexlify(hex) ==
  LET upTo[i \in 0..Len(hex)] ==
        IF i = 0 THEN [value |-> 0, even |-> TRUE, bin |-> <<>>] ELSE UnhexDigit(upTo[i - 1], hex[i])
  IN  upTo[Len(hex)].bin
-----------------------------------------------------------------------------
(* Octet strings are made and edited.  What throws leaves them as they are. *)

Throws == [throws |-> "out_of_range"]
Returns(r) == [returns |-> r]

\* Mutant of FromUint: the octets as they are in memory.
FromUintAsStored(n, size) == [i \in 1..size |-> (n \div Power(Octet, i - 1)) % Octet]

\* The octets of a number in memory, the lowest first, are turned round.
FromUint(n, size) == Reverse([i \in 1..size |-> (n \div Power(Octet, i - 1)) % Octet])

SubstrFrom(bytes, pos) == SubSeq(bytes, pos + 1, Len(bytes))

\* Of the octets from pos on count, or as many as there are.
Substr(bytes, pos, count) ==
  IF pos > Len(bytes) THEN Throws
  ELSE Returns(SubSeq(bytes, pos + 1, Min({pos + count, Len(bytes)})))

Insert(bytes, index, str) ==
  IF index > Len(bytes) THEN Throws
  ELSE Returns(SubSeq(bytes, 1, index) \o str \o SubstrFrom(bytes, index))

InsertPart(bytes, index, str, index_str, count) ==
  LET part == Substr(str, index_str, count)
  IN  IF part = Throws THEN Throws ELSE Insert(bytes, index, part.returns)

AppendPart(bytes, str, pos, count) == InsertPart(bytes, Len(bytes), str, pos, count)

Erase(bytes, index, count) ==
  IF index > Len(bytes) THEN Throws
  ELSE Returns(SubSeq(bytes, 1, index) \o SubstrFrom(bytes, Min({index + count, Len(bytes)})))

\* From one iterator to another: the octet in front of last stays, and nothing is
\* said of first = last.
EraseRange(bytes, first, last) == Erase(bytes, first, last - 1 - first)

Resize(bytes, n, c) == [i \in 1..n |-> IF i <= Len(bytes) THEN bytes[i] ELSE c]

\* What becomes of dest, in which there is room.
Copy(bytes, dest, count, pos) ==
  LET part == Substr(bytes, pos, count)
  IN  IF part = Throws THEN Throws ELSE Returns(part.returns \o SubstrFrom(dest, Len(part.returns)))
-----------------------------------------------------------------------------
(* Shifts, exclusive or, the order of octet strings and their hash.        *)

Zeros(n) == [i \in 1..n |-> 0]
\* substr throws when there are not so many octets.
ShiftLeft(bytes, n) ==
  LET bits == n % OctetBits
      rest == SubstrFrom(bytes, n \div OctetBits)
      Moved(i) == ((rest[i] * Power(2, bits)) % Octet)
                  + (IF i < Len(rest) THEN rest[i + 1] \div Power(2, OctetBits - bits) ELSE 0)
  IN  IF n \div OctetBits > Len(bytes) THEN Throws
      ELSE Returns([i \in DOMAIN rest |-> Moved(i)] \o Zeros(n \div OctetBits))

\* The octets that are left out are the FIRST ones, here as well.
ShiftRight(bytes, n) ==
  LET bits == n % OctetBits
      rest == SubstrFrom(bytes, n \div OctetBits)
      Moved(i) == (rest[i] \div Power(2, bits))
                  + (IF i > 1 THEN (rest[i - 1] * Power(2, OctetBits - bits)) % Octet ELSE 0)
  IN  IF n \div OctetBits > Len(bytes) THEN Throws
      ELSE Returns(Zeros(n \div OctetBits) \o [i \in DOMAIN rest |-> Moved(i)])

\* The place of the first difference, behind the shorter one if there is none.
Mismatch(a, b) ==
  LET n == IF Len(a) < Len(b) THEN Len(a) ELSE Len(b)
  IN  CHOOSE i \in 1..n + 1 : (i = n + 1 \/ a[i] # b[i]) /\ \A j \in 1..i - 1 : a[j] = b[j]

Compare(a, b) ==
  LET i == Mismatch(a, b)
  IN  CASE i > Len(a) /\ i > Len(b) -> 0
        [] i > Len(a) /\ i <= Len(b) -> -1
        [] i <= Len(a) /\ i > Len(b) -> 1
        [] OTHER -> IF a[i] < b[i] THEN -1 ELSE 1

\* Bit by bit; at() throws when b is shorter, what b has more is left out.
Bit(n, k) == (n \div Power(2, k)) % 2
XorOctet(m, n) ==
  LET upTo[k \in 0..OctetBits] ==
        IF k = 0 THEN 0 ELSE upTo[k - 1] + Power(2, k - 1) * ((Bit(m, k - 1) + Bit(n, k - 1)) % 2)
  IN  upTo[OctetBits]
Xor(a, b) ==
  IF Len(b) < Len(a) THEN Throws ELSE Returns([i \in 1..Len(a) |-> XorOctet(a[i], b[i])])

\* std::hash<OctStr>: an octet changes the lowest bits, the prime moves them up.
HashOctet(h, byte) == ((h - (h % Octet) + XorOctet(h % Octet, byte)) * HashPrime) % UInt
HashStart == 146527 % UInt
Hash(bytes) ==
  LET upTo[i \in 0..Len(bytes)] == IF i = 0 THEN HashStart ELSE HashOctet(upTo[i - 1], bytes[i])
  IN  upTo[Len(bytes)]
-----------------------------------------------------------------------------
(* Texts, whose letters are the hexadecimal digits.                        *)

ToUpper(c) == IF c >= HexBase /\ c < 2 * HexBase THEN c - HexBase ELSE c
Upper(str) == [i \in DOMAIN str |-> ToUpper(str[i])]

CiEquals(a, b) == Len(a) = Len(b) /\ \A i \in DOMAIN a : ToUpper(a[i]) = ToUpper(b[i])

\* The difference of the lengths is unsigned and becomes an int again.
Stricmp(s1, s2) ==
  LET i == Mismatch(Upper(s1), Upper(s2))
  IN  IF i > Len(s1) \/ i > Len(s2) THEN Len(s1) - Len(s2)
      ELSE IF ToUpper(s1[i]) < ToUpper(s2[i]) THEN -1 ELSE 1

StartsWith(input, test) == Len(input) >= Len(test) /\ SubSeq(input, 1, Len(test)) = test
EndsWith(input, test) ==
  Len(input) >= Len(test) /\ SubSeq(input, Len(input) - Len(test) + 1, Len(input)) = test

\* The characters to trim: whitespace when the caller names none.
ToTrim(trimming) == Range(IF trimming = <<>> THEN kWhitespace ELSE trimming)

NotOf(str, trimming) == {i \in DOMAIN str : str[i] \notin ToTrim(trimming)}
Ltrim(str, trimming) ==
  IF NotOf(str, trimming) = {} THEN <<>> ELSE SubSeq(str, Min(NotOf(str, trimming)), Len(str))
Rtrim(str, trimming) ==
  IF NotOf(str, trimming) = {} THEN <<>> ELSE SubSeq(str, 1, Max(NotOf(str, trimming)))
Trim(str, trimming) == Rtrim(Ltrim(str, trimming), trimming)

\* std::string::find from a place on; 0 for npos.
Find(str, delimiter, from) ==
  LET at == {i \in from..Len(str) - Len(delimiter) + 1 : StartsWith(SubstrFrom(str, i - 1), delimiter)}
  IN  IF at = {} THEN 0 ELSE Min(at)

\* A round of the loop: what stands in front of the next delimiter is a part.
SplitRound(s, str, delimiter) ==
  LET pos == Find(str, delimiter, s.prev_pos)
  IN  IF pos = 0 THEN s
      ELSE [prev_pos |-> pos + Len(delimiter), parts |-> Append(s.parts, SubSeq(str, s.prev_pos, pos - 1))]

Split(str, delimiter) ==
  LET upTo[i \in 0..Len(str)] ==
        IF i = 0 THEN [prev_pos |-> 1, parts |-> <<>>] ELSE SplitRound(upTo[i - 1], str, delimiter)
      s == upTo[Len(str)]
  IN  IF str = <<>> \/ delimiter = <<>> THEN <<str>> ELSE Append(s.parts, SubSeq(str, s.prev_pos, Len(str)))
-----------------------------------------------------------------------------
NoCall == [op |-> "none"]
Init == call = NoCall /\ result = Throws

Called(c, r) == call' = c /\ result' = r

Next ==
  call = NoCall /\ \E c \in Calls :
    \/ c.op = "base64EncStr" /\ Called(c, Returns(Base64EncStr(c.in)))
    \/ c.op = "base64DecStr" /\ Called(c, Returns(Base64DecStr(c.in)))
    \/ c.op = "hexlify" /\ Called(c, Returns(Hexlify(c.in)))
    \/ c.op = "unhexlify" /\ Called(c, Returns(Unhexlify(c.in)))
    \/ c.op = "uint" /\ Called(c, Returns(FromUint(c.n, c.size)))
    \/ c.op = "insert" /\ Called(c, InsertPart(c.in, c.pos, c.str, c.from, c.count))
    \/ c.op = "append" /\ Called(c, AppendPart(c.in, c.str, c.from, c.count))
    \/ c.op = "copy" /\ Called(c, Copy(c.str, c.in, c.count, c.from))
    \/ c.op = "erase" /\ Called(c, Erase(c.in, c.pos, c.count))
    \/ c.op = "erase range" /\ Called(c, EraseRange(c.in, c.pos, c.last))
    \/ c.op = "resize" /\ Called(c, Returns(Resize(c.in, c.n, c.octet)))
    \/ c.op = "hash" /\ Called(c, Returns(Hash(c.in)))
    \/ c.op = "<<" /\ Called(c, ShiftLeft(c.in, c.n))
    \/ c.op = ">>" /\ Called(c, ShiftRight(c.in, c.n))
    \/ c.op = "^" /\ Called(c, Xor(c.a, c.b))
    \/ c.op = "compare" /\ Called(c, Returns(Compare(c.a, c.b)))
    \/ c.op = "ci_equals" /\ Called(c, Returns(CiEquals(c.a, c.b)))
    \/ c.op = "stricmp" /\ Called(c, Returns(Stricmp(c.a, c.b)))
    \/ c.op = "endsWith" /\ Called(c, Returns(EndsWith(c.a, c.b)))
    \/ c.op = "trim" /\ Called(c, Returns(Trim(c.a, c.b)))
    \/ c.op = "split" /\ Called(c, Returns(Split(c.a, c.b)))

Spec == Init /\ [][Next]_vars
-----------------------------------------------------------------------------
\* The digits in front of the first character that is none.
Digits(in) ==
  LET n == Cardinality({i \in DOMAIN in : \A j \in 1..i : in[j] < Pad}) IN SubSeq(in, 1, n)

\* The hexadecimal digits of a text, as capitals.
CapitalsOf(in) ==
  LET upTo[i \in 0..Len(in)] ==
        IF i = 0 THEN <<>> ELSE IF Tmap(in[i]) = -1 THEN upTo[i - 1] ELSE Append(upTo[i - 1], ToUpper(in[i]))
  IN  upTo[Len(in)]

\* What is written in base 64 or in hexadecimal reads back, whatever octets it
\* is; what is read writes back, as far as it was digits and gave whole octets.
CodecsInvert ==
  /\ call.op = "base64EncStr" =>
       /\ Base64DecStr(result.returns) = call.in
       /\ 3 * Len(result.returns) = 4 * (Len(call.in) + (-Len(call.in) % 3))
  /\ call.op = "base64DecStr" =>
       LET whole == (Len(result.returns) * 4) \div 3
       IN  /\ Len(result.returns) = (Len(Digits(call.in)) * 3) \div 4
           /\ SubSeq(Base64EncStr(result.returns), 1, whole) = SubSeq(call.in, 1, whole)
  /\ call.op = "hexlify" => Unhexlify(result.returns) = call.in
  /\ call.op = "unhexlify" =>
       LET digits == CapitalsOf(call.in)
       IN  Hexlify(result.returns) = SubSeq(digits, 1, Len(digits) - (Len(digits) % 2))

\* Digits as a number, the first one foremost, and octets as digits.
NumberIn(base, digits) ==
  LET upTo[i \in 0..Len(digits)] == IF i = 0 THEN 0 ELSE upTo[i - 1] * base + digits[i]
  IN  upTo[Len(digits)]
NumberOf(bytes) == NumberIn(Octet, bytes)
LengthKept == "returns" \in DOMAIN result => Len(result.returns) = Len(call.in)

\* What is inserted is found at its place, and erased it leaves what was there;
\* what was erased can be put back; what is appended is at the end, what is copied
\* at the start, and the rest stays.  Only a place outside of a string throws.
EditsAreUndone ==
  LET after == result.returns
      moved == Min({call.count, Len(call.str) - call.from})
  IN  /\ call.op \in {"insert", "append", "copy"} =>
           result = Throws <=> call.from > Len(call.str) \/ (call.op = "insert" /\ call.pos > Len(call.in))
      /\ call.op \in {"insert", "append"} /\ result # Throws =>
           LET pos == IF call.op = "insert" THEN call.pos ELSE Len(call.in)
           IN  /\ Erase(after, pos, moved) = Returns(call.in)
               /\ \A i \in 1..moved : after[pos + i] = call.str[call.from + i]
      /\ call.op = "copy" /\ result # Throws =>
           \A i \in DOMAIN call.in : after[i] = IF i <= moved THEN call.str[call.from + i] ELSE call.in[i]
      /\ call.op = "erase" =>
           IF call.pos > Len(call.in) THEN result = Throws
           ELSE Insert(after, call.pos, Substr(call.in, call.pos, call.count).returns) = Returns(call.in)
      /\ call.op = "erase range" =>
           InsertPart(after, call.pos, call.in, call.pos, call.last - call.pos - 1) = Returns(call.in)
      /\ call.op = "resize" =>
           Resize(after, Len(call.in), call.octet) =
             [i \in DOMAIN call.in |-> IF i <= call.n THEN call.in[i] ELSE call.octet]

\* Octet strings that are made of numbers read as these numbers and, when they are
\* of one length, are in their order; no octet can be exchanged for another one
\* under the same hash.
NumbersAndHashesTellApart ==
  /\ call.op = "uint" => Len(result.returns) = call.size /\ NumberOf(result.returns) = call.n
  /\ call.op = "compare" /\ Len(call.a) = Len(call.b) =>
       result.returns < 0 <=> NumberOf(call.a) < NumberOf(call.b)
  /\ call.op = "hash" => \A i \in DOMAIN call.in : \A octet \in (0..Octet - 1) \ {call.in[i]} :
                            Hash([call.in EXCEPT ![i] = octet]) # result.returns

\* A shift to the left by any number of bits, and one to the right by fewer than
\* an octet has, moves the whole string as one number; the first throws only when
\* more octets are to go than there are.
ShiftsMoveTheNumber ==
  /\ call.op = "<<" =>
       /\ result = Throws <=> call.n >= OctetBits * (Len(call.in) + 1)
       /\ result # Throws => /\ LengthKept
                             /\ NumberOf(result.returns) = (NumberOf(call.in) * Power(2, call.n)) % Power(Octet, Len(call.in))
  /\ call.op = ">>" /\ call.n < OctetBits =>
       LengthKept /\ NumberOf(result.returns) = NumberOf(call.in) \div Power(2, call.n)

\* test_octstr.cpp:773 "BitRightShift": ">>" is the shift to the right.
BitRightShift ==
  call.op = ">>" /\ result # Throws => NumberOf(result.returns) = NumberOf(call.in) \div Power(2, call.n)

\* The first difference decides, and the start of a string is less than it.
Before(a, b) ==
  \/ Len(a) < Len(b) /\ SubSeq(b, 1, Len(a)) = a
  \/ \E i \in DOMAIN a \cap DOMAIN b : a[i] < b[i] /\ SubSeq(a, 1, i - 1) = SubSeq(b, 1, i - 1)

\* Sorting and looking up rest on these: octet strings are in the order of what
\* hexlify prints, texts in the order of their capitals, and equal are only
\* strings that nothing tells apart, in the octets or in the capitals.
OrdersAreTotal ==
  /\ call.op = "compare" => /\ result.returns < 0 <=> Before(Hexlify(call.a), Hexlify(call.b))
                            /\ result.returns > 0 <=> Before(Hexlify(call.b), Hexlify(call.a))
                            /\ result.returns = 0 <=> Xor(call.a, call.b) = Returns(Zeros(Len(call.b)))
  /\ call.op = "stricmp" => /\ result.returns < 0 <=> Before(Upper(call.a), Upper(call.b))
                            /\ result.returns > 0 <=> Before(Upper(call.b), Upper(call.a))
                            /\ result.returns = 0 <=> CiEquals(call.a, call.b)

Joined(parts, delimiter) ==
  LET upTo[i \in 0..Len(parts)] ==
        IF i = 0 THEN <<>> ELSE (IF i = 1 THEN <<>> ELSE upTo[i - 1] \o delimiter) \o parts[i]
  IN  upTo[Len(parts)]

\* Joined again by the delimiter the parts are the text, no part has the
\* delimiter in it, and there is one part more than there are delimiters to be
\* found from the left.  A text is trimmed of what stands in front of its first and
\* behind its last character to keep, no more and no less.
PartsMakeTheText ==
  /\ call.op = "split" =>
       /\ Joined(result.returns, call.b) = call.a
       /\ call.b # <<>> => \A i \in DOMAIN result.returns : Find(result.returns[i], call.b, 1) = 0
  /\ call.op = "trim" =>
       /\ result.returns = <<>> \/ {Head(result.returns), Last(result.returns)} \cap ToTrim(call.b) = {}
       /\ \E i, j \in 0..Len(call.a) : /\ SubSeq(call.a, i + 1, j) = result.returns
                                       /\ NotOf(call.a, call.b) \subseteq i + 1..j
=============================================================================
