------------------------------- MODULE DirMan -------------------------------
(***************************************************************************)
(* The numbered files of a directory (gaia_dir_man.cpp), ex. 010A.zip: a   *)
(* listing is read and asked from later, while files come and go.  A file  *)
(* name is [stem, ext], characters of which there are two cases; the       *)
(* number is written in Width hexadecimal digits.  Every entry of the      *)
(* directory is a regular file here.                                       *)
(***************************************************************************)
EXTENDS Naturals, SequencesExt

CONSTANTS Width,        \* 4 digits: a number is below 16^4
          Filenames,    \* names of files that there may be
          IVals,        \* the numbers that clients ask for
          FileExt

VARIABLES present,      \* the files of baseDir
          files, values,   \* of the latest listing
          asked,        \* which numbers it was asked for: from, below; and whether
                        \* the directory is as it was then
          answer        \* [op, iVal, result] of the latest question

vars == <<present, files, values, asked, answer>>

Numbers ==
  LET power[n \in 0..Width] == IF n = 0 THEN 1 ELSE 16 * power[n - 1] IN power[Width]
NotAsked == [from |-> 0, to |-> 0, untouched |-> FALSE]
NoAnswer == [op |-> "none", iVal |-> 0, result |-> FALSE]

Init == present \in SUBSET Filenames /\ files = {} /\ values = {} /\ asked = NotAsked /\ answer = NoAnswer

Capitals == <<"0", "1", "2", "3", "4", "5", "6", "7", "8", "9", "A", "B", "C", "D", "E", "F">>
Small == <<"0", "1", "2", "3", "4", "5", "6", "7", "8", "9", "a", "b", "c", "d", "e", "f">>

\* isxdigit, and the value of the digit.
IsDigit(c) == c \in Range(Capitals) \cup Range(Small)
DigitOf(c) == CHOOSE d \in 0..15 : c \in {Capitals[d + 1], Small[d + 1]}

\* stricmp of extensions: "ZIP" for "zip".
SameExt(ext) == ext \in {FileExt, [FileExt EXCEPT !.capitals = ~@]}

\* makeFilename: "{:04X}".
Filename(iVal) ==
  LET rest[n \in 0..Width] == IF n = 0 THEN iVal ELSE rest[n - 1] \div 16
  IN  [stem |-> [i \in 1..Width |-> Capitals[1 + (rest[Width - i] % 16)]], ext |-> FileExt]

\* Mutant of IsIValFile: digits are the capitals that makeFilename writes.
IsCapitalFile(name) ==
  SameExt(name.ext) /\ Len(name.stem) = Width /\ \A i \in 1..Len(name.stem) : name.stem[i] \in Range(Capitals)

IsIValFile(name) ==
  SameExt(name.ext) /\ Len(name.stem) = Width /\ \A i \in 1..Len(name.stem) : IsDigit(name.stem[i])

\* stoul with base 16.
IValOf(name) ==
  LET upTo[n \in 0..Len(name.stem)] == IF n = 0 THEN 0 ELSE 16 * upTo[n - 1] + DigitOf(name.stem[n])
  IN  upTo[Len(name.stem)]

Listed(chosen, from, to) ==
  /\ files' = chosen /\ values' = {IValOf(f) : f \in chosen}
  /\ asked' = [from |-> from, to |-> to, untouched |-> TRUE]
  /\ answer' = NoAnswer
  /\ UNCHANGED present

\* fromI <= iVal < toI
IValFiles(from, to) ==
  Listed({f \in present : IsIValFile(f) /\ from <= IValOf(f) /\ IValOf(f) < to}, from, to)

\* i + 1 is a uint16_t as well: the highest number is not found.
IValFile(i) == IValFiles(i, (i + 1) % Numbers)

AllIValFiles == Listed({f \in present : IsIValFile(f)}, 0, Numbers)

\* allFiles leaves the values empty.
AllFiles ==
  /\ files' = present /\ values' = {} /\ asked' = NotAsked /\ answer' = NoAnswer
  /\ UNCHANGED present

Answers(op, iVal, result) == answer' = [op |-> op, iVal |-> iVal, result |-> result]

IsIValIn(iVal) ==
  Answers("isIValIn", iVal, iVal \in values) /\ UNCHANGED <<present, files, values, asked>>

\* minI and maxI together: all the values are in between.
MinMaxI ==
  /\ values # {}
  /\ \E least \in values, most \in values :
       /\ \A i \in values : least <= i /\ i <= most
       /\ Answers("minI", least, TRUE) \/ Answers("maxI", most, TRUE)
  /\ UNCHANGED <<present, files, values, asked>>

IsIValsIn(from, to) ==
  /\ Answers("isIValsIn", from, \A i \in from..to - 1 : i \in values)
  /\ UNCHANGED <<present, files, values, asked>>

IsFileExist(iVal) ==
  /\ Answers("isFileExist", iVal, Filename(iVal) \in present)
  /\ UNCHANGED <<present, files, values, asked>>

\* The listing is kept; a file of the number under another name stays.
RemoveIVal(iVal) ==
  /\ Answers("remove", iVal, Filename(iVal) \in present)
  /\ present' = present \ {Filename(iVal)}
  /\ asked' = [asked EXCEPT !.untouched = @ /\ Filename(iVal) \notin present]
  /\ UNCHANGED <<files, values>>

\* Somebody else adds or removes a file.
Elsewhere(name) ==
  /\ present' = IF name \in present THEN present \ {name} ELSE present \cup {name}
  /\ asked' = [asked EXCEPT !.untouched = FALSE]
  /\ answer' = NoAnswer
  /\ UNCHANGED <<files, values>>

Next ==
  \/ \E i \in IVals : IValFile(i) \/ IsIValIn(i) \/ IsFileExist(i) \/ RemoveIVal(i)
  \/ \E from \in IVals, to \in IVals : IValFiles(from, to) \/ IsIValsIn(from, to)
  \/ AllIValFiles \/ AllFiles \/ MinMaxI
  \/ \E name \in Filenames : Elsewhere(name)

Spec == Init /\ [][Next]_vars
-----------------------------------------------------------------------------
\* Two spellings of one name.
AlikeNames(f, g) ==
  /\ SameExt(f.ext) /\ SameExt(g.ext) /\ Len(f.stem) = Len(g.stem)
  /\ \A i \in DOMAIN f.stem : IsDigit(f.stem[i]) /\ IsDigit(g.stem[i]) /\ DigitOf(f.stem[i]) = DigitOf(g.stem[i])

\* As long as nobody touches the directory, a listing and the calls that go by
\* the name of a number agree: a number is listed just when it was asked for and
\* there is a file with makeFilename's name or a spelling of it in other cases,
\* so what isFileExist finds and remove removes is listed, and what is listed
\* and not found has a name in other cases.
NumbersMatchNames ==
  asked.untouched =>
    /\ \A i \in IVals : i \in values <=> /\ asked.from <= i /\ i < asked.to
                                         /\ \E f \in present : AlikeNames(f, Filename(i))
    /\ answer.op = "isFileExist" /\ answer.result /\ asked.from <= answer.iVal /\ answer.iVal < asked.to =>
         answer.iVal \in values
=============================================================================
