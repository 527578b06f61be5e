----------------------- MODULE StringsClockAndStartup -----------------------
(***************************************************************************)
(* Octet strings with texts, the clock, and main with its log, each by     *)
(* itself: what the runs and the proofs say of them, and what is assumed   *)
(* of their constants.                                                     *)
(***************************************************************************)
EXTENDS Naturals, Integers, Sequences

CONSTANTS OctetBits, WordBits, HashPrime, kWhitespace, Calls,        \* Octets
          Word, MicroSec, Ts20040101, LeapSecs, BaseTimes, MaxNow,   \* Clock
          ArgLists, Configs, Options, DefaultPath, Loadable          \* Startup

VARIABLES call, result,
          now, leapSec, epoch_time_base_gap, read,
          at, args, config_path, exit, assembly_config, spdlog_level, logger, registered, job

O == INSTANCE Octets
T == INSTANCE Clock
M == INSTANCE Startup

\* Octets are halved and divided by four; the machine's numbers hold two of them.
ASSUME WidthsAssumption ==
  /\ OctetBits \in Nat \ {0} /\ OctetBits % 4 = 0
  /\ WordBits \in Nat /\ WordBits >= 2 * OctetBits
  /\ HashPrime \in Nat /\ HashPrime % 2 = 1

\* A number is made octets of that its type has; of two iterators the first is in
\* front of the last.
ASSUME CallsAssumption ==
  \A c \in Calls :
    /\ c.op \in {"base64EncStr", "hexlify", "hash", "<<", ">>", "insert", "append", "copy",
                 "erase", "erase range", "resize"} => c.in \in O!OctetStrings
    /\ c.op \in {"base64DecStr", "unhexlify"} => c.in \in O!Texts
    /\ c.op = "uint" => c.n \in Nat /\ c.size \in Nat /\ c.n < O!Power(O!Octet, c.size)
    /\ c.op \in {"insert", "append", "copy"} => c.str \in O!OctetStrings /\ c.from \in Nat /\ c.count \in Nat
    /\ c.op \in {"insert", "erase", "erase range"} => c.pos \in Nat
    /\ c.op = "erase" => c.count \in Nat
    /\ c.op = "erase range" => c.last \in c.pos + 1..Len(c.in)
    /\ c.op = "resize" => c.n \in Nat /\ c.octet \in 0..O!Octet - 1
    /\ c.op \in {"<<", ">>"} => c.n \in Nat
    /\ c.op \in {"compare", "^"} => c.a \in O!OctetStrings /\ c.b \in O!OctetStrings
    /\ c.op \in {"ci_equals", "stricmp", "endsWith", "trim", "split"} => c.a \in O!Texts /\ c.b \in O!Texts

\* Leap seconds are unsigned; a base time may lie before 1970.
ASSUME ClockAssumption ==
  /\ Word \in Nat \ {0} /\ MicroSec \in Nat \ {0} /\ Ts20040101 \in Nat
  /\ LeapSecs \subseteq Nat /\ BaseTimes \subseteq Int /\ MaxNow \in Nat

\* The arguments are texts, and the options that main knows begin with a dash.
ASSUME ArgsAssumption ==
  ArgLists \subseteq Seq(STRING) /\ {"-h", "--help", "-c", "--config"} \subseteq Options
-----------------------------------------------------------------------------
\* Octets: codings and edits are undone, shifts move the number, orders and hashes
\* tell octet strings apart, and a text is the text of its parts.
StringsAreRight ==
  /\ O!CodecsInvert /\ O!EditsAreUndone /\ O!ShiftsMoveTheNumber
  /\ O!OrdersAreTotal /\ O!NumbersAndHashesTellApart /\ O!PartsMakeTheText

\* test_octstr.cpp:773: ">>" is the shift to the right.
BitRightShift == O!BitRightShift

\* Clock: the clocks of 32 and of 64 bits tell one time.
ClocksAgree == T!ClocksAgree

\* Clock: time does not go back.
NeverGoesBack == T!NeverGoesBack

\* Startup: the program starts as its usage says, unless it is called without
\* arguments, and its log loses nothing.
StartsAndLogs == M!StartsAsTold /\ M!LogsWhatIsWanted
=============================================================================
