------------------------------- MODULE Clock -------------------------------
(***************************************************************************)
(* The clock of gaia_time.cpp: seconds or microseconds since 2004 (TAI),   *)
(* from the system's clock, a number of leap seconds and a shift that      *)
(* tests set.  uint32_t and int have Word values here, a second MicroSec   *)
(* parts, and the system's clock reads at most MaxNow parts since 1970.    *)
(***************************************************************************)
EXTENDS Naturals, Integers

CONSTANTS Word,         \* 2^32
          MicroSec,     \* 1000000
          Ts20040101,   \* 1072915200: the year 2004 in seconds
          LeapSecs,     \* values given to setLeapSec
          BaseTimes,    \* values given to setBaseTime, in seconds
          MaxNow        \* bound on the system's clock

VARIABLES now,          \* the system's clock, in microseconds since 1970
          leapSec,
          epoch_time_base_gap,   \* in seconds
          read          \* the latest getTime32 and getTime64 since the clock was set

vars == <<now, leapSec, epoch_time_base_gap, read>>

NotRead == [time32 |-> 0, time64 |-> 0]

Init == now = 0 /\ leapSec = 0 /\ epoch_time_base_gap = 0 /\ read = NotRead

Seconds == now \div MicroSec   \* time(nullptr) and tv_sec
Usec == now % MicroSec         \* tv_usec

Least(m, n) == IF m < n THEN m ELSE n
AtLeast2004(t) == IF t < Ts20040101 THEN Ts20040101 ELSE t

\* Mutant of TimeToTime32: what is too late for 32 bits wraps.
TimeToTime32Wraps(time) == (AtLeast2004(time) - Ts20040101 + leapSec) % Word

\* 64 bits until the end, where what does not fit becomes the latest time.
TimeToTime32(time) == Least(AtLeast2004(time) - Ts20040101 + leapSec, Word - 1)

\* 32 bits all the way.
Time32ToTime(time) == (((time + Ts20040101) % Word) - leapSec) % Word

Time64ToTime32(time64) == (time64 \div MicroSec) % Word
Time32ToTime64(time32) == time32 * MicroSec
Time64ToTime(time64) == Time32ToTime(Time64ToTime32(time64))
TimeToTime64(time) == Time32ToTime64(TimeToTime32(time))

GetTimeFromBaseTime == Seconds - epoch_time_base_gap
GetTime32 == TimeToTime32(GetTimeFromBaseTime)

\* Mutant of GetTime64: the shift of the tests is forgotten.
GetTime64Unshifted ==
  MicroSec * ((AtLeast2004(Seconds % Word) - Ts20040101 + leapSec) % Word) + Usec

\* The seconds are narrowed to 32 bits first.
GetTime64 ==
  LET shifted == GetTimeFromBaseTime
      sec == AtLeast2004(IF shifted < 0 THEN 0 ELSE shifted % Word)
  IN  MicroSec * ((sec - Ts20040101 + leapSec) % Word) + Usec
-----------------------------------------------------------------------------
Tick == now < MaxNow /\ now' = now + 1 /\ UNCHANGED <<leapSec, epoch_time_base_gap, read>>

\* The gap is narrowed to an int.
Signed(n) == LET m == n % Word IN IF m < Word \div 2 THEN m ELSE m - Word

SetBaseTime(e) ==
  /\ epoch_time_base_gap' = Signed(Seconds - e)
  /\ read' = NotRead
  /\ UNCHANGED <<now, leapSec>>

SetLeapSec(n) ==
  /\ leapSec' = n /\ read' = NotRead
  /\ UNCHANGED <<now, epoch_time_base_gap>>

ReadTime32 ==
  /\ read' = [read EXCEPT !.time32 = GetTime32]
  /\ UNCHANGED <<now, leapSec, epoch_time_base_gap>>

ReadTime64 ==
  /\ read' = [read EXCEPT !.time64 = GetTime64]
  /\ UNCHANGED <<now, leapSec, epoch_time_base_gap>>

Next ==
  \/ Tick \/ ReadTime32 \/ ReadTime64
  \/ \E e \in BaseTimes : SetBaseTime(e)
  \/ \E n \in LeapSecs : SetLeapSec(n)

Spec == Init /\ [][Next]_vars
-----------------------------------------------------------------------------
\* The times before 2106, and so many leap seconds that 2^32 is not passed.
Narrow(time) == time < Word /\ AtLeast2004(time) - Ts20040101 + leapSec < Word

\* Both clocks tell one time, and a time of the years 2004 to 2106 comes back
\* from 32 and from 64 bits as it was, whatever the settings are.
ClocksAgree ==
  /\ Narrow(GetTimeFromBaseTime) =>
       /\ GetTime32 = Time64ToTime32(GetTime64)
       /\ GetTimeFromBaseTime >= Ts20040101 => Time64ToTime(GetTime64) = GetTimeFromBaseTime
  /\ \A time \in Ts20040101..Word - 1 :
       Narrow(time) => /\ Time32ToTime(TimeToTime32(time)) = time
                       /\ Time64ToTime(TimeToTime64(time)) = time

\* While nobody sets it the clock does not go back: getTime32 waits for 2004 and
\* stays at the latest time when it has reached it; getTime64 must not be used
\* then, nor in 2003, when its second stands still and the microseconds run.
NeverGoesBack ==
  [][read' # NotRead =>
       /\ read'.time32 >= read.time32
       /\ Narrow(GetTimeFromBaseTime) /\ GetTimeFromBaseTime > Ts20040101 =>
            read'.time64 >= read.time64]_vars
=============================================================================
