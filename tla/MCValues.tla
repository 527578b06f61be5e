------------------------------ MODULE MCValues ------------------------------
(***************************************************************************)
(* What computes values, each by itself: geography, clocks, octet strings  *)
(* with texts, and the start of the program with its log.                  *)
(***************************************************************************)
EXTENDS Geography, StringsClockAndStartup, TLC

VARIABLE part

clockVars == <<now, leapSec, epoch_time_base_gap, read>>
stringVars == <<call, result>>
mainVars == <<at, args, config_path, exit, assembly_config, spdlog_level, logger, registered, job>>

ValuesInit ==
  /\ part \in {"geography", "clock", "strings", "main"}
  /\ Init /\ T!Init /\ O!Init /\ M!Init
  /\ part # "main" => args = <<>>

ValuesNext ==
  /\ UNCHANGED part
  /\ \/ part = "geography" /\ Next /\ UNCHANGED <<clockVars, stringVars, mainVars>>
     \/ part = "clock" /\ T!Next /\ UNCHANGED <<vars, stringVars, mainVars>>
     \/ part = "strings" /\ O!Next /\ UNCHANGED <<vars, clockVars, mainVars>>
     \/ part = "main" /\ M!Next /\ UNCHANGED <<vars, clockVars, stringVars>>

ValuesSpec == ValuesInit /\ [][ValuesNext]_<<part, vars, clockVars, stringVars, mainVars>>
-----------------------------------------------------------------------------
\* Every simple polygon of three or four corners on a lattice of 3 x 3, some of
\* five, and the positions on and around the lattice.
Lattice == (0..2) \X (0..2)
Around == (-1..3) \X (-1..3)

Touch(a, b, c, d) ==
  \/ \E t \in {<<a, b, c>>, <<a, b, d>>, <<c, d, a>>, <<c, d, b>>} : Border(<<t[1], t[2]>>, t[3])
  \/ Properly(a, b, c, d)

\* No corner twice, no way back along a border, no borders that meet.
Simple(l) ==
  /\ IsInjective(l)
  /\ \A i \in DOMAIN l : /\ ~Border(<<l[i], Corner(l, i + 1)>>, Corner(l, i + 2))
                         /\ ~Border(<<Corner(l, i + 1), Corner(l, i + 2)>>, l[i])
  /\ \A i, j \in DOMAIN l : i # j /\ Corner(l, i + 1) # l[j] /\ Corner(l, j + 1) # l[i] =>
       ~Touch(l[i], Corner(l, i + 1), l[j], Corner(l, j + 1))

Drawn(n) == {l \in [1..n -> Lattice] : Simple(l)}
Notched == {l \in [1..5 -> Lattice] : l[1] = <<0, 0>> /\ l[2] \in {<<0, 2>>, <<1, 2>>} /\ Simple(l)}
SmallPolygons == Drawn(3) \cup Drawn(4) \cup Notched
SmallPairs == Notched \X {l \in Drawn(3) : l[1] \in {<<0, 0>>, <<1, 1>>, <<0, 1>>}}

SmallRectangles == {<<[northLimit |-> 2, southLimit |-> 0, eastLimit |-> 1, westLimit |-> 0],
                      [northLimit |-> 1, southLimit |-> -1, eastLimit |-> 3, westLimit |-> 2]>>}

Larger(l, k) == [i \in DOMAIN l |-> <<k * l[i][1], k * l[i][2]>>]
Wide == (-6..6) \X (-6..6)
SmallCircles == {[locations |-> Larger(l, 3), center |-> <<c, d>>, radius |-> r] :
                   l \in Notched, c \in 1..3, d \in {1, 2, 4}, r \in 1..4}

\* A country with a hole for another one, and a third country.
Square(n, m) == <<<<n, n>>, <<n, m>>, <<m, m>>, <<m, n>>>>
World == <<[alpha3 |-> "PRK", points |-> <<<<-6, -6>>, <<-6, -5>>, <<-5, -6>>>>],
           [alpha3 |-> "KOR", points |-> Square(-5, 6)],
           [alpha3 |-> "KOR", points |-> <<<<0, 2>>, <<2, 3>>, <<4, 0>>>>],
           [alpha3 |-> "JPN", points |-> <<<<0, 2>>, <<2, 3>>, <<4, 0>>>>]>>
SmallDatabases == "world" :> World @@ "other" :> SubSeq(World, 1, 2) @@ "broken" :> <<>>
SmallCodes == 408 :> "PRK" @@ 410 :> "KOR" @@ 392 :> "JPN"
SmallRequests == {[path |-> path, country |-> country, center |-> <<c, d>>, radius |-> r,
                   padding |-> padding, promote |-> promote] :
                   path \in {"world", "other", "broken", "nowhere"}, country \in {410, 392, 408, 7},
                   c \in {-5, -3, -1, 0, 1}, d \in {-3, 0, 1, 2}, r \in {1, 2, 3, 5}, padding \in {0, 2}, promote \in {0, 1}}
LonScale == [lat \in -6..6 |-> IF lat < -2 \/ lat = 3 THEN 1 ELSE 2]

\* Octets of four bits, and texts of letters and blanks.
Blank == 2
Blanks == <<Blank>>
UpTo(S, n) == UNION {[1..k -> S] : k \in 0..n}
Pairs(ops, S, R) == {[op |-> o, a |-> a, b |-> b] : o \in ops, a \in S, b \in R}
SmallCalls ==
  {[op |-> o, in |-> i] : o \in {"hexlify", "base64EncStr"}, i \in UpTo({0, 6, 15}, 4)}
  \cup {[op |-> "base64DecStr", in |-> i] : i \in UpTo({0, 5, 8, 9}, 5)}
  \cup {[op |-> "unhexlify", in |-> i] : i \in UpTo({0, 3, 5, 8}, 4)}
  \cup {[op |-> o, in |-> i, n |-> n] : o \in {"<<", ">>"}, i \in UpTo({1, 7, 14}, 3), n \in 0..17}
  \cup {[op |-> "uint", n |-> n, size |-> size] : n \in 0..15, size \in {1, 2, 4}}
  \cup {[op |-> "uint", n |-> n, size |-> size] : n \in {16, 30, 255}, size \in {2, 4}}
  \cup {[op |-> "insert", in |-> i, pos |-> p, str |-> s, from |-> f, count |-> n] :
          i \in UpTo({1, 14}, 2), p \in 0..3, s \in UpTo({0, 7}, 2), f \in 0..3, n \in {0, 1, 2, 9}}
  \cup {[op |-> o, in |-> i, str |-> s, from |-> f, count |-> n] :
          o \in {"append", "copy"}, i \in [1..3 -> {1, 14}], s \in UpTo({0, 7}, 3), f \in 0..4, n \in {0, 1, 2, 9}}
  \cup {[op |-> "erase", in |-> i, pos |-> p, count |-> n] : i \in UpTo({1, 14}, 3), p \in 0..4, n \in {0, 1, 2, 9}}
  \cup {[op |-> "erase range", in |-> i, pos |-> p, last |-> n] : i \in [1..3 -> {1, 14}], p \in {0, 1}, n \in {2, 3}}
  \cup {[op |-> "resize", in |-> i, n |-> n, octet |-> 5] : i \in UpTo({1, 14}, 3), n \in 0..5}
  \cup {[op |-> "hash", in |-> i] : i \in UpTo({0, 6, 15}, 4)}
  \cup Pairs({"compare", "^"}, UpTo({1, 14}, 3), UpTo({1, 14}, 3))
  \cup Pairs({"ci_equals", "stricmp"}, UpTo({1, 2, 5}, 2), UpTo({1, 2, 5}, 2))
  \cup Pairs({"endsWith", "trim", "split"}, UpTo({1, 2}, 5), UpTo({1, 2}, 2))

\* What main is called with, and lists that logInit is given.
Words == {"-h", "-c", "--config", "", "own.json", "no.json", "info", "off", "-x"}
Dashed == {"-h", "--help", "-c", "--config", "-x"}
SmallArgs == UpTo(Words, 2) \cup [1..3 -> {"-c", "own.json", "info", "no.json"}]
             \cup [1..4 -> {"-c", "own.json", "info"}]
Config(type, level) == [type |-> type, level |-> level]
SmallConfigs == UpTo({Config("stdout", "error"), Config("file", "debug"),
                      Config("unknown", "info"), Config("stdout", "off")}, 2)
Files == {"own.json", "default.json"}
=============================================================================
