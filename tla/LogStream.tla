----------------------------- MODULE LogStream -----------------------------
(***************************************************************************)
(* The conversions of muduo/base/LogStream.cc: integers to decimal and     *)
(* hexadecimal digits, and quantities to a few characters with an SI or    *)
(* IEC unit.  A call picks an argument and leaves its text; what becomes   *)
(* of the text in the buffer of the stream is module Logger.               *)
(*                                                                         *)
(* A quantity is `thousandths' of a unit and a `rest' that is small beside *)
(* a thousandth; without a unit it is a plain number.  What is printed is  *)
(* a sequence of digits, of which the last `decimals' are behind the       *)
(* point, and a unit.                                                      *)
(***************************************************************************)
EXTENDS Integers, Sequences, SequencesExt, FiniteSets, FiniteSetsExt

CONSTANTS Numbers,      \* the arguments of convert()
          Addresses,    \* the arguments of convertHex()
          Units,        \* the units of quantities: 0 is none, 1 is k or Ki, 6 is E or Ei
          Thousandths,  \* their thousandths
          Rests         \* and the rests

VARIABLES call, text

vars == <<call, text>>

\* C++ division: towards zero.
Quot(i, n) == IF i < 0 /\ i % n # 0 THEN (i \div n) + 1 ELSE i \div n
Rem(i, n) == i - n * Quot(i, n)

\* zero[lsd]: the table of digits goes both ways.
zero(lsd) == IF lsd < 0 THEN -lsd ELSE lsd

\* The do-while loop of convert() and convertHex(): the last digit first.
digitsOf(i, base) ==
  LET f[j \in Int] ==
        <<zero(Rem(j, base))>> \o (IF Quot(j, base) = 0 THEN <<>> ELSE f[Quot(j, base)])
  IN f[i]

convert(value) == [negative |-> value < 0, digits |-> Reverse(digitsOf(value, 10))]
convertHex(value) == [negative |-> FALSE, digits |-> Reverse(digitsOf(value, 16))]

-----------------------------------------------------------------------------
(* formatSI() and formatIEC() *)

\* A double has 53 bits: from 2^53, 9007 thousandths of P, it holds the multiples of
\* a power of two only.
Spacing(q) ==
  LET m == CASE q.unit < 5 -> 0 [] q.unit = 5 -> q.thousandths [] OTHER -> 1000 * q.thousandths
  IN Max({1} \cup {2^k : k \in {i \in 1..10 : 9007 * 2^(i - 1) < m}})

\* static_cast<double>(s): to the nearest, the even one of two.
ToDouble(q) ==
  LET step == Spacing(q)
      low == (q.rest \div step) * step
      up == \/ 2 * (q.rest - low) > step
            \/ 2 * (q.rest - low) = step /\ (low \div step) % 2 = 1
  IN [q EXCEPT !.rest = IF up THEN low + step ELSE low]

\* s < limit thousandths of its unit
Below(q, limit) == q.thousandths < limit \/ (q.thousandths = limit /\ q.rest < 0)

\* Where a value is halfway between two decimals, the double nearest to it decides:
\* those of 9.995 and 0.9995 lie below, that of 99.95 above, and 999.5 is one and
\* goes to the even neighbour; elsewhere it is not said.
Halfway(thousandths, step) ==
  CASE thousandths = 9995 -> {FALSE}
    [] thousandths = 99950 -> {TRUE}
    [] thousandths = 999500 /\ step = 10000 -> {FALSE}
    [] step = 1000 -> {(thousandths \div 1000) % 2 = 1}
    [] OTHER -> BOOLEAN

\* The decimals that snprintf("%.*f") may print for a double, in steps of so many
\* thousandths.
Rounded(q, step) ==
  LET down == q.thousandths \div step
      r == 2 * (q.thousandths % step)
      ups == IF r # step THEN {r > step}
             ELSE IF q.rest # 0 THEN {q.rest > 0}
             ELSE Halfway(q.thousandths, step)
  IN {IF up THEN down + 1 ELSE down : up \in ups}

Text(q, decimals, unit) ==
  LET step == IF unit > q.unit THEN 10000 ELSE 1000 \div 10^decimals
  IN [value : Rounded(q, step), decimals : {decimals}, unit : {unit}, step : {step}]

\* Slip: the limits are those of the value, not of its rounding.
limitOfExact(decimals) ==
  CASE decimals = 2 -> 10000 [] decimals = 1 -> 100000 [] OTHER -> 1000000

limitOf(decimals) == CASE decimals = 2 -> 9995 [] decimals = 1 -> 99950 [] OTHER -> 999500

Plain(q) == [value : {q.thousandths}, decimals : {0}, unit : {0}, step : {1}]

\* The branches of formatSI(): the limits are compared with the integer, the double is
\* printed.  Beyond E there is no unit.
formatSI(q) ==
  LET n == ToDouble(q) IN
  IF q.unit = 0 THEN Plain(q)
  ELSE IF q.unit = 6 \/ Below(q, limitOf(2)) THEN Text(n, 2, q.unit)
  ELSE IF Below(q, limitOf(1)) THEN Text(n, 1, q.unit)
  ELSE IF Below(q, limitOf(0)) THEN Text(n, 0, q.unit)
  ELSE Text(n, 2, q.unit + 1)

\* The branches of formatIEC(), which compares the double; its quotient by a power of
\* 1024 is exact.  From 1023.5 the next unit shows 0.9995 and more as 1.00.
formatIEC(q) ==
  IF q.unit = 0 THEN Plain(q)
  ELSE IF Below(q, limitOf(2)) THEN Text(q, 2, q.unit)
  ELSE IF q.unit = 6 \/ Below(q, limitOf(1)) THEN Text(q, 1, q.unit)
  ELSE IF Below(q, 1023500) THEN Text(q, 0, q.unit)
  ELSE [value : {100}, decimals : {2}, unit : {q.unit + 1}, step : {10240}]

-----------------------------------------------------------------------------
Quantities(rests, plain, largest) ==
  {q \in [unit : Units, thousandths : Thousandths, rest : rests] :
     /\ IF q.unit = 0 THEN q.thousandths < plain ELSE q.thousandths >= 1000
     /\ q.unit < 2 => q.rest = 0
     /\ q.unit = 6 => q.thousandths < largest}

\* The integers that formatSI() gets.
Integers_ == Quantities(Rests, 1000, 9223)

\* The quotients that formatIEC() looks at: one below or above so many thousandths, or
\* the double nearest to them, if that is a quotient.
Quotients ==
  {q \in Quantities({-1, 0, 1}, 1024, 8000) :
     q.rest = 0 => q.unit \in {0, 5, 6} \/ q.thousandths % 125 = 0}

None == [of |-> "none"]

Init ==
  /\ text = None
  /\ call \in [of : {"convert"}, arg : Numbers] \cup [of : {"convertHex"}, arg : Addresses]
             \cup [of : {"formatSI"}, arg : Integers_]
             \cup [of : {"formatIEC"}, arg : Quotients]

Call ==
  /\ text = None
  /\ \/ call.of = "convert" /\ text' = convert(call.arg)
     \/ call.of = "convertHex" /\ text' = convertHex(call.arg)
     \/ call.of = "formatSI" /\ text' \in formatSI(call.arg)
     \/ call.of = "formatIEC" /\ text' \in formatIEC(call.arg)
  /\ UNCHANGED call

Next == Call
Spec == Init /\ [][Next]_vars
-----------------------------------------------------------------------------
(* Properties *)

Done(of) == text # None /\ call.of = of

\* The characters of a text with a unit, the unit not counted.
Chars ==
  LET digits == Len(digitsOf(text.value, 10))
  IN IF text.decimals = 0 THEN digits ELSE Max({digits, text.decimals + 1}) + 1

\* The digits of a number read back as the number, also the smallest one, whose
\* absolute value has no int, and there is no zero in front (LogStream.cc:54-96).
ReadsBack ==
  Done("convert") \/ Done("convertHex") =>
    LET base == IF call.of = "convert" THEN 10 ELSE 16
        negated == FoldLeft(LAMBDA n, d : base * n - d, 0, text.digits)
    IN /\ call.arg = IF text.negative THEN negated ELSE -negated
       /\ text.digits # <<>> /\ (text.digits[1] = 0 => Len(text.digits) = 1)

\* "The returned string is atmost 5 characters long" (LogStream.h:193), and for
\* formatIEC() "atmost 6" (LogStream.h:198), one and two for the unit.
AtMost5 == Done("formatSI") \/ Done("formatIEC") => Chars <= 4

\* Three digits are shown, or four in front of Ki, and the text is off by half a unit
\* of its last digit at most: no limit puts a quantity into a branch whose format
\* shows less (LogStream.cc:117-150, 172-212).
ShowsNearest ==
  /\ Done("formatSI") \/ Done("formatIEC") => text.value >= 100 \/ text.unit = 0
  /\ Done("formatSI") =>
       LET off == text.value * text.step - call.arg.thousandths
       IN 2 * off <= text.step /\ -2 * off <= text.step
=============================================================================
