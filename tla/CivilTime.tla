----------------------------- MODULE CivilTime -----------------------------
(***************************************************************************)
(* TM (time.rs): a civil date and time with its offset and the state of    *)
(* the clock, read with what its spelling departs in, written back, and    *)
(* placed on the time line.                                                *)
(***************************************************************************)
EXTENDS Catalogue, Characters

TimeLetters == {"U", "I", "S", "R"}

OcmfTime(year, month, day, clock, millisecond, offset_minutes, status) ==
  [year |-> year, month |-> month, day |-> day, clock |-> clock, millisecond |-> millisecond,
   offset_minutes |-> offset_minutes, status |-> status]

-----------------------------------------------------------------------------
IsLeap(y) == (y % 4 = 0 /\ y % 100 # 0) \/ y % 400 = 0
DaysInMonth(y, m) ==
  CASE m \in {1, 3, 5, 7, 8, 10, 12} -> 31
    [] m \in {4, 6, 9, 11} -> 30
    [] m = 2 -> IF IsLeap(y) THEN 29 ELSE 28
    [] OTHER -> 0

\* is_valid, with clock = <<hour, minute, second>>: a leap second is accepted.
IsValidTime(t) ==
  /\ t.month \in 1 .. 12 /\ t.day \in 1 .. DaysInMonth(t.year, t.month)
  /\ t.clock[1] <= 23 /\ t.clock[2] <= 59 /\ t.clock[3] <= 60
  /\ t.millisecond <= 999
  /\ t.offset_minutes > -1440 /\ t.offset_minutes < 1440

\* Rust divides towards zero.
Quotient(a, b) == IF a >= 0 THEN a \div b ELSE -((-a) \div b)

DayOfEra(yoe, doy) == yoe * 365 + Quotient(yoe, 4) - Quotient(yoe, 100) + doy

\* Mutant of Era: truncation taken for the floor.
EraTruncated(y) == Quotient(y, 400)

\* The 400 years that y lies in, counted from March of year 0.
Era(y) == Quotient(IF y >= 0 THEN y ELSE y - 399, 400)

DaysFromMarch(y, mp, d) ==
  Era(y) * 146097 + DayOfEra(y - Era(y) * 400, Quotient(153 * mp + 2, 5) + d - 1) - 719468
DaysFromCivil(y, m, d) ==
  IF m <= 2 THEN DaysFromMarch(y - 1, m + 9, d) ELSE DaysFromMarch(y, m - 3, d)

\* unix_millis, as whole days and the milliseconds of the last one: the count of
\* milliseconds itself fits an i64 and no integer of TLC's.
DAY_MILLIS == 86400000
Placed(days, millis) == <<days + millis \div DAY_MILLIS, millis % DAY_MILLIS>>
UnixMillis(t) ==
  Placed(DaysFromCivil(t.year, t.month, t.day),
         ((t.clock[1] * 60 + t.clock[2] - t.offset_minutes) * 60 + t.clock[3]) * 1000 + t.millisecond)

-----------------------------------------------------------------------------
\* n in w decimal digits.
InDigits(n, w) == [i \in 1 .. w |-> DIGITS[((n \div 10 ^ (w - i)) % 10) + 1]]

OffsetText(m) ==
  <<IF m < 0 THEN "-" ELSE "+">>
    \o (LET off == IF m < 0 THEN -m ELSE m IN InDigits(off \div 60, 2) \o InDigits(off % 60, 2))

\* Display.
DisplayTime(t) ==
  InDigits(t.year, 4) \o <<"-">> \o InDigits(t.month, 2) \o <<"-">> \o InDigits(t.day, 2)
    \o <<"T">> \o InDigits(t.clock[1], 2) \o <<":">> \o InDigits(t.clock[2], 2)
    \o <<":">> \o InDigits(t.clock[3], 2) \o <<",">> \o InDigits(t.millisecond, 3)
    \o OffsetText(t.offset_minutes)
    \o (IF t.status = NONE THEN <<>> ELSE <<" ", t.status>>)

-----------------------------------------------------------------------------
(***************************************************************************)
(* Reading.  The answer is [time, dev]: the time, or NONE for what is no   *)
(* timestamp, and what was reported until then.                            *)
(***************************************************************************)
Timed(time, dev) == [time |-> time, dev |-> dev]

NumberOf(s) == FoldLeft(LAMBDA n, c : 10 * n + DigitOf[c], 0, s)
NumberAt(b, from, to) == NumberOf(SubSeq(b, from, to))

\* `YYYY-MM-DDThh:mm:ss`, fixed width.
NumeralsAt == {1, 2, 3, 4, 6, 7, 9, 10, 12, 13, 15, 16, 18, 19}
HasStamp(b) ==
  /\ Len(b) >= 19
  /\ b[5] = "-" /\ b[8] = "-" /\ b[11] \in {"T", "t"} /\ b[14] = ":" /\ b[17] = ":"
  /\ \A i \in NumeralsAt : IsDecimal(b[i])

Checked(t, dev) == Timed(IF IsValidTime(t) THEN t ELSE NONE, dev)

\* The stamp is read; what remains is an offset and a status.
TimeOf(b, millis, offset, status, dev) ==
  Checked(OcmfTime(NumberAt(b, 1, 4), NumberAt(b, 6, 7), NumberAt(b, 9, 10),
                   <<NumberAt(b, 12, 13), NumberAt(b, 15, 16), NumberAt(b, 18, 19)>>,
                   millis, offset, status), dev)

TwoDigits(b, i) == i + 1 <= Len(b) /\ IsDecimal(b[i]) /\ IsDecimal(b[i + 1])

\* The minutes of the offset from position i on, which end the text.
OffsetMinutes(b, i, sign, hours, millis, status, dev) ==
  IF ~TwoDigits(b, i) \/ hours > 23 \/ i + 1 # Len(b) THEN Timed(NONE, dev)
  ELSE LET minutes == NumberAt(b, i, i + 1)
       IN  IF minutes > 59 THEN Timed(NONE, dev)
           ELSE TimeOf(b, millis, sign * (hours * 60 + minutes), status, dev)

OffsetHours(b, i, sign, millis, status, dev) ==
  IF ~TwoDigits(b, i) THEN Timed(NONE, dev)
  ELSE LET hours == NumberAt(b, i, i + 1)
       IN  IF i + 2 <= Len(b) /\ b[i + 2] = ":"
           THEN OffsetMinutes(b, i + 3, sign, hours, millis, status, dev \union {"TimeOffsetWithColon"})
           ELSE OffsetMinutes(b, i + 2, sign, hours, millis, status, dev)

\* `Z`, or a signed offset.
Offset(b, i, millis, status, dev) ==
  IF i > Len(b) THEN Timed(NONE, dev)
  ELSE IF b[i] \in {"Z", "z"} THEN IF i = Len(b) THEN TimeOf(b, millis, 0, status, dev) ELSE Timed(NONE, dev)
  ELSE IF b[i] = "+" THEN OffsetHours(b, i + 1, 1, millis, status, dev)
  ELSE IF b[i] = "-" THEN OffsetHours(b, i + 1, -1, millis, status, dev)
  ELSE Timed(NONE, dev)

\* Mutant of Milliseconds: the digits are a number of milliseconds.
MillisecondsAsWritten(s) == NumberOf(SubSeq(s, 1, Min({3, Len(s)})))

\* Three digits: fewer are filled up, more are cut off.
Milliseconds(s) == NumberOf(SubSeq(s \o <<"0", "0">>, 1, 3))

Fraction(b, digits, status, dev) ==
  IF digits = <<>> THEN Timed(NONE, dev)
  ELSE Offset(b, 21 + Len(digits), Milliseconds(digits), status,
              IF Len(digits) = 3 THEN dev ELSE dev \union {"TimeSubSecondDigits"})

DigitsAt(b, from) ==
  SubSeq(b, from, Max({i \in from - 1 .. Len(b) : \A k \in from .. i : IsDecimal(b[k])}))

Stamp(b, status, dev) ==
  IF ~HasStamp(b) THEN Timed(NONE, dev)
  ELSE IF Len(b) >= 20 /\ b[20] = ","
  THEN Fraction(b, DigitsAt(b, 21), status, dev)
  ELSE IF Len(b) >= 20 /\ b[20] = "."
  THEN Fraction(b, DigitsAt(b, 21), status, dev \union {"TimeDotMilliseconds"})
  ELSE Offset(b, 20, 0, status, dev)

\* A last word of one character is the status of the clock.
HasStatus(s) == Len(s) >= 2 /\ s[Len(s) - 1] = " " /\ s[Len(s)] # " "

\* parse_tm.
ParseTm(s) ==
  IF ~HasStatus(s) THEN Stamp(TrimEndOf(s, AsciiSpace), NONE, {"TimeStatusMissing"})
  ELSE IF Last(s) \notin TimeLetters THEN Timed(NONE, {})
  ELSE Stamp(TrimEndOf(SubSeq(s, 1, Len(s) - 2), AsciiSpace), Last(s), {})

=============================================================================
