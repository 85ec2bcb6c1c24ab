----------------------------- MODULE Forms_proofs -----------------------------
(***************************************************************************)
(* Proofs about the short forms: dates are the days of the calendar, what  *)
(* der.rs calls canonical is what it writes, what scalar.rs does byte by   *)
(* byte, and sign.rs and verify.rs build on, is what is done to numbers,   *)
(* and encoding.rs drops no bit.                                           *)
(***************************************************************************)
EXTENDS Library, NaturalFacts, FiniteSetTheorems, SequenceTheorems, TLAPS

-----------------------------------------------------------------------------
(***************************************************************************)
(* The calendar.                                                           *)
(***************************************************************************)
\* The leap years before year y.
LeapsBefore(y) == Cardinality({k \in 0 .. y - 1 : LeapYear(k)})

\* Multiples of c below y, counted as one goes on.
LEMMA MultiplesBelow ==
  ASSUME NEW y \in Nat
  PROVE  /\ (y + 4) \div 4 = (y + 3) \div 4 + (IF y % 4 = 0 THEN 1 ELSE 0)
         /\ (y + 100) \div 100 = (y + 99) \div 100 + (IF y % 100 = 0 THEN 1 ELSE 0)
         /\ (y + 400) \div 400 = (y + 399) \div 400 + (IF y % 400 = 0 THEN 1 ELSE 0)
  OBVIOUS

\* What is a multiple of 400 is one of 100, and what is one of 100 is one of 4.
LEMMA Multiples ==
  ASSUME NEW y \in Nat
  PROVE  (y % 400 = 0 => y % 100 = 0) /\ (y % 100 = 0 => y % 4 = 0)
  OBVIOUS

\* The leap years before year y, by their rule.
LeapFormula(y) == (y + 3) \div 4 - (y + 99) \div 100 + (y + 399) \div 400

\* One year more is a leap year or is none.
LEMMA OneYearMore ==
  ASSUME NEW y \in Nat
  PROVE  LeapFormula(y + 1) = LeapFormula(y) + (IF LeapYear(y) THEN 1 ELSE 0)
  <1>1. y + 1 + 3 = y + 4 /\ y + 1 + 99 = y + 100 /\ y + 1 + 399 = y + 400
    OBVIOUS
  <1>2. PICK a, b, c : a = (y + 3) \div 4 /\ b = (y + 99) \div 100 /\ c = (y + 399) \div 400
    OBVIOUS
  <1>3. a \in Int /\ b \in Int /\ c \in Int
    BY <1>2
  <1>4. LeapFormula(y) = a - b + c
    BY <1>2 DEF LeapFormula
  <1>5. LeapFormula(y + 1) = (a + (IF y % 4 = 0 THEN 1 ELSE 0)) - (b + (IF y % 100 = 0 THEN 1 ELSE 0))
                               + (c + (IF y % 400 = 0 THEN 1 ELSE 0))
    BY <1>1, <1>2, MultiplesBelow DEF LeapFormula
  <1> QED BY <1>3, <1>4, <1>5, Multiples DEF LeapYear

\* The leap years before a year are counted by the formula.
LEMMA LeapsAreCounted ==
  ASSUME NEW y \in Nat
  PROVE  LeapsBefore(y) = LeapFormula(y)
  <1> DEFINE L(n) == {k \in 0 .. n - 1 : LeapYear(k)}
             Fits(n) == IsFiniteSet(L(n)) /\ Cardinality(L(n)) = LeapFormula(n)
             Wrong == {n \in Nat : ~Fits(n)}
  <1>1. Fits(0)
    <2>1. L(0) = {}
      OBVIOUS
    <2>2. LeapFormula(0) = 0
      BY DEF LeapFormula
    <2> HIDE DEF L
    <2> QED BY <2>1, <2>2, FS_EmptySet
  <1>2. ASSUME NEW n \in Nat, Fits(n) PROVE Fits(n + 1)
    <2>1. L(n + 1) = (IF LeapYear(n) THEN L(n) \union {n} ELSE L(n)) /\ n \notin L(n)
      <3>1. \A k : k \in 0 .. n + 1 - 1 <=> k \in 0 .. n - 1 \/ k = n
        OBVIOUS
      <3>2. n \notin 0 .. n - 1
        OBVIOUS
      <3> QED BY <3>1, <3>2
    <2>2. LeapFormula(n + 1) = LeapFormula(n) + (IF LeapYear(n) THEN 1 ELSE 0)
      BY OneYearMore
    <2>3. LeapFormula(n) \in Int
      BY DEF LeapFormula
    <2> HIDE DEF L
    <2>4. CASE LeapYear(n)
      <3>1. IsFiniteSet(L(n + 1)) /\ Cardinality(L(n + 1)) = Cardinality(L(n)) + 1
        BY <1>2, <2>1, <2>4, FS_AddElement
      <3> QED BY <1>2, <2>2, <2>4, <3>1
    <2>5. CASE ~LeapYear(n)
      BY <1>2, <2>1, <2>2, <2>3, <2>5
    <2> QED BY <2>4, <2>5
  <1> HIDE DEF Fits
  <1>3. Wrong = {}
    <2>1. SUFFICES ASSUME Wrong # {} PROVE FALSE
      OBVIOUS
    <2>2. PICK n \in Wrong : \A k \in Wrong : n <= k
      <3>1. Wrong \in SUBSET Nat
        OBVIOUS
      <3> HIDE DEF Wrong
      <3> QED BY <2>1, <3>1, LeastExists
    <2>3. n \in Nat /\ ~Fits(n) /\ n # 0
      BY <1>1
    <2>4. n - 1 \in Nat /\ n - 1 + 1 = n /\ ~(n <= n - 1)
      BY <2>3
    <2>5. Fits(n - 1)
      BY <2>2, <2>4
    <2> QED BY <1>2, <2>3, <2>4, <2>5
  <1>4. Fits(y)
    BY <1>3
  <1> QED BY <1>4 DEF Fits, L, LeapsBefore

-----------------------------------------------------------------------------
\* The days of the months before month m of a year.
MonthsBefore(y, m) ==
  LET months[k \in 1 .. 12] == IF k = 1 THEN 0 ELSE months[k - 1] + LengthOf(y, k - 1) IN months[m]

\* The days of a common year before a month.
Common == <<0, 31, 59, 90, 120, 151, 181, 212, 243, 273, 304, 334>>

\* They are those of a common year, and a leap day from March on.
LEMMA MonthsAreAdded ==
  ASSUME NEW y, NEW m \in 1 .. 12
  PROVE  MonthsBefore(y, m) = Common[m] + (IF m > 2 /\ LeapYear(y) THEN 1 ELSE 0)
  <1> DEFINE leap == IF LeapYear(y) THEN 1 ELSE 0
             body(u) == [k \in 1 .. 12 |-> IF k = 1 THEN 0 ELSE u[k - 1] + LengthOf(y, k - 1)]
             w == [k \in 1 .. 12 |-> Common[k] + (IF k > 2 THEN leap ELSE 0)]
             u == CHOOSE u : u = body(u)
  <1>1. leap \in Int
    OBVIOUS
  <1>2. /\ Common[1] = 0 /\ Common[2] = 31 /\ Common[3] = 59 /\ Common[4] = 90 /\ Common[5] = 120
        /\ Common[6] = 151 /\ Common[7] = 181 /\ Common[8] = 212 /\ Common[9] = 243
        /\ Common[10] = 273 /\ Common[11] = 304 /\ Common[12] = 334
    BY DEF Common
  <1>3. /\ LengthOf(y, 1) = 31 /\ LengthOf(y, 2) = 28 + leap /\ LengthOf(y, 3) = 31
        /\ LengthOf(y, 4) = 30 /\ LengthOf(y, 5) = 31 /\ LengthOf(y, 6) = 30 /\ LengthOf(y, 7) = 31
        /\ LengthOf(y, 8) = 31 /\ LengthOf(y, 9) = 30 /\ LengthOf(y, 10) = 31 /\ LengthOf(y, 11) = 30
    BY DEF LengthOf
  <1> HIDE DEF leap
  <1>4. \A k \in 1 .. 12 : k = 1 \/ k = 2 \/ k = 3 \/ k = 4 \/ k = 5 \/ k = 6 \/ k = 7 \/ k = 8
                             \/ k = 9 \/ k = 10 \/ k = 11 \/ k = 12
    OBVIOUS
  <1>5. /\ w[1] = 0 /\ w[2] = 31 /\ w[3] = 59 + leap /\ w[4] = 90 + leap /\ w[5] = 120 + leap
        /\ w[6] = 151 + leap /\ w[7] = 181 + leap /\ w[8] = 212 + leap /\ w[9] = 243 + leap
        /\ w[10] = 273 + leap /\ w[11] = 304 + leap /\ w[12] = 334 + leap
    BY <1>1, <1>2
  <1>6. w = [k \in 1 .. 12 |-> w[k]]
    OBVIOUS
  <1>7. w = body(w)
    <2> HIDE DEF w
    <2>1. \A k \in 1 .. 12 : w[k] = IF k = 1 THEN 0 ELSE w[k - 1] + LengthOf(y, k - 1)
      <3> SUFFICES ASSUME NEW k \in 1 .. 12, k # 1 PROVE w[k] = w[k - 1] + LengthOf(y, k - 1)
        BY <1>5
      <3>1. /\ 2 - 1 = 1 /\ 3 - 1 = 2 /\ 4 - 1 = 3 /\ 5 - 1 = 4 /\ 6 - 1 = 5 /\ 7 - 1 = 6 /\ 8 - 1 = 7
            /\ 9 - 1 = 8 /\ 10 - 1 = 9 /\ 11 - 1 = 10 /\ 12 - 1 = 11
        OBVIOUS
      <3> QED BY <1>1, <1>3, <1>4, <1>5, <3>1
    <2> QED BY <1>6, <2>1
  <1>8. u = body(u)
    <2> HIDE DEF body, w
    <2> QED BY <1>7
  <1>9. MonthsBefore(y, m) = u[m]
    BY DEF MonthsBefore
  <1>10. \A k \in 1 .. 12 : u[k] = IF k = 1 THEN 0 ELSE u[k - 1] + LengthOf(y, k - 1)
    <2> HIDE DEF u
    <2> QED BY <1>8
  <1> HIDE DEF u, w, body
  <1>11. /\ u[1] = 0 /\ u[2] = u[1] + LengthOf(y, 1) /\ u[3] = u[2] + LengthOf(y, 2)
         /\ u[4] = u[3] + LengthOf(y, 3) /\ u[5] = u[4] + LengthOf(y, 4) /\ u[6] = u[5] + LengthOf(y, 5)
         /\ u[7] = u[6] + LengthOf(y, 6) /\ u[8] = u[7] + LengthOf(y, 7) /\ u[9] = u[8] + LengthOf(y, 8)
         /\ u[10] = u[9] + LengthOf(y, 9) /\ u[11] = u[10] + LengthOf(y, 10)
         /\ u[12] = u[11] + LengthOf(y, 11)
    BY <1>10
  <1>12. /\ u[1] = 0 /\ u[2] = 31 /\ u[3] = 59 + leap /\ u[4] = 90 + leap /\ u[5] = 120 + leap
         /\ u[6] = 151 + leap /\ u[7] = 181 + leap /\ u[8] = 212 + leap /\ u[9] = 243 + leap
         /\ u[10] = 273 + leap /\ u[11] = 304 + leap /\ u[12] = 334 + leap
    BY <1>1, <1>3, <1>11
  <1>13. u[m] = Common[m] + (IF m > 2 THEN leap ELSE 0)
    BY <1>1, <1>2, <1>4, <1>12
  <1> QED BY <1>9, <1>13 DEF leap

-----------------------------------------------------------------------------
\* The days of the years from March of year 0 to March of year y.
MarchDays(y) == 365 * y + y \div 4 - y \div 100 + y \div 400

\* The days of the months from March on, before the mp-th.
MonthDays(mp) == (153 * mp + 2) \div 5

\* The days from the first of March of year 0 to the first of January 1970.
FromMarchOfYear0 == 719468

\* days_from_civil counts them, era by era, also in the year before year 0.
LEMMA ErasAreCounted ==
  ASSUME NEW y \in Int, y >= -1, NEW mp \in 0 .. 11, NEW d \in Int
  PROVE  DaysFromMarch(y, mp, d) = MarchDays(y) + MonthDays(mp) + d - 1 - FromMarchOfYear0
  <1>1. PICK e \in Int, r \in 0 .. 399 : y = 400 * e + r /\ e >= -1
    <2>1. y \div 400 \in Int /\ y % 400 \in 0 .. 399 /\ y = 400 * (y \div 400) + (y % 400) /\ y \div 400 >= -1
      OBVIOUS
    <2> QED BY <2>1
  <1>2. Era(y) = e
    <2>1. CASE y >= 0
      BY <1>1, <2>1 DEF Era, Quotient
    <2>2. CASE y < 0
      <3>1. y = -1 /\ e = -1
        BY <1>1, <2>2
      <3> QED BY <3>1 DEF Era, Quotient
    <2> QED BY <2>1, <2>2
  <1>3. PICK z : z = y - Era(y) * 400
    OBVIOUS
  <1>4. z = r
    BY <1>1, <1>2, <1>3
  <1>5. Quotient(153 * mp + 2, 5) = (153 * mp + 2) \div 5 /\ (153 * mp + 2) \div 5 \in Int
    BY DEF Quotient
  <1>6. PICK q \in Int : q = (153 * mp + 2) \div 5
    BY <1>5
  <1>7. Quotient(r, 4) = r \div 4 /\ Quotient(r, 100) = r \div 100
    BY DEF Quotient
  <1>8. DaysFromMarch(y, mp, d) = e * 146097 + (r * 365 + r \div 4 - r \div 100 + (q + d - 1)) - FromMarchOfYear0
    <2>1. y - Era(y) * 400 = r /\ Era(y) = e /\ Quotient(153 * mp + 2, 5) = q
      BY <1>2, <1>3, <1>4, <1>5, <1>6
    <2>2. DaysFromMarch(y, mp, d) = e * 146097 + DayOfEra(r, q + d - 1) - FromMarchOfYear0
      BY <2>1, SMT DEF DaysFromMarch, FromMarchOfYear0
    <2>3. DayOfEra(r, q + d - 1) = r * 365 + r \div 4 - r \div 100 + (q + d - 1)
      BY <1>7 DEF DayOfEra
    <2> QED BY <2>2, <2>3, SMT DEF FromMarchOfYear0
  <1>9. y \div 4 = 100 * e + r \div 4 /\ y \div 100 = 4 * e + r \div 100 /\ y \div 400 = e
    BY <1>1
  <1>10. MarchDays(y) = 365 * y + (100 * e + r \div 4) - (4 * e + r \div 100) + e
    BY <1>9, SMT DEF MarchDays
  <1>11. PICK a \in Int, b \in Int : a = r \div 4 /\ b = r \div 100
    OBVIOUS
  <1> QED BY <1>1, <1>6, <1>8, <1>10, <1>11, SMT DEF FromMarchOfYear0, MonthDays

\* A year from March on has had its leap day, and the one before March has not.
LEMMA YearsFromMarch ==
  ASSUME NEW y \in Nat
  PROVE  /\ LeapFormula(y) \in Int /\ MarchDays(y) \in Int /\ MarchDays(y - 1) \in Int
         /\ 365 * y + LeapFormula(y) + (IF LeapYear(y) THEN 1 ELSE 0) = MarchDays(y) + 1
         /\ 365 * y + LeapFormula(y) = MarchDays(y - 1) + 366
  <1>1. /\ y \div 4 = (y + 3) \div 4 - 1 + (IF y % 4 = 0 THEN 1 ELSE 0)
        /\ y \div 100 = (y + 99) \div 100 - 1 + (IF y % 100 = 0 THEN 1 ELSE 0)
        /\ y \div 400 = (y + 399) \div 400 - 1 + (IF y % 400 = 0 THEN 1 ELSE 0)
    OBVIOUS
  <1>2. /\ (y - 1) \div 4 = (y + 3) \div 4 - 1 /\ (y - 1) \div 100 = (y + 99) \div 100 - 1
        /\ (y - 1) \div 400 = (y + 399) \div 400 - 1
    OBVIOUS
  <1>3. PICK a, b, c : a = (y + 3) \div 4 /\ b = (y + 99) \div 100 /\ c = (y + 399) \div 400
    OBVIOUS
  <1>4. a \in Int /\ b \in Int /\ c \in Int
    BY <1>3
  <1>5. LeapFormula(y) = a - b + c
    BY <1>3 DEF LeapFormula
  <1>6. MarchDays(y) = 365 * y + (a - 1 + (IF y % 4 = 0 THEN 1 ELSE 0))
                         - (b - 1 + (IF y % 100 = 0 THEN 1 ELSE 0)) + (c - 1 + (IF y % 400 = 0 THEN 1 ELSE 0))
    BY <1>1, <1>3, SMT DEF MarchDays
  <1>7. MarchDays(y - 1) = 365 * (y - 1) + (a - 1) - (b - 1) + (c - 1)
    BY <1>2, <1>3, SMT DEF MarchDays
  <1> QED BY <1>4, <1>5, <1>6, <1>7, Multiples DEF LeapYear

\* The days of the calendar before the first of January 1970.
Epoch == 719528

\* The days before a date are those that the calendar has.
LEMMA DaysBeforeDate ==
  ASSUME NEW y \in Nat, NEW m \in 1 .. 12, NEW d \in Int
  PROVE  /\ DaysBefore(y, m, d) = DaysFromCivil(y, m, d) + Epoch
         /\ DaysFromCivil(y, m, d) \in Int
  <1> DEFINE leap == IF LeapYear(y) THEN 1 ELSE 0
  <1>1. DaysBefore(y, m, d) = 365 * y + LeapFormula(y) + (Common[m] + (IF m > 2 THEN leap ELSE 0)) + d - 1
    <2>1. DaysBefore(y, m, d) = 365 * y + LeapsBefore(y) + MonthsBefore(y, m) + d - 1
      BY DEF DaysBefore, LeapsBefore, MonthsBefore
    <2> QED BY <2>1, LeapsAreCounted, MonthsAreAdded
  <1>2. /\ Common[1] = 0 /\ Common[2] = 31 /\ Common[3] = 59 /\ Common[4] = 90 /\ Common[5] = 120
        /\ Common[6] = 151 /\ Common[7] = 181 /\ Common[8] = 212 /\ Common[9] = 243
        /\ Common[10] = 273 /\ Common[11] = 304 /\ Common[12] = 334
    BY DEF Common
  <1>3. LeapFormula(y) \in Int /\ MarchDays(y) \in Int /\ MarchDays(y - 1) \in Int /\ leap \in Int
        /\ 365 * y + LeapFormula(y) + leap = MarchDays(y) + 1
        /\ 365 * y + LeapFormula(y) = MarchDays(y - 1) + 366
    BY YearsFromMarch
  <1> HIDE DEF leap
  <1>4. PICK l \in Int, a \in Int, b \in Int :
          l = LeapFormula(y) /\ a = MarchDays(y) /\ b = MarchDays(y - 1)
    BY <1>3
  <1>5. CASE m <= 2
    <2>1. m = 1 \/ m = 2
      BY <1>5
    <2>2. m + 9 \in 0 .. 11 /\ y - 1 \in Int /\ y - 1 >= -1
      BY <2>1
    <2>3. DaysFromCivil(y, m, d) = b + MonthDays(m + 9) + d - 1 - FromMarchOfYear0
      <3>1. DaysFromCivil(y, m, d) = DaysFromMarch(y - 1, m + 9, d)
        BY <1>5 DEF DaysFromCivil
      <3>2. PICK w \in Int, mp \in 0 .. 11 : w = y - 1 /\ mp = m + 9 /\ w >= -1
        BY <2>2
      <3>3. DaysFromMarch(w, mp, d) = MarchDays(w) + MonthDays(mp) + d - 1 - FromMarchOfYear0
        BY <3>2, ErasAreCounted, Zenon
      <3> QED BY <1>4, <3>1, <3>2, <3>3, Zenon
    <2>4. MonthDays(m + 9) = Common[m] + 306
      BY <1>2, <2>1 DEF MonthDays
    <2>5. Common[m] \in Int
      BY <1>2, <2>1
    <2>6. PICK c \in Int : c = Common[m]
      BY <2>5
    <2>7. DaysBefore(y, m, d) = 365 * y + l + c + d - 1
      BY <1>1, <1>3, <1>4, <1>5, <2>6
    <2>8. DaysFromCivil(y, m, d) = b + (c + 306) + d - 1 - FromMarchOfYear0
      BY <2>3, <2>4, <2>6
    <2>9. 365 * y + l = b + 366
      BY <1>3, <1>4
    <2> QED BY <1>3, <1>4, <2>7, <2>8, <2>9, SMT DEF Epoch, FromMarchOfYear0
  <1>6. CASE m > 2
    <2>1. m = 3 \/ m = 4 \/ m = 5 \/ m = 6 \/ m = 7 \/ m = 8 \/ m = 9 \/ m = 10 \/ m = 11 \/ m = 12
      BY <1>6
    <2>2. m - 3 \in 0 .. 11 /\ y \in Int /\ y >= -1
      BY <2>1
    <2>3. DaysFromCivil(y, m, d) = a + MonthDays(m - 3) + d - 1 - FromMarchOfYear0
      <3>1. DaysFromCivil(y, m, d) = DaysFromMarch(y, m - 3, d)
        BY <1>6 DEF DaysFromCivil
      <3>2. PICK w \in Int, mp \in 0 .. 11 : w = y /\ mp = m - 3 /\ w >= -1
        BY <2>2
      <3>3. DaysFromMarch(w, mp, d) = MarchDays(w) + MonthDays(mp) + d - 1 - FromMarchOfYear0
        BY <3>2, ErasAreCounted, Zenon
      <3> QED BY <1>4, <3>1, <3>2, <3>3, Zenon
    <2>4. MonthDays(m - 3) = Common[m] - 59
      BY <1>2, <2>1 DEF MonthDays
    <2>5. Common[m] \in Int
      BY <1>2, <2>1
    <2>6. PICK c \in Int : c = Common[m]
      BY <2>5
    <2>7. DaysBefore(y, m, d) = 365 * y + l + c + leap + d - 1
      BY <1>1, <1>3, <1>4, <1>6, <2>6
    <2>8. DaysFromCivil(y, m, d) = a + (c - 59) + d - 1 - FromMarchOfYear0
      BY <2>3, <2>4, <2>6
    <2>9. 365 * y + l + leap = a + 1
      BY <1>3, <1>4
    <2> QED BY <1>3, <1>4, <2>7, <2>8, <2>9, SMT DEF Epoch, FromMarchOfYear0
  <1> QED BY <1>5, <1>6, SMT

\* Where a time's milliseconds put it: the day before, the day itself or the day after.
LEMMA MillisArePlaced ==
  ASSUME NEW n \in Int, -MillisOfADay <= n, n < 2 * MillisOfADay
  PROVE  /\ n \div DAY_MILLIS \in -1 .. 1 /\ n % DAY_MILLIS \in 0 .. MillisOfADay - 1
         /\ (n \div DAY_MILLIS) * MillisOfADay + (n % DAY_MILLIS) = n
  <1>1. MillisOfADay = 86400000 /\ DAY_MILLIS = 86400000
    BY SMT DEF MillisOfADay, DAY_MILLIS
  <1>2. PICK a, r : a = n \div 86400000 /\ r = n % 86400000
    OBVIOUS
  <1>3. a \in Int /\ r \in Int /\ 0 <= r /\ r < 86400000 /\ n = a * 86400000 + r
    BY <1>2, SMT
  <1>4. -1 <= a /\ a <= 1 /\ r < MillisOfADay /\ a * MillisOfADay + r = n /\ MillisOfADay \in Int
    BY <1>1, <1>3, SMT
  <1>5. a \in -1 .. 1 /\ r \in 0 .. MillisOfADay - 1
    BY <1>3, <1>4
  <1>6. n \div DAY_MILLIS = a /\ n % DAY_MILLIS = r
    BY <1>1, <1>2, SMT
  <1> QED BY <1>4, <1>5, <1>6

\* The question that was asked about a date stays what it is, and what is written
\* about it is where unix_millis places it.
Placing ==
  /\ asked = NONE => turn = "first"
  /\ About("date") => asked \in Questions /\ (turn = "first" \/ written = UnixMillis(asked.value))

\* The first of January 1970 is day 0.
LEMMA TheEpoch == DaysBefore(1970, 1, 1) = Epoch
  <1>1. DaysFromMarch(1969, 10, 1) = 0
    <2>1. MarchDays(1969) = 719162
      BY SMT DEF MarchDays
    <2>2. MonthDays(10) = 306
      BY DEF MonthDays
    <2>3. DaysFromMarch(1969, 10, 1) = MarchDays(1969) + MonthDays(10) + 1 - 1 - FromMarchOfYear0
      BY ErasAreCounted, SMT
    <2> QED BY <2>1, <2>2, <2>3, SMT DEF FromMarchOfYear0
  <1>2. DaysFromCivil(1970, 1, 1) = DaysFromMarch(1970 - 1, 1 + 9, 1)
    BY SMT DEF DaysFromCivil
  <1>3. DaysBefore(1970, 1, 1) = DaysFromCivil(1970, 1, 1) + Epoch
    BY DaysBeforeDate, SMT
  <1> QED BY <1>1, <1>2, <1>3, SMT DEF Epoch

\* What is placed is what the runs check.
LEMMA DaysShow ==
  ASSUME Placing
  PROVE  DaysAreCounted
  <1> SUFFICES ASSUME About("date"), turn # "first"
               PROVE  DaysAreCounted
    BY DEF DaysAreCounted
  <1>1. asked \in Questions /\ asked.kind = "date" /\ written = UnixMillis(asked.value)
    BY DEF Placing, About
  <1>2. PICK t : t = asked.value
    OBVIOUS
  <1>3. /\ t.year \in Nat /\ t.clock \in [1 .. 3 -> Nat] /\ t.millisecond \in Nat
        /\ t.offset_minutes \in Int /\ IsValidTime(t)
    BY <1>1, <1>2, QuestionsAssumption
  <1>4. PICK h \in Nat, mi \in Nat, s \in Nat, ms \in Nat, o \in Int :
          /\ h = t.clock[1] /\ mi = t.clock[2] /\ s = t.clock[3] /\ ms = t.millisecond
          /\ o = t.offset_minutes
    BY <1>3
  <1>5. h <= 23 /\ mi <= 59 /\ s <= 60 /\ ms <= 999 /\ -1440 < o /\ o < 1440
    BY <1>3, <1>4 DEF IsValidTime
  <1>6. t.month \in 1 .. 12 /\ t.day \in Int
    BY <1>3 DEF IsValidTime
  <1>7. PICK n \in Int : n = ((h * 60 + mi - o) * 60 + s) * 1000 + ms
    OBVIOUS
  <1>8. -MillisOfADay <= n /\ n < 2 * MillisOfADay /\ n = (3600 * h + 60 * (mi - o) + s) * 1000 + ms
    BY <1>5, <1>7, SMT DEF MillisOfADay
  <1>9. PICK over, rest : over = n \div DAY_MILLIS /\ rest = n % DAY_MILLIS
    OBVIOUS
  <1>10. over \in -1 .. 1 /\ rest \in 0 .. MillisOfADay - 1 /\ over * MillisOfADay + rest = n
    BY <1>8, <1>9, MillisArePlaced, SMT
  <1>11. PICK y \in Nat, m \in 1 .. 12, d \in Int : y = t.year /\ m = t.month /\ d = t.day
    BY <1>3, <1>6
  <1>12. PICK days \in Int : days = DaysFromCivil(y, m, d) /\ DaysBefore(y, m, d) = days + Epoch
    <2>1. DaysFromCivil(y, m, d) \in Int /\ DaysBefore(y, m, d) = DaysFromCivil(y, m, d) + Epoch
      BY DaysBeforeDate, Zenon
    <2> QED BY <2>1
  <1>13. written = <<days + over, rest>>
    BY <1>1, <1>2, <1>4, <1>7, <1>9, <1>11, <1>12, SMT DEF UnixMillis, Placed
  <1>14. written[1] = days + over /\ written[2] = rest
    BY <1>13
  <1>15. written[1] - (DaysBefore(t.year, t.month, t.day) - DaysBefore(1970, 1, 1)) = over
    BY <1>10, <1>11, <1>12, <1>14, TheEpoch, SMT DEF Epoch
  <1>16. (3600 * t.clock[1] + 60 * (t.clock[2] - t.offset_minutes) + t.clock[3]) * 1000 + t.millisecond = n
    BY <1>4, <1>8
  <1> QED BY <1>2, <1>10, <1>14, <1>15, <1>16 DEF DaysAreCounted

\* What is not about a date says nothing of one.
LEMMA FormKeepsPlacing ==
  ASSUME Placing, Form
  PROVE  Placing'
  <1>1. CASE PlaceTime
    <2>1. About("date") /\ asked \in Questions /\ asked' = asked
      BY <1>1 DEF PlaceTime, Writes, WriteAs, Placing
    <2>2. asked = [kind |-> "date", value |-> asked.value]
      BY <2>1, QuestionsAssumption DEF About
    <2>3. ~IsGiven("text")
      <3>1. DOMAIN asked = {"kind", "value"}
        BY <2>2
      <3> QED BY <3>1, Zenon DEF IsGiven
    <2>4. written' = UnixMillis(asked'.value)
      BY <1>1, <2>1, <2>3 DEF PlaceTime, WriteAs, Content
    <2> QED BY <2>1, <2>4 DEF Placing, About
  <1>2. ASSUME NEW k, k # "date", Reads(k) \/ Writes(k), asked' = asked
        PROVE  Placing'
    <2>1. asked # NONE /\ asked.kind = k
      BY <1>2 DEF Reads, Writes, About
    <2> QED BY <1>2, <2>1 DEF Placing, About
  <1>3. CASE (ReadForm \/ WriteForm) /\ ~PlaceTime
    <2>1. asked' = asked /\ \E k \in {"scalars", "der", "key", "time", "obis", "hex", "base64"} : Reads(k) \/ Writes(k)
      BY <1>3, Zenon DEF ReadForm, WriteForm, ReadScalars, ReadDer, ReadKey, ReadTime, ReadCode, ReadHex, ReadBase64,
         WriteScalars, WriteDer, WriteKey, WriteTime, WriteCode, WriteHex, WriteBase64, Answer, WriteAs
    <2> QED BY <1>2, <2>1
  <1> QED BY <1>1, <1>3 DEF Form

\* The milliseconds of every instant that is placed are those of the calendar: the days
\* that days_from_civil counts, by eras of 400 years and months from March, are the days
\* before the date in a calendar of leap years, and an offset, a leap second or the
\* year's end puts the instant on the right day (time.rs, days_from_civil and unix_millis).
THEOREM DaysAreAlwaysCounted == Spec => []DaysAreCounted
  <1>1. Init => Placing
    BY DEF Init, NothingAsked, Placing, About
  <1>2. Placing /\ [Next]_vars => Placing'
    <2> SUFFICES ASSUME Placing, [Next]_vars PROVE Placing'
      OBVIOUS
    <2>1. CASE UNCHANGED forms
      BY <2>1 DEF forms, Placing, About
    <2>2. CASE CallForm
      <3>1. PICK q \in Questions : Ask(q)
        BY <2>2 DEF CallForm
      <3>2. asked' = q /\ turn' = "first"
        BY <3>1 DEF Ask, Placing
      <3> QED BY <3>2 DEF Placing
    <2>3. CASE Forming
      BY <2>3, FormKeepsPlacing DEF Forming
    <2>4. CASE CallRead \/ CallSign \/ CallTool \/ ReadOnly \/ Building \/ Tool \/ UNCHANGED vars
      BY <2>1, <2>4 DEF CallRead, CallSign, CallTool, ReadOnly, Building, Tool, vars
    <2> QED BY <2>2, <2>3, <2>4 DEF Next
  <1>3. Placing => DaysAreCounted
    BY DaysShow
  <1> QED BY <1>1, <1>2, <1>3, PTL DEF Spec

-----------------------------------------------------------------------------
(***************************************************************************)
(* DER.                                                                    *)
(***************************************************************************)
\* Where one sequence goes on with another, either is found again.
LEMMA Parts ==
  ASSUME NEW S, NEW a \in Seq(S), NEW b \in Seq(S)
  PROVE  /\ a \o b \in Seq(S) /\ Len(a \o b) = Len(a) + Len(b)
         /\ SubSeq(a \o b, 1, Len(a)) = a /\ SubSeq(a \o b, Len(a) + 1, Len(a) + Len(b)) = b
         /\ \A i \in 1 .. Len(a) : (a \o b)[i] = a[i]
         /\ \A i \in 1 .. Len(b) : (a \o b)[Len(a) + i] = b[i]
  <1>1. /\ a \o b \in Seq(S) /\ Len(a \o b) = Len(a) + Len(b) /\ Len(a) \in Nat /\ Len(b) \in Nat
        /\ \A i \in 1 .. Len(a) : (a \o b)[i] = a[i]
        /\ \A i \in 1 .. Len(b) : (a \o b)[Len(a) + i] = b[i]
    OBVIOUS
  <1>2. SubSeq(a \o b, 1, Len(a)) = a
    <2>1. \A i \in 1 .. Len(a) : (a \o b)[i] \in S
      BY <1>1, ElementOfSeq
    <2>2. /\ SubSeq(a \o b, 1, Len(a)) \in Seq(S) /\ Len(SubSeq(a \o b, 1, Len(a))) = Len(a)
          /\ \A i \in 1 .. Len(a) : SubSeq(a \o b, 1, Len(a))[i] = (a \o b)[i]
      BY <1>1, <2>1, SubSeqProperties
    <2> QED BY <1>1, <2>2, SeqEqual
  <1>3. SubSeq(a \o b, Len(a) + 1, Len(a) + Len(b)) = b
    <2>1. \A i \in Len(a) + 1 .. Len(a) + Len(b) : (a \o b)[i] \in S
      BY <1>1
    <2> DEFINE c == SubSeq(a \o b, Len(a) + 1, Len(a) + Len(b))
    <2>2. c \in Seq(S) /\ Len(c) = Len(b)
      BY <1>1, <2>1, SubSeqProperties
    <2>3. \A i \in 1 .. Len(b) : c[i] = (a \o b)[Len(a) + i]
      BY <1>1, <2>1
    <2> HIDE DEF c
    <2>4. c = b
      BY <1>1, <2>2, <2>3, SeqEqual
    <2> QED BY <2>4 DEF c
  <1> QED BY <1>1, <1>2, <1>3

\* c is a and then b, place by place.
Joins(a, b, c) ==
  /\ Len(c) = Len(a) + Len(b)
  /\ \A i \in 1 .. Len(a) : c[i] = a[i]
  /\ \A i \in 1 .. Len(b) : c[Len(a) + i] = b[i]

\* The concatenation of two sequences is the one and then the other.
LEMMA AreJoined ==
  ASSUME NEW S, NEW a \in Seq(S), NEW b \in Seq(S)
  PROVE  a \o b \in Seq(S) /\ Joins(a, b, a \o b)
  BY Parts, SMT DEF Joins

\* A sequence is its beginning and what is left of it.
LEMMA CutInTwo ==
  ASSUME NEW S, NEW b \in Seq(S), NEW n \in 0 .. Len(b)
  PROVE  /\ SubSeq(b, 1, n) \in Seq(S) /\ SubSeq(b, n + 1, Len(b)) \in Seq(S)
         /\ Len(SubSeq(b, 1, n)) = n /\ Len(SubSeq(b, n + 1, Len(b))) = Len(b) - n
         /\ b = SubSeq(b, 1, n) \o SubSeq(b, n + 1, Len(b))
  <1> DEFINE c == SubSeq(b, 1, n)
             d == SubSeq(b, n + 1, Len(b))
  <1>1. Len(b) \in Nat /\ \A i \in 1 .. Len(b) : b[i] \in S
    OBVIOUS
  <1>2. /\ c \in Seq(S) /\ Len(c) = n /\ \A i \in 1 .. n : c[i] = b[i]
    BY <1>1, SubSeqProperties
  <1>3. d \in Seq(S) /\ Len(d) = Len(b) - n /\ \A i \in 1 .. Len(b) - n : d[i] = b[n + i]
    BY <1>1, SubSeqProperties
  <1> HIDE DEF c, d
  <1>4. c \o d \in Seq(S) /\ Len(c \o d) = Len(b) /\ \A i \in 1 .. Len(b) : (c \o d)[i] = b[i]
    <2>1. c \o d \in Seq(S) /\ Len(c \o d) = Len(b)
      BY <1>1, <1>2, <1>3, Parts
    <2>2. \A i \in 1 .. n : (c \o d)[i] = b[i]
      BY <1>1, <1>2, <1>3, Parts
    <2>3. \A i \in 1 .. Len(b) - n : (c \o d)[n + i] = b[n + i]
      BY <1>1, <1>2, <1>3, Parts
    <2>4. ASSUME NEW i \in 1 .. Len(b), i > n PROVE (c \o d)[i] = b[i]
      <3>1. PICK j \in 1 .. Len(b) - n : i = n + j
        <4>1. i - n \in 1 .. Len(b) - n /\ i = n + (i - n)
          BY <1>1, <2>4
        <4> QED BY <4>1
      <3> QED BY <2>3, <3>1
    <2>5. \A i \in 1 .. Len(b) : i \in 1 .. n \/ i > n
      BY <1>1
    <2> QED BY <2>1, <2>2, <2>4, <2>5
  <1>5. b = c \o d
    BY <1>4, SeqEqual
  <1> QED BY <1>2, <1>3, <1>5 DEF c, d

-----------------------------------------------------------------------------
\* Numbers below 256^3 and their octets.
LEMMA NumberOfOctets ==
  ASSUME NEW n \in Nat
  PROVE  /\ n < 256 => n % 256 = n
         /\ n < 65536 => (n % 256) + ((n \div 256) % 256) * 256 = n
         /\ n < 16777216 => (n % 256) + ((n \div 256) % 256) * 256 + ((n \div 65536) % 256) * 65536 = n
  <1>1. PICK p \in Int, q \in Int : p = n \div 256 /\ q = n \div 65536
    OBVIOUS
  <1>2. n = p * 256 + (n % 256) /\ p >= 0 /\ q >= 0
    BY <1>1, SMT
  <1>3. q = p \div 256 /\ p = q * 256 + (p % 256)
    BY <1>1, SMT
  <1>4. n < 65536 => p % 256 = p
    BY <1>1, SMT
  <1>5. n < 16777216 => q % 256 = q
    BY <1>1, SMT
  <1>6. n < 256 => n % 256 = n
    BY SMT
  <1> QED BY <1>1, <1>2, <1>3, <1>4, <1>5, <1>6, SMT

\* The place values in numbers.
LEMMA Places ==
  /\ PLACES[1] = 1 /\ PLACES[2] = 256 /\ PLACES[3] = 65536 /\ PLACES[4] = 16777216
  /\ TOO_LONG = 16777216 /\ \A k \in 1 .. 4 : PLACES[k] \in Nat
  BY SMT DEF PLACES, TOO_LONG

\* A sequence is the function of its places, each in its set.
LEMMA SequencePlaces ==
  ASSUME NEW S, NEW s \in Seq(S)
  PROVE  Len(s) \in Nat /\ s = [i \in 1 .. Len(s) |-> s[i]] /\ \A i \in 1 .. Len(s) : s[i] \in S
  OBVIOUS

\* An octet is a number below 256.
LEMMA OctetsAreNumbers ==
  ASSUME NEW w \in OctetStrings
  PROVE  /\ Len(w) \in Nat /\ w = [i \in 1 .. Len(w) |-> w[i]]
         /\ \A i \in 1 .. Len(w) : w[i] \in Int /\ 0 <= w[i] /\ w[i] < 256
  <1> DEFINE S == 0 .. 255
  <1>1. w \in Seq(S)
    BY DEF OctetStrings
  <1> HIDE DEF S
  <1>2. Len(w) \in Nat /\ w = [i \in 1 .. Len(w) |-> w[i]] /\ \A i \in 1 .. Len(w) : w[i] \in S
    BY <1>1, SequencePlaces
  <1>3. \A x \in S : x \in Int /\ 0 <= x /\ x < 256
    BY DEF S
  <1> QED BY <1>2, <1>3

\* What up to three octets amount to, place by place.
LEMMA OctetsAdd ==
  ASSUME NEW w, NEW a \in Int, NEW b \in Int, NEW c \in Int
  PROVE  /\ Len(w) = 1 /\ w[1] = a => OctetsValue(w) = a
         /\ Len(w) = 2 /\ w[1] = a /\ w[2] = b => OctetsValue(w) = b + a * 256
         /\ Len(w) = 3 /\ w[1] = a /\ w[2] = b /\ w[3] = c => OctetsValue(w) = c + b * 256 + a * 65536
  <1> DEFINE octet(k) == IF k <= Len(w) THEN w[Len(w) - k + 1] * PLACES[k] ELSE 0
  <1>1. OctetsValue(w) = octet(1) + octet(2) + octet(3) + octet(4)
    BY DEF OctetsValue
  <1>2. ASSUME Len(w) = 1, w[1] = a PROVE OctetsValue(w) = a
    <2>1. octet(1) = a /\ octet(2) = 0 /\ octet(3) = 0 /\ octet(4) = 0
      BY <1>2, Places, SMT
    <2> HIDE DEF octet
    <2> QED BY <1>1, <2>1
  <1>3. ASSUME Len(w) = 2, w[1] = a, w[2] = b PROVE OctetsValue(w) = b + a * 256
    <2>1. octet(1) = b /\ octet(2) = a * 256 /\ octet(3) = 0 /\ octet(4) = 0
      BY <1>3, Places, SMT
    <2> HIDE DEF octet
    <2> QED BY <1>1, <2>1
  <1>4. ASSUME Len(w) = 3, w[1] = a, w[2] = b, w[3] = c PROVE OctetsValue(w) = c + b * 256 + a * 65536
    <2>1. octet(1) = c /\ octet(2) = b * 256 /\ octet(3) = a * 65536 /\ octet(4) = 0
      BY <1>4, Places, SMT
    <2> HIDE DEF octet
    <2> QED BY <1>1, <2>1, SMT
  <1> QED BY <1>2, <1>3, <1>4, SMT

\* The length that up to three octets state, and the octets that state it.
LEMMA OctetsOfLength ==
  ASSUME NEW w \in OctetStrings, Len(w) \in 1 .. 3
  PROVE  /\ OctetsValue(w) \in Nat /\ OctetsValue(w) < PLACES[Len(w) + 1]
         /\ w = [i \in 1 .. Len(w) |-> (OctetsValue(w) \div PLACES[Len(w) - i + 1]) % 256]
  <1>1. /\ \A i \in 1 .. Len(w) : w[i] \in Int /\ 0 <= w[i] /\ w[i] < 256
        /\ w = [i \in 1 .. Len(w) |-> w[i]]
    BY OctetsAreNumbers
  <1>2. PICK x : x = OctetsValue(w)
    OBVIOUS
  <1>3. CASE Len(w) = 1
    <2>1. PICK a \in Int : a = w[1] /\ 0 <= a /\ a < 256
      BY <1>1, <1>3
    <2>2. x = a
      BY <1>2, <1>3, <2>1, OctetsAdd
    <2>3. x \in Nat /\ x < 256 /\ (x \div 1) % 256 = a
      BY <2>1, <2>2
    <2>4. \A i \in 1 .. 1 : w[i] = (x \div PLACES[1 - i + 1]) % 256
      BY <2>1, <2>3, Places, SMT
    <2> QED BY <1>1, <1>2, <1>3, <2>3, <2>4, Places, SMT
  <1>4. CASE Len(w) = 2
    <2>1. PICK a \in Int, b \in Int : a = w[1] /\ b = w[2] /\ 0 <= a /\ a < 256 /\ 0 <= b /\ b < 256
      BY <1>1, <1>4
    <2>2. x = b + a * 256
      BY <1>2, <1>4, <2>1, OctetsAdd
    <2>3. x \in Nat /\ x < 65536
      BY <2>1, <2>2, SMT
    <2>5. (x \div 1) % 256 = b /\ (x \div 256) % 256 = a
      <3>1. x \div 1 = x /\ x % 256 = b /\ x \div 256 = a
        BY <2>1, <2>2, SMT
      <3>2. a % 256 = a
        BY <2>1
      <3> QED BY <3>1, <3>2
    <2>4. \A i \in 1 .. 2 : w[i] = (x \div PLACES[2 - i + 1]) % 256
      BY <2>1, <2>5, Places, SMT
    <2> QED BY <1>1, <1>2, <1>4, <2>3, <2>4, Places, SMT
  <1>5. CASE Len(w) = 3
    <2>1. PICK a \in Int, b \in Int, c \in Int : /\ a = w[1] /\ b = w[2] /\ c = w[3]
            /\ 0 <= a /\ a < 256 /\ 0 <= b /\ b < 256 /\ 0 <= c /\ c < 256
      BY <1>1, <1>5
    <2>2. x = c + b * 256 + a * 65536
      BY <1>2, <1>5, <2>1, OctetsAdd, SMT
    <2>3. x \in Nat /\ x < 16777216
      BY <2>1, <2>2, SMT
    <2>5. (x \div 1) % 256 = c /\ (x \div 256) % 256 = b /\ (x \div 65536) % 256 = a
      <3>1. PICK y \in Int : y = x
        BY <2>3
      <3>4. y = c + b * 256 + a * 65536
        BY <2>2, <3>1
      <3>5. y % 256 = c /\ y \div 256 = b + a * 256
        BY <2>1, <3>4, SMT
      <3>2. y \div 1 = y /\ y \div 65536 = a
        BY <2>1, <3>4, SMT
      <3>3. a % 256 = a /\ (b + a * 256) % 256 = b
        BY <2>1, SMT
      <3> QED BY <3>1, <3>2, <3>3, <3>5, SMT
    <2>4. \A i \in 1 .. 3 : w[i] = (x \div PLACES[3 - i + 1]) % 256
      BY <2>1, <2>5, Places, SMT
    <2> QED BY <1>1, <1>2, <1>5, <2>3, <2>4, Places, SMT
  <1> QED BY <1>3, <1>4, <1>5

\* A length in k octets.
OctetsOf(len, k) == [i \in 1 .. k |-> (len \div PLACES[k - i + 1]) % 256]

\* The octets that push_length writes state the length.
LEMMA LengthIsStated ==
  ASSUME NEW len \in Nat, NEW k \in 1 .. 3, len < PLACES[k + 1],
         NEW w, w = OctetsOf(len, k)
  PROVE  w \in OctetStrings /\ Len(w) = k /\ OctetsValue(w) = len
  <1>1. PICK p \in Int, q \in Int : p = len \div 256 /\ q = len \div 65536
    OBVIOUS
  <1>2. PICK a, b, c : a = len % 256 /\ b = p % 256 /\ c = q % 256
    OBVIOUS
  <1>3. len \div 1 = len
    OBVIOUS
  <1>4. Len(w) = k /\ \A i \in 1 .. k : w[i] = (len \div PLACES[k - i + 1]) % 256
    BY DEF OctetsOf
  <1>5. /\ k = 1 => w[1] = a
        /\ k = 2 => w[1] = b /\ w[2] = a
        /\ k = 3 => w[1] = c /\ w[2] = b /\ w[3] = a
    <2>1. ASSUME k = 1 PROVE w[1] = a
      <3>1. w[1] = (len \div PLACES[1]) % 256
        BY <1>4, <2>1
      <3> QED BY <1>2, <1>3, <3>1, Places, SMT
    <2>2. ASSUME k = 2 PROVE w[1] = b /\ w[2] = a
      <3>1. w[1] = (len \div PLACES[2]) % 256 /\ w[2] = (len \div PLACES[1]) % 256
        BY <1>4, <2>2
      <3> QED BY <1>1, <1>2, <1>3, <3>1, Places, SMT
    <2>3. ASSUME k = 3 PROVE w[1] = c /\ w[2] = b /\ w[3] = a
      <3>1. /\ w[1] = (len \div PLACES[3]) % 256 /\ w[2] = (len \div PLACES[2]) % 256
            /\ w[3] = (len \div PLACES[1]) % 256
        BY <1>4, <2>3
      <3> QED BY <1>1, <1>2, <1>3, <3>1, Places, SMT
    <2> QED BY <2>1, <2>2, <2>3
  <1>6. k = 1 \/ k = 2 \/ k = 3
    OBVIOUS
  <1>12. a \in 0 .. 255 /\ b \in 0 .. 255 /\ c \in 0 .. 255
    <2>1. \A x \in Int : x % 256 \in 0 .. 255
      OBVIOUS
    <2> QED BY <1>1, <1>2, <2>1
  <1> DEFINE S == 0 .. 255
  <1>13. a \in S /\ b \in S /\ c \in S
    BY <1>12
  <1> HIDE DEF S
  <1>7. \A i \in 1 .. k : w[i] \in S
    <2>1. CASE k = 1
      BY <1>5, <1>13, <2>1
    <2>2. CASE k = 2
      <3>1. \A i \in 1 .. 2 : i = 1 \/ i = 2
        OBVIOUS
      <3> QED BY <1>5, <1>13, <2>2, <3>1
    <2>3. CASE k = 3
      <3>1. \A i \in 1 .. 3 : i = 1 \/ i = 2 \/ i = 3
        OBVIOUS
      <3> QED BY <1>5, <1>13, <2>3, <3>1
    <2> QED BY <1>6, <2>1, <2>2, <2>3
  <1>8. w \in Seq(S)
    BY <1>7 DEF OctetsOf
  <1>9. w \in OctetStrings
    BY <1>8 DEF S, OctetStrings
  <1>10. /\ k = 1 => len = a
         /\ k = 2 => len = a + b * 256
         /\ k = 3 => len = a + b * 256 + c * 65536
    <2>1. /\ len < 256 => len % 256 = len
          /\ len < 65536 => (len % 256) + ((len \div 256) % 256) * 256 = len
          /\ len < 16777216 => (len % 256) + ((len \div 256) % 256) * 256 + ((len \div 65536) % 256) * 65536 = len
      BY NumberOfOctets, SMT
    <2>2. /\ len < 256 => a = len
          /\ len < 65536 => a + b * 256 = len
          /\ len < 16777216 => a + b * 256 + c * 65536 = len
      BY <1>1, <1>2, <2>1, SMT
    <2>3. (k = 1 => len < 256) /\ (k = 2 => len < 65536) /\ (k = 3 => len < 16777216)
      BY Places, SMT
    <2> QED BY <2>2, <2>3, SMT
  <1>11. OctetsValue(w) = len
    <2>1. a \in Int /\ b \in Int /\ c \in Int
      BY <1>12
    <2>2. CASE k = 1
      BY <1>4, <1>5, <1>10, <2>1, <2>2, OctetsAdd, SMT
    <2>3. CASE k = 2
      <3>1. OctetsValue(w) = a + b * 256
        BY <1>4, <1>5, <2>1, <2>3, OctetsAdd, SMT
      <3> QED BY <1>10, <2>3, <3>1
    <2>4. CASE k = 3
      <3>1. OctetsValue(w) = a + b * 256 + c * 65536
        BY <1>4, <1>5, <2>1, <2>4, OctetsAdd, SMT
      <3> QED BY <1>10, <2>4, <3>1, SMT
    <2> QED BY <1>6, <2>2, <2>3, <2>4
  <1> QED BY <1>4, <1>9, <1>11

\* As many octets as the length needs.
LEMMA OctetsNeeded ==
  ASSUME NEW len \in Nat, 0 < len, len < TOO_LONG
  PROVE  MinimalLengthOctets(len) \in 1 .. 3 /\ len < PLACES[MinimalLengthOctets(len) + 1]
  <1> DEFINE Enough == {n \in 0 .. 3 : len < PLACES[n + 1]}
  <1>1. 3 \in Enough /\ 0 \notin Enough
    BY Places, SMT
  <1>2. PICK n \in Enough : \A k \in Enough : n <= k
    <2>1. Enough \in SUBSET Nat /\ Enough # {}
      BY <1>1
    <2> HIDE DEF Enough
    <2> QED BY <2>1, LeastExists
  <1>3. n \in 1 .. 3 /\ len < PLACES[n + 1]
    BY <1>1
  <1>4. Min(Enough) = n
    <2>1. \A k \in Enough : k \in Int
      OBVIOUS
    <2> HIDE DEF Enough
    <2> QED BY <1>2, <2>1 DEF Min
  <1> QED BY <1>3, <1>4 DEF MinimalLengthOctets

-----------------------------------------------------------------------------
\* A window of a sequence is what is seen through it.
LEMMA Window ==
  ASSUME NEW S, NEW b \in Seq(S), NEW w \in Seq(S), NEW m \in Nat, m + Len(w) <= Len(b),
         \A i \in 1 .. Len(w) : b[m + i] = w[i]
  PROVE  SubSeq(b, m + 1, m + Len(w)) = w
  <1> DEFINE c == SubSeq(b, m + 1, m + Len(w))
  <1>1. Len(b) \in Nat /\ Len(w) \in Nat /\ \A i \in 1 .. Len(b) : b[i] \in S
    BY SequencePlaces
  <1>2. \A i \in m + 1 .. m + Len(w) : b[i] \in S
    BY <1>1
  <1>3. c \in Seq(S) /\ Len(c) = Len(w)
    BY <1>1, <1>2, SubSeqProperties
  <1>4. \A i \in 1 .. Len(w) : c[i] = b[m + i]
    <2>1. \A i \in 1 .. (m + Len(w)) - (m + 1) + 1 : c[i] = b[(m + 1) + i - 1]
      BY <1>1, <1>2, SubSeqProperties
    <2> HIDE DEF c
    <2> QED BY <1>1, <2>1
  <1> HIDE DEF c
  <1>5. c = w
    BY <1>3, <1>4, SeqEqual
  <1> QED BY <1>5 DEF c

\* What a window shows of a sequence.
LEMMA Seen ==
  ASSUME NEW S, NEW b \in Seq(S), NEW m \in Nat, NEW n \in Nat, m + n <= Len(b)
  PROVE  /\ SubSeq(b, m + 1, m + n) \in Seq(S) /\ Len(SubSeq(b, m + 1, m + n)) = n
         /\ \A i \in 1 .. n : SubSeq(b, m + 1, m + n)[i] = b[m + i]
  <1> DEFINE c == SubSeq(b, m + 1, m + n)
  <1>1. Len(b) \in Nat /\ \A i \in 1 .. Len(b) : b[i] \in S
    BY SequencePlaces
  <1>2. \A i \in m + 1 .. m + n : b[i] \in S
    BY <1>1
  <1>3. c \in Seq(S) /\ Len(c) = n
    BY <1>1, <1>2, SubSeqProperties
  <1>4. \A i \in 1 .. n : c[i] = b[m + i]
    <2>1. \A i \in 1 .. (m + n) - (m + 1) + 1 : c[i] = b[(m + 1) + i - 1]
      BY <1>1, <1>2, SubSeqProperties
    <2> HIDE DEF c
    <2> QED BY <1>1, <2>1
  <1> QED BY <1>3, <1>4

\* p is t, then l, then v, place by place.
Row(t, l, v, p) ==
  /\ Len(p) = 1 + Len(l) + Len(v) /\ p[1] = t
  /\ \A i \in 1 .. Len(l) : p[1 + i] = l[i]
  /\ \A i \in 1 .. Len(v) : p[1 + Len(l) + i] = v[i]

\* A tag, a length and a value that are concatenated stand in a row.
LEMMA AreInARow ==
  ASSUME NEW S, NEW t \in S, NEW l \in Seq(S), NEW v \in Seq(S)
  PROVE  <<t>> \o l \o v \in Seq(S) /\ Row(t, l, v, <<t>> \o l \o v)
  <1>1. Len(l) \in Nat /\ Len(v) \in Nat
    BY SequencePlaces
  <1>2. PICK s \in Seq(S) : s = <<t>> /\ Len(s) = 1 /\ s[1] = t
    <2>1. <<t>> \in Seq(S) /\ Len(<<t>>) = 1 /\ <<t>>[1] = t
      OBVIOUS
    <2> QED BY <2>1, Zenon
  <1>3. PICK h \in Seq(S) : h = s \o l /\ Joins(s, l, h)
    BY AreJoined, Zenon
  <1>4. PICK p \in Seq(S) : p = h \o v /\ Joins(h, v, p)
    BY AreJoined, Zenon
  <1>5. Len(h) = 1 + Len(l) /\ h[1] = t /\ \A i \in 1 .. Len(l) : h[1 + i] = l[i]
    BY <1>1, <1>2, <1>3 DEF Joins
  <1>6. Row(t, l, v, p)
    BY <1>1, <1>4, <1>5 DEF Joins, Row
  <1>7. p = <<t>> \o l \o v
    BY <1>2, <1>3, <1>4, Zenon
  <1> QED BY <1>6, <1>7, Zenon

\* l is one octet, or says how many octets follow, which are as few as there can be.
StatesLength(l, len) ==
  \/ len < 128 /\ l = <<len>>
  \/ /\ len >= 128
     /\ \E k \in 1 .. 3, w \in OctetStrings :
          /\ k = MinimalLengthOctets(len) /\ Len(w) = k /\ OctetsValue(w) = len
          /\ l = <<128 + k>> \o w

\* The octets of the length that push_length writes.
LEMMA LengthIsWritten ==
  ASSUME NEW len \in Nat, len < TOO_LONG
  PROVE  StatesLength(PushLength(len), len)
  <1>1. CASE len < 128
    BY <1>1 DEF PushLength, StatesLength
  <1>2. CASE ~(len < 128)
    <2>1. PICK k : k = MinimalLengthOctets(len)
      OBVIOUS
    <2>2. k \in 1 .. 3 /\ len < PLACES[k + 1]
      BY <1>2, <2>1, OctetsNeeded
    <2>3. PICK w : w = OctetsOf(len, k)
      OBVIOUS
    <2>4. w \in OctetStrings /\ Len(w) = k /\ OctetsValue(w) = len
      BY <2>2, <2>3, LengthIsStated, Zenon
    <2>5. PushLength(len) = <<128 + k>> \o w
      BY <1>2, <2>1, <2>3, Zenon DEF PushLength, LengthOctets, OctetsOf
    <2>6. len >= 128
      BY <1>2
    <2> QED BY <2>1, <2>2, <2>4, <2>5, <2>6, Zenon DEF StatesLength
  <1> QED BY <1>1, <1>2

\* What is written is read back, whatever follows it: as what it was, and canonical.
LEMMA WrittenIsRead ==
  ASSUME NEW tag \in 0 .. 255, NEW v \in OctetStrings, Len(v) < TOO_LONG, NEW rest \in OctetStrings,
         NEW p, p = PushTlv(tag, v)
  PROVE  /\ p \in OctetStrings /\ Len(p) \in Nat /\ Len(p) >= Len(v) + 2 /\ Len(p) <= Len(v) + 5
         /\ ReadTlv(p \o rest) = [tag |-> tag, value |-> v, len |-> Len(p), canonical |-> TRUE]
  <1> DEFINE S == 0 .. 255
  <1>1. v \in Seq(S) /\ rest \in Seq(S) /\ tag \in S
    BY DEF OctetStrings
  <1>2. Len(v) \in Nat /\ Len(rest) \in Nat
    BY <1>1, SequencePlaces
  <1>3. PICK len \in Nat : len = Len(v) /\ len < TOO_LONG
    BY <1>2
  <1>4. PICK l : l = PushLength(len)
    OBVIOUS
  <1>5. p = <<tag>> \o l \o v
    BY <1>3, <1>4 DEF PushTlv
  <1>6. CASE len < 128 /\ l = <<len>>
    <2>1. len \in S
      BY <1>6
    <2> HIDE DEF S
    <2>2. l \in Seq(S) /\ Len(l) = 1 /\ l[1] = len
      BY <1>6, <2>1
    <2>3. /\ p \in Seq(S) /\ Len(p) = 2 + len /\ p[1] = tag /\ p[2] = len
          /\ \A i \in 1 .. len : p[2 + i] = v[i]
      <3>2. p \in Seq(S) /\ Row(tag, l, v, p)
        BY <1>1, <1>5, <2>2, AreInARow, Zenon
      <3>1. /\ Len(p) = 1 + Len(l) + Len(v)
            /\ p[1] = tag /\ (\A i \in 1 .. Len(l) : p[1 + i] = l[i])
            /\ \A i \in 1 .. Len(v) : p[1 + Len(l) + i] = v[i]
        BY <3>2 DEF Row
      <3> QED BY <1>3, <2>2, <3>1, <3>2
    <2>4. PICK b : b = p \o rest
      OBVIOUS
    <2>5. /\ b \in Seq(S) /\ Len(b) = Len(p) + Len(rest) /\ \A i \in 1 .. Len(p) : b[i] = p[i]
      <3>1. b \in Seq(S) /\ Joins(p, rest, b)
        BY <1>1, <2>3, <2>4, AreJoined, Zenon
      <3> QED BY <3>1 DEF Joins
    <2>6. b[1] = tag /\ b[2] = len /\ (\A i \in 1 .. len : b[2 + i] = v[i]) /\ Len(b) >= 2 + len
      BY <1>2, <2>3, <2>5
    <2>7. SubSeq(b, 2 + 1, 2 + len) = v
      BY <1>1, <1>3, <2>5, <2>6, Window
    <2>8. ReadTlv(b) = Tlv(b, len, 2, TRUE)
      <3>1. ~(Len(b) < 2) /\ b[2] < 128
        BY <1>2, <1>6, <2>3, <2>5, <2>6
      <3> QED BY <2>6, <3>1, Zenon DEF ReadTlv
    <2>9. ReadTlv(b) = [tag |-> tag, value |-> v, len |-> 2 + len, canonical |-> TRUE]
      <3>1. ~(Len(b) < 2 + len)
        BY <1>2, <2>3, <2>5
      <3> QED BY <2>6, <2>7, <2>8, <3>1, Zenon DEF Tlv
    <2>10. p \in OctetStrings
      BY <2>3 DEF S, OctetStrings
    <2> QED BY <1>3, <2>3, <2>4, <2>9, <2>10
  <1>7. ASSUME len >= 128, NEW k \in 1 .. 3, NEW w \in OctetStrings,
               k = MinimalLengthOctets(len), Len(w) = k, OctetsValue(w) = len, l = <<128 + k>> \o w
        PROVE  /\ p \in OctetStrings /\ Len(p) \in Nat /\ Len(p) >= Len(v) + 2 /\ Len(p) <= Len(v) + 5
               /\ ReadTlv(p \o rest) = [tag |-> tag, value |-> v, len |-> Len(p), canonical |-> TRUE]
    <2>1. PICK f \in S : f = 128 + k
      OBVIOUS
    <2>2. w \in Seq(S)
      BY DEF OctetStrings
    <2> HIDE DEF S
    <2>3. l \in Seq(S) /\ Len(l) = 1 + k /\ l[1] = f /\ \A i \in 1 .. k : l[1 + i] = w[i]
      <3>1. PICK s \in Seq(S) : s = <<f>> /\ Len(s) = 1 /\ s[1] = f
        <4>1. <<f>> \in Seq(S) /\ Len(<<f>>) = 1 /\ <<f>>[1] = f
          OBVIOUS
        <4> QED BY <4>1, Zenon
      <3>2. /\ s \o w \in Seq(S) /\ Len(s \o w) = Len(s) + Len(w)
            /\ \A i \in 1 .. Len(s) : (s \o w)[i] = s[i]
            /\ \A i \in 1 .. Len(w) : (s \o w)[Len(s) + i] = w[i]
        BY <2>2, Parts
      <3>3. l = s \o w
        BY <1>7, <2>1, <3>1
      <3> QED BY <1>7, <3>1, <3>2, <3>3
    <2>4. /\ p \in Seq(S) /\ Len(p) = 2 + k + len /\ p[1] = tag /\ p[2] = f
          /\ (\A i \in 1 .. k : p[2 + i] = w[i]) /\ \A i \in 1 .. len : p[2 + k + i] = v[i]
      <3>6. p \in Seq(S) /\ Row(tag, l, v, p)
        BY <1>1, <1>5, <2>3, AreInARow, Zenon
      <3>1. /\ Len(p) = 1 + Len(l) + Len(v)
            /\ p[1] = tag /\ (\A i \in 1 .. Len(l) : p[1 + i] = l[i])
            /\ \A i \in 1 .. Len(v) : p[1 + Len(l) + i] = v[i]
        BY <3>6 DEF Row
      <3>2. p[2] = f
        BY <2>3, <3>1
      <3>3. \A i \in 1 .. k : 1 + i \in 1 .. 1 + k /\ 1 + (1 + i) = 2 + i
        OBVIOUS
      <3>4. \A i \in 1 .. k : p[2 + i] = w[i]
        BY <2>3, <3>1, <3>3
      <3>5. \A i \in 1 .. len : p[2 + k + i] = v[i]
        BY <1>3, <2>3, <3>1
      <3> QED BY <1>3, <2>3, <3>1, <3>2, <3>4, <3>5, <3>6
    <2>5. PICK b : b = p \o rest
      OBVIOUS
    <2>6. /\ b \in Seq(S) /\ Len(b) = Len(p) + Len(rest) /\ \A i \in 1 .. Len(p) : b[i] = p[i]
      <3>1. b \in Seq(S) /\ Joins(p, rest, b)
        BY <1>1, <2>4, <2>5, AreJoined, Zenon
      <3> QED BY <3>1 DEF Joins
    <2>7. /\ b[1] = tag /\ b[2] = f /\ (\A i \in 1 .. k : b[2 + i] = w[i])
          /\ (\A i \in 1 .. len : b[2 + k + i] = v[i]) /\ Len(b) >= 2 + k + len /\ Len(b) \in Nat
      BY <1>2, <2>4, <2>6
    <2>8. SubSeq(b, 2 + 1, 2 + k) = w
      <3>1. 2 \in Nat /\ 2 + Len(w) <= Len(b) /\ \A i \in 1 .. Len(w) : b[2 + i] = w[i]
        <4>1. Len(w) = k
          BY <1>7, <2>2
        <4>2. 2 + k <= Len(b)
          BY <2>7
        <4> QED BY <2>7, <4>1, <4>2
      <3>2. w \in Seq(S) /\ Len(w) = k
        BY <1>7, <2>2
      <3> QED BY <2>6, <3>1, <3>2, Window, Zenon
    <2>9. SubSeq(b, 2 + k + 1, 2 + k + len) = v
      <3>1. PICK m \in Nat : m = 2 + k
        OBVIOUS
      <3>2. m + Len(v) <= Len(b) /\ \A i \in 1 .. Len(v) : b[m + i] = v[i]
        BY <1>3, <2>7, <3>1
      <3>3. SubSeq(b, m + 1, m + Len(v)) = v
        BY <1>1, <2>6, <3>2, Window, Zenon
      <3> QED BY <1>3, <3>1, <3>3
    <2>10. ReadTlv(b) = LongTlv(b, k, len)
      <3>1. ~(Len(b) < 2) /\ ~(b[2] < 128) /\ b[2] - 128 = k /\ b[2] - 126 = 2 + k /\ k \in 1 .. 4
        BY <2>1, <2>7
      <3>2. ~(Len(b) < 2 + b[2] - 128)
        BY <2>1, <2>7
      <3>3. ReadTlv(b) = LongTlv(b, k, OctetsValue(SubSeq(b, 3, 2 + k)))
        BY <3>1, <3>2 DEF ReadTlv
      <3>4. 2 + 1 = 3
        OBVIOUS
      <3> QED BY <1>7, <2>8, <3>3, <3>4, Zenon
    <2>11. ReadTlv(b) = Tlv(b, len, 2 + k, TRUE)
      BY <1>7, <2>10 DEF LongTlv
    <2>12. ReadTlv(b) = [tag |-> tag, value |-> v, len |-> 2 + k + len, canonical |-> TRUE]
      <3>1. ~(Len(b) < 2 + k + len)
        BY <2>7
      <3> QED BY <2>7, <2>9, <2>11, <3>1, Zenon DEF Tlv
    <2>13. p \in OctetStrings
      BY <2>4 DEF S, OctetStrings
    <2> QED BY <1>3, <2>4, <2>5, <2>12, <2>13
  <1> DEFINE Result == /\ p \in OctetStrings /\ Len(p) \in Nat /\ Len(p) >= Len(v) + 2 /\ Len(p) <= Len(v) + 5
                       /\ ReadTlv(p \o rest) = [tag |-> tag, value |-> v, len |-> Len(p), canonical |-> TRUE]
  <1>8. CASE /\ len >= 128
             /\ \E k \in 1 .. 3, w \in OctetStrings :
                  /\ k = MinimalLengthOctets(len) /\ Len(w) = k /\ OctetsValue(w) = len
                  /\ l = <<128 + k>> \o w
    <2>1. PICK k \in 1 .. 3, w \in OctetStrings :
                  /\ k = MinimalLengthOctets(len) /\ Len(w) = k /\ OctetsValue(w) = len
                  /\ l = <<128 + k>> \o w
      BY <1>8, Zenon
    <2>2. Result
      BY <1>7, <1>8, <2>1, Zenon
    <2> QED BY <2>2, Zenon
  <1>9. StatesLength(l, len)
    BY <1>3, <1>4, LengthIsWritten, Zenon
  <1> QED BY <1>6, <1>8, <1>9, Zenon DEF StatesLength

\* Four octets too amount to a number.
LEMMA OctetsAreANumber ==
  ASSUME NEW w \in OctetStrings, Len(w) \in 1 .. 4
  PROVE  OctetsValue(w) \in Nat
  <1>1. \A i \in 1 .. Len(w) : w[i] \in Int /\ 0 <= w[i] /\ w[i] < 256
    BY OctetsAreNumbers
  <1>2. CASE Len(w) # 4
    BY <1>2, OctetsOfLength
  <1>3. CASE Len(w) = 4
    <2> DEFINE octet(k) == IF k <= Len(w) THEN w[Len(w) - k + 1] * PLACES[k] ELSE 0
    <2>1. OctetsValue(w) = octet(1) + octet(2) + octet(3) + octet(4)
      BY DEF OctetsValue
    <2>2. PICK a \in Nat, b \in Nat, c \in Nat, d \in Nat : a = w[1] /\ b = w[2] /\ c = w[3] /\ d = w[4]
      BY <1>1, <1>3
    <2>3. octet(1) = d * 1 /\ octet(2) = c * 256 /\ octet(3) = b * 65536 /\ octet(4) = a * 16777216
      BY <1>3, <2>2, Places, SMT
    <2> HIDE DEF octet
    <2> QED BY <2>1, <2>2, <2>3, SMT
  <1> QED BY <1>2, <1>3

\* What is read is part of what there is; and where it is called canonical, it is just
\* what push_tlv writes.
LEMMA TlvIsRead ==
  ASSUME NEW b \in OctetStrings, Len(b) < TOO_LONG, NEW t, t = ReadTlv(b), t # NONE
  PROVE  /\ t \in Tlvs /\ t.len >= Len(t.value) + 2 /\ t.len <= Len(b) /\ Len(t.value) < TOO_LONG
         /\ t.canonical => SubSeq(b, 1, t.len) = PushTlv(t.tag, t.value)
  <1> DEFINE S == 0 .. 255
  <1>1. b \in Seq(S)
    BY DEF OctetStrings
  <1>2. Len(b) \in Nat /\ TOO_LONG \in Int
    BY <1>1, SequencePlaces, Places, SMT
  <1>3. \A i \in 1 .. Len(b) : b[i] \in S
    BY <1>1, SequencePlaces
  <1>4. Len(b) >= 2
    <2>1. ~(Len(b) < 2)
      BY Zenon DEF ReadTlv
    <2> QED BY <1>2, <2>1
  <1>5. PICK tag \in Nat, f \in Nat : tag = b[1] /\ f = b[2] /\ tag \in S /\ f \in S /\ f < 256
    <2>1. \A x \in S : x \in Nat /\ x < 256
      OBVIOUS
    <2> HIDE DEF S
    <2>2. b[1] \in S /\ b[2] \in S
      BY <1>2, <1>3, <1>4
    <2> QED BY <2>1, <2>2
  <1> DEFINE Whole(head, x) ==
               /\ t = [tag |-> tag, value |-> SubSeq(b, head + 1, head + x), len |-> head + x, canonical |-> t.canonical]
               /\ t.canonical \in BOOLEAN /\ head + x <= Len(b)
  <1>6. ASSUME NEW head \in Nat, NEW x \in Nat, head >= 2, Whole(head, x)
        PROVE  /\ t \in Tlvs /\ t.len >= Len(t.value) + 2 /\ t.len <= Len(b) /\ Len(t.value) = x /\ x < TOO_LONG
               /\ t.len = head + x /\ t.tag = tag
               /\ t.value \in Seq(S) /\ \A i \in 1 .. x : t.value[i] = b[head + i]
    <2>1. PICK v : v = SubSeq(b, head + 1, head + x)
      OBVIOUS
    <2>2. v \in Seq(S) /\ Len(v) = x /\ \A i \in 1 .. x : v[i] = b[head + i]
      <3>1. head + x <= Len(b)
        BY <1>6
      <3> HIDE DEF S, Whole
      <3>2. /\ SubSeq(b, head + 1, head + x) \in Seq(S) /\ Len(SubSeq(b, head + 1, head + x)) = x
            /\ \A i \in 1 .. x : SubSeq(b, head + 1, head + x)[i] = b[head + i]
        BY <1>1, <3>1, Seen, Zenon
      <3> QED BY <2>1, <3>2, Zenon
    <2>3. t = [tag |-> tag, value |-> v, len |-> head + x, canonical |-> t.canonical]
      BY <1>6, <2>1
    <2>4. t.tag = tag /\ t.value = v /\ t.len = head + x
      BY <2>3
    <2>5. v \in OctetStrings
      BY <2>2 DEF OctetStrings
    <2>6. t \in Tlvs
      <3>1. tag \in 0 .. 255
        BY <1>5
      <3>4. head + x \in Nat /\ t.canonical \in BOOLEAN
        <4> HIDE DEF S
        <4> QED BY <1>6
      <3>2. PICK l \in Nat, c \in BOOLEAN : l = head + x /\ c = t.canonical
        BY <3>4
      <3>3. t = [tag |-> tag, value |-> v, len |-> l, canonical |-> c]
        BY <2>3, <3>2
      <3>5. PICK A : A = 0 .. 255
        OBVIOUS
      <3>6. [tag |-> tag, value |-> v, len |-> l, canonical |-> c]
              \in [tag : A, value : OctetStrings, len : Nat, canonical : BOOLEAN]
        <4> HIDE DEF S, Whole
        <4> QED BY <2>5, <3>1, <3>5
      <3> QED BY <3>3, <3>5, <3>6, Zenon DEF Tlvs
    <2> HIDE DEF S
    <2>7. head + x <= Len(b) /\ x < TOO_LONG
      BY <1>2, <1>6
    <2> QED BY <1>6, <2>2, <2>4, <2>6, <2>7
  <1>7. CASE f < 128
    <2>1. t = Tlv(b, f, 2, TRUE)
      BY <1>4, <1>5, <1>7 DEF ReadTlv
    <2>2. ~(Len(b) < 2 + f) /\ t = [tag |-> tag, value |-> SubSeq(b, 2 + 1, 2 + f), len |-> 2 + f, canonical |-> TRUE]
      BY <1>5, <2>1 DEF Tlv
    <2>3. Whole(2, f)
      BY <1>2, <2>2
    <2>4. /\ t \in Tlvs /\ t.len >= Len(t.value) + 2 /\ t.len <= Len(b) /\ Len(t.value) = f /\ f < TOO_LONG
          /\ t.len = 2 + f /\ t.tag = tag
          /\ t.value \in Seq(S) /\ \A i \in 1 .. f : t.value[i] = b[2 + i]
      <3> HIDE DEF Whole, S
      <3> QED BY <1>6, <2>3
    <2>5. PICK p : p = PushTlv(tag, t.value)
      OBVIOUS
    <2>6. p = <<tag>> \o <<f>> \o t.value
      BY <1>7, <2>4, <2>5 DEF PushTlv, PushLength
    <2>7. PICK l \in Seq(S) : l = <<f>> /\ Len(l) = 1 /\ l[1] = f
      <3> HIDE DEF S
      <3>1. <<f>> \in Seq(S) /\ Len(<<f>>) = 1 /\ <<f>>[1] = f
        BY <1>5
      <3> QED BY <3>1, Zenon
    <2> HIDE DEF S
    <2>8. p \in Seq(S) /\ Row(tag, l, t.value, p)
      BY <1>5, <2>4, <2>6, <2>7, AreInARow, Zenon
    <2>9. Len(p) = 2 + f /\ p[1] = tag /\ p[2] = f /\ \A i \in 1 .. f : p[2 + i] = b[2 + i]
      <3> HIDE DEF Whole
      <3>1. /\ Len(p) = 1 + Len(l) + Len(t.value)
            /\ p[1] = tag /\ (\A i \in 1 .. Len(l) : p[1 + i] = l[i])
            /\ \A i \in 1 .. Len(t.value) : p[1 + Len(l) + i] = t.value[i]
        BY <2>8, Zenon DEF Row
      <3>2. Len(l) = 1 /\ Len(t.value) = f /\ l[1] = f
        BY <2>4, <2>7
      <3>3. Len(p) = 2 + f
        BY <1>5, <3>1, <3>2
      <3>4. p[2] = f
        <4>1. 1 \in 1 .. Len(l) /\ 1 + 1 = 2
          BY <3>2
        <4>2. p[1 + 1] = l[1]
          BY <3>1, <4>1, Zenon
        <4> QED BY <3>2, <4>1, <4>2
      <3>5. \A i \in 1 .. f : p[2 + i] = b[2 + i]
        <4>1. 1 + Len(l) = 2
          BY <3>2
        <4> QED BY <2>4, <3>1, <3>2, <4>1, Zenon
      <3> QED BY <3>1, <3>3, <3>4, <3>5, Zenon
    <2>10. \A i \in 1 .. Len(p) : b[0 + i] = p[i]
      <3> SUFFICES ASSUME NEW i \in 1 .. Len(p) PROVE b[i] = p[i]
        BY <2>9
      <3>1. CASE i = 1 \/ i = 2
        BY <1>5, <2>9, <3>1
      <3>2. CASE i > 2
        <4>1. PICK j \in 1 .. f : i = 2 + j
          <5>1. i - 2 \in 1 .. f /\ i = 2 + (i - 2)
            BY <2>9, <3>2
          <5> QED BY <5>1
        <4> QED BY <2>9, <4>1
      <3> QED BY <2>9, <3>1, <3>2
    <2>11. SubSeq(b, 0 + 1, 0 + Len(p)) = p
      <3>1. 0 + Len(p) <= Len(b) /\ 0 \in Nat
        BY <2>4, <2>9
      <3> QED BY <1>1, <2>8, <2>10, <3>1, Window, Zenon
    <2>12. SubSeq(b, 1, t.len) = p
      BY <2>4, <2>9, <2>11
    <2> QED BY <2>4, <2>5, <2>12
  <1>8. CASE ~(f < 128)
    <2>1. PICK n \in Int : n = f - 128
      BY <1>5
    <2>2. n \in 1 .. 4 /\ ~(Len(b) < 2 + n)
      <3>1. b[2] - 128 \in 1 .. 4 /\ ~(Len(b) < 2 + b[2] - 128)
        BY <1>4, <1>5, <1>8 DEF ReadTlv
      <3> QED BY <1>2, <1>5, <2>1, <3>1
    <2>3. PICK w, x : w = SubSeq(b, 2 + 1, 2 + n) /\ x = OctetsValue(w)
      OBVIOUS
    <2>4. w \in Seq(S) /\ Len(w) = n /\ \A i \in 1 .. n : w[i] = b[2 + i]
      <3> HIDE DEF S
      <3>1. 2 \in Nat /\ n \in Nat /\ 2 + n <= Len(b)
        BY <1>2, <2>2
      <3> QED BY <1>1, <2>3, <3>1, Seen
    <2>5. w \in OctetStrings /\ x \in Nat
      <3>1. w \in OctetStrings
        BY <2>4 DEF OctetStrings
      <3> QED BY <2>2, <2>3, <2>4, <3>1, OctetsAreANumber
    <2>6. t = LongTlv(b, n, x)
      <3>1. ~(Len(b) < 2) /\ ~(b[2] < 128) /\ b[2] - 128 = n /\ b[2] - 126 = 2 + n
        BY <1>2, <1>4, <1>5, <1>8, <2>1
      <3>2. ~(Len(b) < 2 + b[2] - 128)
        BY <1>2, <1>5, <2>1, <2>2
      <3>3. 2 + 1 = 3
        OBVIOUS
      <3>4. t = LongTlv(b, n, OctetsValue(SubSeq(b, 3, 2 + n)))
        BY <2>2, <3>1, <3>2 DEF ReadTlv
      <3> QED BY <2>3, <3>3, <3>4
    <2>7. PICK c \in BOOLEAN : c = (x >= 128 /\ MinimalLengthOctets(x) = n)
      OBVIOUS
    <2>8. PICK head \in Nat : head = 2 + n
      BY <2>2
    <2>9. t = Tlv(b, x, head, c)
      BY <2>6, <2>7, <2>8 DEF LongTlv
    <2>10. /\ ~(Len(b) < head + x)
           /\ t = [tag |-> tag, value |-> SubSeq(b, head + 1, head + x), len |-> head + x, canonical |-> c]
      BY <1>5, <2>9 DEF Tlv
    <2>11. Whole(head, x) /\ t.canonical = c /\ head >= 2
      BY <1>2, <2>2, <2>5, <2>8, <2>10
    <2>12. /\ t \in Tlvs /\ t.len >= Len(t.value) + 2 /\ t.len <= Len(b) /\ Len(t.value) = x /\ x < TOO_LONG
           /\ t.len = head + x /\ t.tag = tag
           /\ t.value \in Seq(S) /\ \A i \in 1 .. x : t.value[i] = b[head + i]
      <3> HIDE DEF Whole, S
      <3> QED BY <1>6, <2>5, <2>11
    <2>13. ASSUME c PROVE SubSeq(b, 1, t.len) = PushTlv(tag, t.value)
      <3>1. x >= 128 /\ MinimalLengthOctets(x) = n
        BY <2>7, <2>13
      <3>2. n \in 1 .. 3
        <4> HIDE DEF S, Whole
        <4>1. x \in Nat /\ 0 < x /\ x < TOO_LONG
          BY <2>5, <2>12, <3>1
        <4>2. MinimalLengthOctets(x) \in 1 .. 3
          BY <4>1, OctetsNeeded, Zenon
        <4> QED BY <3>1, <4>2, Zenon
      <3>3. w = [i \in 1 .. n |-> (x \div PLACES[n - i + 1]) % 256]
        <4> HIDE DEF S, Whole
        <4>1. Len(w) \in 1 .. 3
          BY <2>4, <3>2, Zenon
        <4>2. w = [i \in 1 .. Len(w) |-> (OctetsValue(w) \div PLACES[Len(w) - i + 1]) % 256]
          BY <2>5, <4>1, OctetsOfLength, Zenon
        <4> QED BY <2>3, <2>4, <4>2, Zenon
      <3>4. PICK l : l = PushLength(x)
        OBVIOUS
      <3>5. l = <<f>> \o w
        <4>1. ~(x < 128) /\ 128 + n = f
          BY <1>5, <2>1, <2>5, <3>1
        <4> QED BY <3>1, <3>3, <3>4, <4>1 DEF PushLength, LengthOctets
      <3> HIDE DEF S
      <3>6. PICK s \in Seq(S) : s = <<f>> /\ Len(s) = 1 /\ s[1] = f
        <4>1. <<f>> \in Seq(S) /\ Len(<<f>>) = 1 /\ <<f>>[1] = f
          BY <1>5
        <4> QED BY <4>1, Zenon
      <3>7. l \in Seq(S) /\ Joins(s, w, l)
        BY <2>4, <3>5, <3>6, AreJoined, Zenon
      <3>8. Len(l) = 1 + n /\ l[1] = f /\ \A i \in 1 .. n : l[1 + i] = w[i]
        BY <2>4, <3>6, <3>7 DEF Joins
      <3>9. PICK p : p = PushTlv(tag, t.value)
        OBVIOUS
      <3>10. p = <<tag>> \o l \o t.value
        BY <2>12, <3>4, <3>9 DEF PushTlv
      <3>11. p \in Seq(S) /\ Row(tag, l, t.value, p)
        BY <1>5, <2>12, <3>7, <3>10, AreInARow, Zenon
      <3>12. /\ Len(p) = head + x /\ p[1] = tag
             /\ (\A i \in 1 .. 1 + n : p[1 + i] = l[i]) /\ \A i \in 1 .. x : p[head + i] = b[head + i]
        <4> HIDE DEF Whole
        <4>1. /\ Len(p) = 1 + Len(l) + Len(t.value)
              /\ p[1] = tag /\ (\A i \in 1 .. Len(l) : p[1 + i] = l[i])
              /\ \A i \in 1 .. Len(t.value) : p[1 + Len(l) + i] = t.value[i]
          BY <3>11, Zenon DEF Row
        <4>2. Len(l) = 1 + n /\ Len(t.value) = x /\ head = 1 + (1 + n)
          BY <2>2, <2>8, <2>12, <3>8
        <4>3. Len(p) = head + x
          BY <2>2, <2>5, <4>1, <4>2
        <4>4. \A i \in 1 .. x : p[head + i] = b[head + i]
          BY <2>12, <4>1, <4>2, Zenon
        <4> QED BY <4>1, <4>2, <4>3, <4>4, Zenon
      <3>13. \A i \in 1 .. Len(p) : b[0 + i] = p[i]
        <4> SUFFICES ASSUME NEW i \in 1 .. Len(p) PROVE b[i] = p[i]
          BY <3>12
        <4>1. CASE i = 1
          BY <1>5, <3>12, <4>1
        <4>2. CASE i = 2
          BY <1>5, <2>2, <3>8, <3>12, <4>2
        <4>3. CASE i > 2 /\ i <= head
          <5>1. PICK j \in 1 .. n : i = 2 + j /\ i = 1 + (1 + j) /\ 1 + j \in 1 .. 1 + n
            <6>1. i - 2 \in 1 .. n /\ i = 2 + (i - 2) /\ i = 1 + (1 + (i - 2)) /\ 1 + (i - 2) \in 1 .. 1 + n
              BY <2>2, <2>8, <4>3
            <6> QED BY <6>1
          <5>2. p[1 + (1 + j)] = l[1 + j]
            BY <3>12, <5>1, Zenon
          <5>3. l[1 + j] = w[j]
            BY <3>8, Zenon
          <5>4. w[j] = b[2 + j]
            BY <2>4, Zenon
          <5> QED BY <5>1, <5>2, <5>3, <5>4, Zenon
        <4>4. CASE i > head
          <5>1. PICK j \in 1 .. x : i = head + j
            <6>1. i - head \in 1 .. x /\ i = head + (i - head)
              BY <2>5, <2>8, <3>12, <4>4
            <6> QED BY <6>1
          <5> QED BY <3>12, <5>1
        <4> QED BY <2>5, <2>8, <3>12, <4>1, <4>2, <4>3, <4>4
      <3>14. SubSeq(b, 0 + 1, 0 + Len(p)) = p
        <4>1. 0 + Len(p) <= Len(b) /\ 0 \in Nat
          BY <1>2, <2>5, <2>12, <3>12
        <4> QED BY <1>1, <3>11, <3>13, <4>1, Window, Zenon
      <3>15. SubSeq(b, 1, t.len) = p
        BY <2>5, <2>12, <3>12, <3>14
      <3> QED BY <3>9, <3>15
    <2> QED BY <2>11, <2>12, <2>13
  <1> QED BY <1>7, <1>8

-----------------------------------------------------------------------------
\* How many zeros go: as many as there are in front of the last octet.
LEMMA ZerosInFront ==
  ASSUME NEW v \in OctetStrings, v # <<>>
  PROVE  /\ Stripped(v) \in 0 .. Len(v) - 1 /\ \A k \in 1 .. Stripped(v) : v[k] = 0
         /\ Stripped(v) = Len(v) - 1 \/ v[Stripped(v) + 1] # 0
         /\ \A n \in 0 .. Len(v) - 1 :
              (\A k \in 1 .. n : v[k] = 0) /\ (n = Len(v) - 1 \/ v[n + 1] # 0) => n = Stripped(v)
  <1> DEFINE Empties == {i \in 0 .. Len(v) - 1 : \A k \in 1 .. i : v[k] = 0}
  <1>1. Len(v) \in Nat /\ Len(v) > 0
    <2>1. v \in Seq(0 .. 255)
      BY DEF OctetStrings
    <2>2. PICK S : S = 0 .. 255
      OBVIOUS
    <2>3. v \in Seq(S)
      BY <2>1, <2>2, Zenon
    <2> QED BY <2>3
  <1>2. PICK n \in Empties : \A k \in Empties : k <= n
    <2> DEFINE Shifted == {i + 1 : i \in Empties}
    <2>1. Shifted \in SUBSET (1 .. Len(v)) /\ 1 \in Shifted
      <3>1. 0 \in Empties
        BY <1>1
      <3>2. \A i \in Empties : i + 1 \in 1 .. Len(v)
        BY <1>1
      <3>3. 0 + 1 = 1
        OBVIOUS
      <3> HIDE DEF Empties
      <3> QED BY <3>1, <3>2, <3>3, Zenon
    <2>2. PICK x \in Shifted : \A y \in Shifted : y <= x
      <3> HIDE DEF Shifted
      <3> QED BY <1>1, <2>1, GreatestExists
    <2>3. PICK i \in Empties : x = i + 1
      OBVIOUS
    <2>4. \A k \in Empties : k + 1 <= i + 1
      BY <2>2, <2>3
    <2>5. \A k \in Empties : k \in Int
      BY <1>1
    <2> HIDE DEF Empties
    <2>6. \A k \in Empties : k <= i
      BY <2>3, <2>4, <2>5
    <2> QED BY <2>6
  <1>3. Stripped(v) = n
    <2>1. \A k \in Empties : k \in Int
      BY <1>1
    <2>2. Stripped(v) = Max(Empties)
      BY DEF Stripped
    <2> HIDE DEF Empties
    <2> QED BY <1>2, <2>1, <2>2 DEF Max
  <1>4. n \in 0 .. Len(v) - 1 /\ \A k \in 1 .. n : v[k] = 0
    OBVIOUS
  <1>5. n = Len(v) - 1 \/ v[n + 1] # 0
    <2> SUFFICES ASSUME n < Len(v) - 1, v[n + 1] = 0 PROVE FALSE
      BY <1>1, <1>4
    <2>1. n + 1 \in Empties
      <3>1. n + 1 \in 0 .. Len(v) - 1
        BY <1>1, <1>4
      <3>2. \A k \in 1 .. n + 1 : v[k] = 0
        BY <1>4
      <3> QED BY <3>1, <3>2
    <2>2. n + 1 <= n
      BY <1>2, <2>1
    <2> QED BY <1>4, <2>2
  <1>6. ASSUME NEW m \in 0 .. Len(v) - 1, \A k \in 1 .. m : v[k] = 0, m = Len(v) - 1 \/ v[m + 1] # 0
        PROVE  m = n
    <2>1. m \in Empties
      BY <1>6
    <2>2. m <= n
      BY <1>2, <2>1
    <2> QED BY <1>1, <1>4, <1>6, <2>2
  <1> QED BY <1>3, <1>4, <1>5, <1>6, Zenon

\* v with none of the zeros that can go.
IsBare(w) == w \in OctetStrings /\ w # <<>> /\ (Len(w) = 1 \/ w[1] # 0)

\* An octet string, as a sequence over a set that is not spelled out.
LEMMA OctetsInOrder ==
  ASSUME NEW v \in OctetStrings
  PROVE  /\ Len(v) \in Nat /\ (v # <<>> => Len(v) > 0)
         /\ \E S : S = 0 .. 255 /\ OctetStrings = Seq(S) /\ v \in Seq(S)
  <1>1. PICK S : S = 0 .. 255
    OBVIOUS
  <1>2. OctetStrings = Seq(S) /\ v \in Seq(S)
    BY <1>1, Zenon DEF OctetStrings
  <1>3. Len(v) \in Nat /\ (v # <<>> => Len(v) > 0)
    BY <1>2
  <1> QED BY <1>1, <1>2, <1>3, Zenon

\* What is left without zeros is bare, and is the end of the octets from the first that is not zero.
LEMMA BareIsLeft ==
  ASSUME NEW v \in OctetStrings, v # <<>>, NEW w, w = WithoutZeros(v)
  PROVE  /\ IsBare(w) /\ Len(w) = Len(v) - Stripped(v)
         /\ \A i \in 1 .. Len(w) : w[i] = v[Stripped(v) + i]
  <1>1. PICK S : OctetStrings = Seq(S) /\ v \in Seq(S)
    BY OctetsInOrder, Zenon
  <1>2. Len(v) \in Nat /\ Len(v) > 0
    BY OctetsInOrder
  <1>3. PICK n \in 0 .. Len(v) - 1 : n = Stripped(v) /\ (n = Len(v) - 1 \/ v[n + 1] # 0)
    BY ZerosInFront, Zenon
  <1>4. PICK x \in Nat : x = Len(v) - n /\ n \in Nat /\ n + x = Len(v) /\ x > 0
    <2>1. n \in 0 .. Len(v) - 1
      BY <1>3
    <2>2. Len(v) - n \in Nat /\ n \in Nat /\ n + (Len(v) - n) = Len(v) /\ Len(v) - n > 0
      BY <1>2, <2>1
    <2> QED BY <2>2, Zenon
  <1>5. w = SubSeq(v, n + 1, n + x)
    BY <1>3, <1>4, Zenon DEF WithoutZeros
  <1>6. w \in Seq(S) /\ Len(w) = x /\ \A i \in 1 .. x : w[i] = v[n + i]
    <2>1. n + x <= Len(v)
      BY <1>4, <1>2
    <2> QED BY <1>1, <1>4, <1>5, <2>1, Seen
  <1>7. IsBare(w)
    <2>1. w # <<>>
      BY <1>4, <1>6
    <2>2. Len(w) = 1 \/ w[1] # 0
      <3>1. w[1] = v[n + 1]
        BY <1>4, <1>6
      <3> QED BY <1>2, <1>3, <1>4, <1>6, <3>1
    <2> QED BY <1>1, <1>6, <2>1, <2>2 DEF IsBare
  <1> QED BY <1>3, <1>4, <1>6, <1>7

\* Nothing is stripped of what is bare.
LEMMA BareStays ==
  ASSUME NEW w, IsBare(w)
  PROVE  Stripped(w) = 0 /\ WithoutZeros(w) = w
  <1>1. w \in OctetStrings /\ w # <<>> /\ (Len(w) = 1 \/ w[1] # 0)
    BY DEF IsBare
  <1>2. PICK S : OctetStrings = Seq(S) /\ w \in Seq(S)
    BY <1>1, OctetsInOrder, Zenon
  <1>3. Len(w) \in Nat /\ Len(w) > 0
    BY <1>1, OctetsInOrder
  <1>4. 0 = Stripped(w)
    <2>1. 0 \in 0 .. Len(w) - 1 /\ (\A k \in 1 .. 0 : w[k] = 0) /\ (0 = Len(w) - 1 \/ w[0 + 1] # 0)
      BY <1>1, <1>3
    <2> QED BY <1>1, <2>1, ZerosInFront, Zenon
  <1>5. WithoutZeros(w) = SubSeq(w, 0 + 1, 0 + Len(w))
    BY <1>1, <1>3, <1>4 DEF WithoutZeros
  <1>6. SubSeq(w, 0 + 1, 0 + Len(w)) = w
    <2>1. 0 \in Nat /\ 0 + Len(w) <= Len(w) /\ \A i \in 1 .. Len(w) : w[0 + i] = w[i]
      BY <1>3
    <2> QED BY <1>2, <2>1, Window, Zenon
  <1> QED BY <1>4, <1>5, <1>6

\* A sign byte in front of a number that asks for one is just what makes it minimal.
LEMMA SignedIsMinimal ==
  ASSUME NEW w, IsBare(w), NEW s, s = Signed(w)
  PROVE  /\ s \in OctetStrings /\ s # <<>> /\ Len(s) <= Len(w) + 1
         /\ WithoutZeros(s) = w /\ IsMinimal(s)
  <1>1. w \in OctetStrings /\ w # <<>> /\ (Len(w) = 1 \/ w[1] # 0)
    BY DEF IsBare
  <1>2. PICK S : S = 0 .. 255 /\ OctetStrings = Seq(S) /\ w \in Seq(S)
    BY <1>1, OctetsInOrder, Zenon
  <1>3. Len(w) \in Nat /\ Len(w) > 0
    BY <1>1, OctetsInOrder
  <1>4. w[1] \in Nat
    <2>1. w[1] \in Int /\ 0 <= w[1]
      BY <1>1, <1>3, OctetsAreNumbers
    <2> QED BY <2>1
  <1>5. CASE w[1] < 128
    <2>1. s = w
      BY <1>4, <1>5 DEF Signed
    <2> QED BY <1>1, <1>3, <1>5, <2>1, BareStays DEF IsMinimal
  <1>6. CASE w[1] >= 128
    <2>1. s = <<0>> \o w
      BY <1>1, <1>6 DEF Signed
    <2>2. PICK z \in Seq(S) : z = <<0>> /\ Len(z) = 1 /\ z[1] = 0
      <3>1. 0 \in S
        BY <1>2
      <3>2. <<0>> \in Seq(S) /\ Len(<<0>>) = 1 /\ <<0>>[1] = 0
        BY <3>1
      <3> QED BY <3>2, Zenon
    <2>3. s \in Seq(S) /\ Joins(z, w, s)
      <3>1. s = z \o w
        BY <2>1, <2>2
      <3>2. w \in Seq(S)
        BY <1>2
      <3>3. z \o w \in Seq(S) /\ Joins(z, w, z \o w)
        BY <2>2, <3>2, AreJoined, Zenon
      <3> QED BY <3>1, <3>3, Zenon
    <2>4. Len(s) = 1 + Len(w) /\ s[1] = 0 /\ \A i \in 1 .. Len(w) : s[1 + i] = w[i]
      <3>1. Len(s) = Len(z) + Len(w) /\ s[1] = z[1] /\ \A i \in 1 .. Len(w) : s[Len(z) + i] = w[i]
        <4>1. 1 \in 1 .. Len(z)
          BY <2>2
        <4> QED BY <2>3, <4>1, Zenon DEF Joins
      <3> QED BY <2>2, <3>1, Zenon
    <2>5. s[2] = w[1] /\ s[1 + 1] = w[1]
      BY <1>3, <2>4
    <2>6. s \in OctetStrings /\ s # <<>>
      <3>1. s # <<>>
        BY <1>3, <2>3, <2>4
      <3> QED BY <1>2, <2>3, <3>1, Zenon
    <2>7. 1 = Stripped(s)
      <3>1. 1 \in 0 .. Len(s) - 1 /\ (\A k \in 1 .. 1 : s[k] = 0) /\ s[1 + 1] # 0
        BY <1>3, <1>4, <1>6, <2>4, <2>5
      <3> QED BY <2>6, <3>1, ZerosInFront, Zenon
    <2>8. WithoutZeros(s) = SubSeq(s, 1 + 1, 1 + Len(w))
      BY <2>4, <2>6, <2>7 DEF WithoutZeros
    <2>9. SubSeq(s, 1 + 1, 1 + Len(w)) = w
      <3>1. 1 \in Nat /\ 1 + Len(w) <= Len(s)
        BY <1>3, <2>4
      <3> QED BY <1>2, <2>3, <2>4, <3>1, Window, Zenon
    <2>10. IsMinimal(s)
      BY <1>6, <2>4, <2>5, <2>7 DEF IsMinimal
    <2> QED BY <1>3, <2>4, <2>6, <2>8, <2>9, <2>10
  <1> QED BY <1>4, <1>5, <1>6

\* An integer that trim_integer calls minimal is the one that push_integer writes.
LEMMA MinimalIsSigned ==
  ASSUME NEW v \in OctetStrings, v # <<>>, IsMinimal(v)
  PROVE  v = Signed(WithoutZeros(v))
  <1>1. PICK S : S = 0 .. 255 /\ OctetStrings = Seq(S) /\ v \in Seq(S)
    BY OctetsInOrder, Zenon
  <1>2. Len(v) \in Nat /\ Len(v) > 0
    BY OctetsInOrder
  <1>3. v[1] < 128 /\ (Stripped(v) = 0 \/ (Stripped(v) = 1 /\ v[2] >= 128))
    BY DEF IsMinimal
  <1>4. Stripped(v) \in 0 .. Len(v) - 1 /\ \A k \in 1 .. Stripped(v) : v[k] = 0
    BY ZerosInFront
  <1>5. CASE Stripped(v) = 0
    <2>1. WithoutZeros(v) = SubSeq(v, 0 + 1, 0 + Len(v))
      BY <1>2, <1>5 DEF WithoutZeros
    <2>2. SubSeq(v, 0 + 1, 0 + Len(v)) = v
      <3>1. 0 \in Nat /\ 0 + Len(v) <= Len(v) /\ \A i \in 1 .. Len(v) : v[0 + i] = v[i]
        BY <1>2
      <3> QED BY <1>1, <3>1, Window, Zenon
    <2>3. ~(v[1] >= 128)
      <3>1. v[1] \in Int
        BY <1>2, OctetsAreNumbers
      <3> QED BY <1>3, <3>1
    <2> QED BY <2>1, <2>2, <2>3, Zenon DEF Signed
  <1>6. CASE Stripped(v) = 1 /\ v[2] >= 128
    <2>1. v[1] = 0 /\ 1 \in 0 .. Len(v)
      BY <1>2, <1>4, <1>6
    <2>2. PICK w : w = SubSeq(v, 1 + 1, Len(v))
      OBVIOUS
    <2>3. PICK z : z = SubSeq(v, 1, 1)
      OBVIOUS
    <2>4. /\ v = z \o w /\ Len(z) = 1 /\ Len(w) = Len(v) - 1
          /\ z \in Seq(S) /\ w \in Seq(S)
      <3>1. v \in Seq(S)
        BY <1>1
      <3>2. v = z \o w /\ Len(w) = Len(v) - 1
        BY <2>1, <2>2, <2>3, <3>1, CutInTwo
      <3>3. Len(z) = 1 /\ z \in Seq(S) /\ w \in Seq(S)
        BY <2>1, <2>2, <2>3, <3>1, CutInTwo
      <3> QED BY <3>2, <3>3
    <2>5. Len(v) - 1 \in 1 .. Len(v)
      BY <1>2, <1>4, <1>6
    <2>6. w[1] = v[1 + 1] /\ z[1] = v[1]
      <3>1. Joins(z, w, v)
        BY <2>4, AreJoined, Zenon
      <3>2. (\A i \in 1 .. Len(z) : v[i] = z[i]) /\ \A i \in 1 .. Len(w) : v[Len(z) + i] = w[i]
        BY <3>1 DEF Joins
      <3> QED BY <2>4, <2>5, <3>2
    <2>7. z = <<0>>
      <3>1. 0 \in S /\ <<0>> \in Seq(S) /\ Len(<<0>>) = 1 /\ <<0>>[1] = 0
        <4>1. 0 \in S
          BY <1>1
        <4> QED BY <4>1
      <3>2. \A i \in 1 .. Len(z) : z[i] = <<0>>[i]
        BY <2>1, <2>4, <2>6, <3>1
      <3> QED BY <2>4, <3>1, <3>2, SeqEqual
    <2>8. WithoutZeros(v) = w
      <3>1. v # <<>>
        OBVIOUS
      <3> QED BY <1>6, <2>2, <3>1 DEF WithoutZeros
    <2>9. w[1] >= 128 /\ w # <<>>
      BY <1>6, <2>4, <2>5, <2>6
    <2> QED BY <2>4, <2>7, <2>8, <2>9, Zenon DEF Signed
  <1> QED BY <1>3, <1>5, <1>6

\* What is left of a number is as big as the number.
LEMMA MagnitudeStays ==
  ASSUME NEW v \in OctetStrings, v # <<>>
  PROVE  Magnitude(WithoutZeros(v)) = Magnitude(v)
  <1> DEFINE SizeIsKnown(x) == Magnitude(x) = IF x[Stripped(x) + 1] # 0 THEN WithoutZeros(x) ELSE <<>>
  <1>1. ASSUME NEW x \in OctetStrings, x # <<>> PROVE SizeIsKnown(x)
    <2>1. PICK S : OctetStrings = Seq(S) /\ x \in Seq(S)
      BY <1>1, OctetsInOrder, Zenon
    <2>2. Len(x) \in Nat /\ Len(x) > 0 /\ DOMAIN x = 1 .. Len(x)
      <3>1. DOMAIN x = 1 .. Len(x)
        BY <2>1
      <3> QED BY <1>1, <3>1, OctetsInOrder
    <2>3. PICK n \in 0 .. Len(x) - 1 :
            /\ n = Stripped(x) /\ (\A k \in 1 .. n : x[k] = 0) /\ (n = Len(x) - 1 \/ x[n + 1] # 0)
      BY <1>1, ZerosInFront, Zenon
    <2>4. PICK from : from = {i \in DOMAIN x : x[i] # 0}
      OBVIOUS
    <2>5. CASE x[n + 1] # 0
      <3>1. n + 1 \in from /\ \A i \in from : i \in Int /\ n + 1 <= i
        BY <2>2, <2>3, <2>4, <2>5
      <3>2. Min(from) = n + 1
        BY <2>3, <3>1 DEF Min
      <3>3. Magnitude(x) = SubSeq(x, n + 1, Len(x))
        BY <2>4, <3>1, <3>2 DEF Magnitude
      <3>4. WithoutZeros(x) = SubSeq(x, n + 1, Len(x))
        BY <1>1, <2>3 DEF WithoutZeros
      <3> QED BY <2>3, <2>5, <3>3, <3>4
    <2>6. CASE x[n + 1] = 0
      <3>1. n = Len(x) - 1 /\ n \in Nat /\ Len(x) = n + 1
        BY <2>2, <2>3, <2>6
      <3>2. \A i \in 1 .. Len(x) : i \in 1 .. n \/ i = n + 1
        BY <3>1
      <3>3. from = {}
        BY <2>2, <2>3, <2>4, <2>6, <3>2
      <3>4. Magnitude(x) = <<>>
        BY <2>4, <3>3 DEF Magnitude
      <3> QED BY <2>3, <2>6, <3>4
    <2> QED BY <2>5, <2>6
  <1>2. PICK w : w = WithoutZeros(v)
    OBVIOUS
  <1>3. IsBare(w) /\ Len(w) = Len(v) - Stripped(v) /\ \A i \in 1 .. Len(w) : w[i] = v[Stripped(v) + i]
    BY <1>2, BareIsLeft, Zenon
  <1>4. w \in OctetStrings /\ w # <<>>
    BY <1>3 DEF IsBare
  <1>5. Stripped(w) = 0 /\ WithoutZeros(w) = w
    BY <1>3, BareStays, Zenon
  <1>6. w[Stripped(w) + 1] = v[Stripped(v) + 1]
    <2>1. Len(w) \in Nat /\ Len(w) > 0
      BY <1>4, OctetsInOrder
    <2>2. w[1] = v[Stripped(v) + 1]
      BY <1>3, <2>1
    <2>3. 0 + 1 = 1
      OBVIOUS
    <2> QED BY <1>5, <2>2, <2>3
  <1>7. SizeIsKnown(v) /\ SizeIsKnown(w)
    <2> HIDE DEF SizeIsKnown
    <2> QED BY <1>1, <1>4
  <1> QED BY <1>2, <1>5, <1>6, <1>7, Zenon

-----------------------------------------------------------------------------
\* p is v under its tag, and read as that in front of anything.
ReadsBackAs(tag, v, p, rest) ==
  /\ p \in OctetStrings /\ Len(p) \in Nat /\ Len(p) >= Len(v) + 2 /\ Len(p) <= Len(v) + 5
  /\ ReadTagged(p \o rest, tag) = [tag |-> tag, value |-> v, len |-> Len(p), canonical |-> TRUE]
  /\ ReadTagged(p \o rest, tag) # NONE
  /\ rest = <<>> => p \o rest = p

\* A value of the tag that is looked for is read where it was written.
LEMMA TaggedIsRead ==
  ASSUME NEW tag \in 0 .. 255, NEW v \in OctetStrings, Len(v) < TOO_LONG, NEW rest \in OctetStrings,
         NEW p, p = PushTlv(tag, v)
  PROVE  ReadsBackAs(tag, v, p, rest)
  <1> DEFINE rec == [tag |-> tag, value |-> v, len |-> Len(p), canonical |-> TRUE]
  <1>1. /\ p \in OctetStrings /\ Len(p) \in Nat /\ Len(p) >= Len(v) + 2 /\ Len(p) <= Len(v) + 5
        /\ ReadTlv(p \o rest) = rec
    BY WrittenIsRead, Zenon
  <1>2. rec \in Tlvs
    <2>1. PICK A : A = 0 .. 255
      OBVIOUS
    <2>2. tag \in A
      BY <2>1
    <2>3. rec \in [tag : A, value : OctetStrings, len : Nat, canonical : BOOLEAN]
      BY <1>1, <2>2
    <2> HIDE DEF rec
    <2> QED BY <2>1, <2>3, Zenon DEF Tlvs
  <1>3. rec.tag = tag
    OBVIOUS
  <1> HIDE DEF rec
  <1>4. rec # NONE
    BY <1>2, NoneIsNotRead
  <1>5. ReadTagged(p \o rest, tag) = rec
    BY <1>1, <1>3, <1>4, Zenon DEF ReadTagged
  <1>6. rest = <<>> => p \o rest = p
    <2>1. PICK S : OctetStrings = Seq(S) /\ p \in Seq(S)
      BY <1>1, OctetsInOrder, Zenon
    <2>2. p \o <<>> = p
      BY <2>1
    <2> QED BY <2>2, Zenon
  <1> QED BY <1>1, <1>4, <1>5, <1>6 DEF rec, ReadsBackAs

\* Octet strings are put together to one.
LEMMA OctetsTogether ==
  ASSUME NEW a \in OctetStrings, NEW b \in OctetStrings, NEW c, c = a \o b
  PROVE  /\ c \in OctetStrings /\ Len(c) = Len(a) + Len(b)
         /\ SubSeq(c, Len(a) + 1, Len(c)) = b
  <1>1. PICK S : OctetStrings = Seq(S) /\ a \in Seq(S)
    BY OctetsInOrder, Zenon
  <1>2. b \in Seq(S)
    BY <1>1, Zenon
  <1>3. c \in Seq(S) /\ Len(c) = Len(a) + Len(b)
    BY <1>1, <1>2, Parts
  <1>4. SubSeq(c, Len(a) + 1, Len(a) + Len(b)) = b
    BY <1>1, <1>2, Parts
  <1> QED BY <1>1, <1>3, <1>4, Zenon

\* Two integers in a sequence are read as they were written, with no zeros but those that
\* have to stay, and called canonical where they are minimal.
LEMMA PairIsRead ==
  ASSUME NEW r \in OctetStrings, NEW s \in OctetStrings, Len(r) + Len(s) + 10 < TOO_LONG,
         NEW b, b = PushTlv(TAG_SEQUENCE, PushTlv(TAG_INTEGER, r) \o PushTlv(TAG_INTEGER, s))
  PROVE  ReadEcdsaSignature(b) =
           IF r = <<>> \/ s = <<>> THEN NONE
           ELSE [r |-> WithoutZeros(r), s |-> WithoutZeros(s), canonical |-> IsMinimal(r) /\ IsMinimal(s)]
  <1>1. Len(r) \in Nat /\ Len(s) \in Nat
    BY OctetsInOrder
  <1>2. TOO_LONG \in Int
    BY Places, SMT
  <1>3. Len(r) < TOO_LONG /\ Len(s) < TOO_LONG
    BY <1>1, <1>2
  <1>4. PICK two, outer : two \in 0 .. 255 /\ outer \in 0 .. 255 /\ two = TAG_INTEGER /\ outer = TAG_SEQUENCE
    BY DEF TAG_INTEGER, TAG_SEQUENCE
  <1>5. <<>> \in OctetStrings
    <2>1. PICK S : OctetStrings = Seq(S) /\ r \in Seq(S)
      BY OctetsInOrder, Zenon
    <2>2. <<>> \in Seq(S)
      OBVIOUS
    <2> QED BY <2>1, <2>2, Zenon
  <1>6. PICK ps : ps = PushTlv(two, s)
    OBVIOUS
  <1>7. PICK pr : pr = PushTlv(two, r)
    OBVIOUS
  <1>8. /\ ps \in OctetStrings /\ Len(ps) \in Nat /\ Len(ps) <= Len(s) + 5 /\ ps \o <<>> = ps
        /\ ReadTagged(ps \o <<>>, two) = [tag |-> two, value |-> s, len |-> Len(ps), canonical |-> TRUE]
        /\ ReadTagged(ps \o <<>>, two) # NONE
    <2>1. ReadsBackAs(two, s, ps, <<>>)
      BY <1>3, <1>4, <1>5, <1>6, TaggedIsRead, Zenon
    <2> QED BY <2>1, Zenon DEF ReadsBackAs
  <1>9. /\ pr \in OctetStrings /\ Len(pr) \in Nat /\ Len(pr) <= Len(r) + 5
        /\ ReadTagged(pr \o ps, two) = [tag |-> two, value |-> r, len |-> Len(pr), canonical |-> TRUE]
        /\ ReadTagged(pr \o ps, two) # NONE
    <2>1. ReadsBackAs(two, r, pr, ps)
      BY <1>3, <1>4, <1>7, <1>8, TaggedIsRead, Zenon
    <2> QED BY <2>1, Zenon DEF ReadsBackAs
  <1>10. PICK q : q = pr \o ps
    OBVIOUS
  <1>11. q \in OctetStrings /\ Len(q) = Len(pr) + Len(ps) /\ SubSeq(q, Len(pr) + 1, Len(q)) = ps
    BY <1>8, <1>9, <1>10, OctetsTogether, Zenon
  <1>12. Len(q) < TOO_LONG
    BY <1>1, <1>2, <1>8, <1>9, <1>11
  <1>13. /\ b \in OctetStrings /\ b \o <<>> = b
         /\ ReadTagged(b \o <<>>, outer) = [tag |-> outer, value |-> q, len |-> Len(b), canonical |-> TRUE]
         /\ ReadTagged(b \o <<>>, outer) # NONE
    <2>1. b = PushTlv(outer, q)
      BY <1>4, <1>6, <1>7, <1>10, Zenon
    <2>2. ReadsBackAs(outer, q, b, <<>>)
      BY <1>4, <1>5, <1>11, <1>12, <2>1, TaggedIsRead, Zenon
    <2> QED BY <2>2, Zenon DEF ReadsBackAs
  <1>14. PICK seq : seq = ReadTagged(b, TAG_SEQUENCE) /\ seq # NONE /\ seq.value = q /\ seq.len = Len(b) /\ seq.canonical = TRUE
    <2>1. ReadTagged(b, TAG_SEQUENCE) = [tag |-> outer, value |-> q, len |-> Len(b), canonical |-> TRUE]
      BY <1>4, <1>13, Zenon
    <2>2. ReadTagged(b, TAG_SEQUENCE) # NONE
      BY <1>4, <1>13, Zenon
    <2> QED BY <2>1, <2>2
  <1>15. PICK x : x = ReadTagged(seq.value, TAG_INTEGER) /\ x # NONE /\ x.value = r /\ x.len = Len(pr) /\ x.canonical = TRUE
    <2>1. ReadTagged(seq.value, TAG_INTEGER) = [tag |-> two, value |-> r, len |-> Len(pr), canonical |-> TRUE]
      BY <1>4, <1>9, <1>10, <1>14, Zenon
    <2>2. ReadTagged(seq.value, TAG_INTEGER) # NONE
      BY <1>4, <1>9, <1>10, <1>14, Zenon
    <2> QED BY <2>1, <2>2
  <1>16. PICK y : y = ReadTagged(RestOf(seq.value, x), TAG_INTEGER) /\ y # NONE /\ y.value = s /\ y.len = Len(ps) /\ y.canonical = TRUE
    <2>1. RestOf(seq.value, x) = ps
      BY <1>11, <1>14, <1>15, Zenon DEF RestOf
    <2>2. ReadTagged(ps, TAG_INTEGER) = [tag |-> two, value |-> s, len |-> Len(ps), canonical |-> TRUE]
      BY <1>4, <1>8, Zenon
    <2>3. ReadTagged(ps, TAG_INTEGER) # NONE
      BY <1>4, <1>8, Zenon
    <2>4. ReadTagged(ps, TAG_INTEGER).value = s /\ ReadTagged(ps, TAG_INTEGER).len = Len(ps) /\ ReadTagged(ps, TAG_INTEGER).canonical = TRUE
      BY <2>2
    <2> QED BY <2>1, <2>3, <2>4, Zenon
  <1>17. ReadEcdsaSignature(b) = DerSignature(seq, x, y, TRUE)
    <2>1. ReadEcdsaSignature(b) = SecondInteger(seq, x, seq.len = Len(b))
      BY <1>14, <1>15, Zenon DEF ReadEcdsaSignature
    <2>2. (seq.len = Len(b)) = TRUE
      BY <1>14
    <2>3. ReadEcdsaSignature(b) = SecondInteger(seq, x, TRUE)
      BY <2>1, <2>2
    <2> QED BY <1>15, <1>16, <2>3, Zenon DEF SecondInteger
  <1>18. CASE r = <<>> \/ s = <<>>
    BY <1>15, <1>16, <1>17, <1>18, Zenon DEF DerSignature
  <1>19. CASE ~(r = <<>> \/ s = <<>>)
    <2>1. ReadEcdsaSignature(b) =
            [r |-> WithoutZeros(r), s |-> WithoutZeros(s),
             canonical |-> /\ TRUE /\ seq.canonical /\ x.len + y.len = Len(seq.value)
                           /\ x.canonical /\ y.canonical
                           /\ IsMinimal(r) /\ IsMinimal(s)]
      BY <1>15, <1>16, <1>17, <1>19, Zenon DEF DerSignature
    <2>2. x.len + y.len = Len(seq.value)
      BY <1>11, <1>14, <1>15, <1>16
    <2>3. (/\ TRUE /\ seq.canonical /\ x.len + y.len = Len(seq.value)
           /\ x.canonical /\ y.canonical
           /\ IsMinimal(r) /\ IsMinimal(s)) = (IsMinimal(r) /\ IsMinimal(s))
      BY <1>14, <1>15, <1>16, <2>2
    <2> QED BY <1>19, <2>1, <2>3
  <1> QED BY <1>18, <1>19

\* t is what stands at the head of b under the tag, and canonical only as push_tlv writes it.
StandsAtTheHead(t, b, tag) ==
  /\ t.value \in OctetStrings /\ t.len \in Nat /\ t.canonical \in BOOLEAN
  /\ t.len >= Len(t.value) + 2 /\ t.len <= Len(b) /\ Len(t.value) < TOO_LONG
  /\ t.canonical => SubSeq(b, 1, t.len) = PushTlv(tag, t.value)

\* An element that is read under a tag stands at the head of the octets.
LEMMA TaggedStands ==
  ASSUME NEW b \in OctetStrings, Len(b) < TOO_LONG, NEW tag, NEW t, t = ReadTagged(b, tag), t # NONE
  PROVE  StandsAtTheHead(t, b, tag)
  <1>1. t = ReadTlv(b) /\ t.tag = tag
    BY Zenon DEF ReadTagged
  <1>2. /\ t \in Tlvs /\ t.len >= Len(t.value) + 2 /\ t.len <= Len(b) /\ Len(t.value) < TOO_LONG
        /\ t.canonical => SubSeq(b, 1, t.len) = PushTlv(t.tag, t.value)
    BY <1>1, TlvIsRead, Zenon
  <1>3. t.value \in OctetStrings /\ t.len \in Nat /\ t.canonical \in BOOLEAN
    <2>1. PICK A : A = 0 .. 255
      OBVIOUS
    <2>2. t \in [tag : A, value : OctetStrings, len : Nat, canonical : BOOLEAN]
      BY <1>2, <2>1, Zenon DEF Tlvs
    <2> QED BY <2>2
  <1> QED BY <1>1, <1>2, <1>3, Zenon DEF StandsAtTheHead

\* A signature that is read holds two integers; and it is called canonical only where it is
\* just what is written of them, and they are minimal.
LEMMA SignatureIsRead ==
  ASSUME NEW b \in OctetStrings, Len(b) < TOO_LONG, NEW a, a = ReadEcdsaSignature(b), a # NONE
  PROVE  \E r, s \in OctetStrings :
           /\ r # <<>> /\ s # <<>> /\ Len(r) + Len(s) <= Len(b)
           /\ a.r = WithoutZeros(r) /\ a.s = WithoutZeros(s) /\ a.canonical \in BOOLEAN
           /\ a.canonical =>
                /\ IsMinimal(r) /\ IsMinimal(s)
                /\ b = PushTlv(TAG_SEQUENCE, PushTlv(TAG_INTEGER, r) \o PushTlv(TAG_INTEGER, s))
  <1>1. PICK seq : seq = ReadTagged(b, TAG_SEQUENCE)
    OBVIOUS
  <1>2. PICK x : x = ReadTagged(seq.value, TAG_INTEGER)
    OBVIOUS
  <1>3. PICK y : y = ReadTagged(RestOf(seq.value, x), TAG_INTEGER)
    OBVIOUS
  <1>4. seq # NONE /\ a = SecondInteger(seq, x, seq.len = Len(b))
    BY <1>1, <1>2, Zenon DEF ReadEcdsaSignature
  <1>5. x # NONE /\ y # NONE /\ a = DerSignature(seq, x, y, seq.len = Len(b))
    BY <1>3, <1>4, Zenon DEF SecondInteger
  <1>6. PICK c \in BOOLEAN : c = /\ seq.len = Len(b) /\ seq.canonical /\ x.len + y.len = Len(seq.value)
                                 /\ x.canonical /\ y.canonical
                                 /\ IsMinimal(x.value) /\ IsMinimal(y.value)
    OBVIOUS
  <1>7. /\ x.value # <<>> /\ y.value # <<>>
        /\ a = [r |-> WithoutZeros(x.value), s |-> WithoutZeros(y.value), canonical |-> c]
    BY <1>5, <1>6, Zenon DEF DerSignature
  <1>8. a.r = WithoutZeros(x.value) /\ a.s = WithoutZeros(y.value) /\ a.canonical = c
    BY <1>7
  <1>9. /\ seq.value \in OctetStrings /\ seq.len \in Nat /\ seq.canonical \in BOOLEAN
        /\ seq.len >= Len(seq.value) + 2 /\ seq.len <= Len(b) /\ Len(seq.value) < TOO_LONG
        /\ seq.canonical => SubSeq(b, 1, seq.len) = PushTlv(TAG_SEQUENCE, seq.value)
    <2>1. StandsAtTheHead(seq, b, TAG_SEQUENCE)
      BY <1>1, <1>4, TaggedStands, Zenon
    <2> QED BY <2>1, Zenon DEF StandsAtTheHead
  <1>10. /\ x.value \in OctetStrings /\ x.len \in Nat /\ x.canonical \in BOOLEAN
         /\ x.len >= Len(x.value) + 2 /\ x.len <= Len(seq.value)
         /\ x.canonical => SubSeq(seq.value, 1, x.len) = PushTlv(TAG_INTEGER, x.value)
    <2>1. StandsAtTheHead(x, seq.value, TAG_INTEGER)
      BY <1>2, <1>5, <1>9, TaggedStands, Zenon
    <2> QED BY <2>1, Zenon DEF StandsAtTheHead
  <1>11. /\ Len(b) \in Nat /\ Len(seq.value) \in Nat /\ Len(x.value) \in Nat /\ TOO_LONG \in Int
    BY <1>9, <1>10, OctetsInOrder, Places, SMT
  <1>12. PICK rest : rest = RestOf(seq.value, x)
    OBVIOUS
  <1>13. /\ rest \in OctetStrings /\ Len(rest) = Len(seq.value) - x.len
         /\ seq.value = SubSeq(seq.value, 1, x.len) \o rest
    <2>1. PICK S : OctetStrings = Seq(S) /\ seq.value \in Seq(S)
      BY <1>9, OctetsInOrder, Zenon
    <2>2. x.len \in 0 .. Len(seq.value)
      BY <1>10, <1>11
    <2>3. rest = SubSeq(seq.value, x.len + 1, Len(seq.value))
      BY <1>12 DEF RestOf
    <2>4. /\ SubSeq(seq.value, x.len + 1, Len(seq.value)) \in Seq(S)
          /\ Len(SubSeq(seq.value, x.len + 1, Len(seq.value))) = Len(seq.value) - x.len
      BY <2>1, <2>2, CutInTwo
    <2>5. seq.value = SubSeq(seq.value, 1, x.len) \o SubSeq(seq.value, x.len + 1, Len(seq.value))
      BY <2>1, <2>2, CutInTwo
    <2> QED BY <2>1, <2>3, <2>4, <2>5, Zenon
  <1>14. Len(rest) \in Nat /\ Len(rest) < TOO_LONG
    BY <1>9, <1>10, <1>11, <1>13
  <1>15. /\ y.value \in OctetStrings /\ y.len \in Nat /\ y.canonical \in BOOLEAN
         /\ y.len >= Len(y.value) + 2 /\ y.len <= Len(rest)
         /\ y.canonical => SubSeq(rest, 1, y.len) = PushTlv(TAG_INTEGER, y.value)
    <2>1. StandsAtTheHead(y, rest, TAG_INTEGER)
      BY <1>3, <1>5, <1>12, <1>13, <1>14, TaggedStands, Zenon
    <2> QED BY <2>1, Zenon DEF StandsAtTheHead
  <1>16. Len(x.value) + Len(y.value) <= Len(b)
    <2>1. Len(y.value) \in Nat
      BY <1>15, OctetsInOrder
    <2>2. /\ x.len \in Nat /\ x.len >= Len(x.value) + 2 /\ y.len >= Len(y.value) + 2 /\ y.len <= Len(rest)
          /\ y.len \in Nat /\ Len(rest) = Len(seq.value) - x.len
      BY <1>10, <1>13, <1>15, Zenon
    <2>3. seq.len \in Nat /\ seq.len >= Len(seq.value) + 2 /\ seq.len <= Len(b)
      BY <1>9, Zenon
    <2>4. PICK k \in Nat, l \in Nat, m \in Nat, n \in Nat :
            k = x.len /\ l = y.len /\ m = Len(seq.value) /\ n = Len(b)
      BY <1>11, <2>2
    <2>5. PICK i \in Nat, j \in Nat : i = Len(x.value) /\ j = Len(y.value)
      BY <1>11, <2>1
    <2>6. k >= i + 2 /\ l >= j + 2 /\ l <= m - k
      BY <2>2, <2>4, <2>5
    <2>7. m + 2 <= n
      BY <2>3, <2>4
    <2>8. i + j <= n
      BY <2>6, <2>7
    <2> QED BY <2>4, <2>5, <2>8
  <1>17. ASSUME c
         PROVE  b = PushTlv(TAG_SEQUENCE, PushTlv(TAG_INTEGER, x.value) \o PushTlv(TAG_INTEGER, y.value))
    <2>1. /\ seq.len = Len(b) /\ seq.canonical /\ x.len + y.len = Len(seq.value)
          /\ x.canonical /\ y.canonical
      BY <1>6, <1>17
    <2>2. y.len = Len(rest)
      BY <1>10, <1>11, <1>13, <1>15, <2>1
    <2>3. SubSeq(rest, 1, Len(rest)) = rest /\ SubSeq(b, 1, Len(b)) = b
      <3>1. PICK S : OctetStrings = Seq(S) /\ b \in Seq(S)
        BY OctetsInOrder, Zenon
      <3>2. rest \in Seq(S)
        BY <1>13, <3>1, Zenon
      <3>3. \A w \in Seq(S) : SubSeq(w, 0 + 1, 0 + Len(w)) = w
        <4> SUFFICES ASSUME NEW w \in Seq(S) PROVE SubSeq(w, 0 + 1, 0 + Len(w)) = w
          OBVIOUS
        <4>1. 0 \in Nat /\ 0 + Len(w) <= Len(w) /\ \A i \in 1 .. Len(w) : w[0 + i] = w[i]
          OBVIOUS
        <4> QED BY <4>1, Window, Zenon
      <3>4. 0 + Len(rest) = Len(rest) /\ 0 + Len(b) = Len(b) /\ 0 + 1 = 1
        BY <1>11, <1>14
      <3> QED BY <3>1, <3>2, <3>3, <3>4
    <2>4. rest = PushTlv(TAG_INTEGER, y.value)
      BY <1>15, <2>1, <2>2, <2>3
    <2>5. b = PushTlv(TAG_SEQUENCE, seq.value)
      BY <1>9, <2>1, <2>3
    <2>6. SubSeq(seq.value, 1, x.len) = PushTlv(TAG_INTEGER, x.value)
      BY <1>10, <2>1
    <2> QED BY <1>13, <2>4, <2>5, <2>6
  <1> QED BY <1>6, <1>7, <1>8, <1>10, <1>15, <1>16, <1>17

\* What is read is called canonical just where what is written of it are the same bytes.
LEMMA CanonicalAnswer ==
  ASSUME NEW b \in OctetStrings, Len(b) + 12 < TOO_LONG, NEW a, a = ReadEcdsaSignature(b), a # NONE
  PROVE  a.canonical = (WriteEcdsaSignature(a.r, a.s) = b)
  <1>1. Len(b) \in Nat /\ TOO_LONG \in Int
    BY OctetsInOrder, Places, SMT
  <1>2. Len(b) < TOO_LONG
    BY <1>1
  <1>3. PICK r \in OctetStrings, s \in OctetStrings :
           /\ r # <<>> /\ s # <<>> /\ Len(r) + Len(s) <= Len(b)
           /\ a.r = WithoutZeros(r) /\ a.s = WithoutZeros(s) /\ a.canonical \in BOOLEAN
           /\ a.canonical =>
                /\ IsMinimal(r) /\ IsMinimal(s)
                /\ b = PushTlv(TAG_SEQUENCE, PushTlv(TAG_INTEGER, r) \o PushTlv(TAG_INTEGER, s))
    BY <1>2, SignatureIsRead, Zenon
  <1>4. PICK R, S : R = Signed(a.r) /\ S = Signed(a.s)
    OBVIOUS
  <1>5. /\ IsBare(a.r) /\ WithoutZeros(a.r) = a.r /\ Len(a.r) <= Len(r)
        /\ R \in OctetStrings /\ R # <<>> /\ Len(R) <= Len(a.r) + 1 /\ IsMinimal(R)
    <2>1. IsBare(a.r) /\ Len(a.r) = Len(r) - Stripped(r)
      BY <1>3, BareIsLeft
    <2>2. Stripped(r) \in 0 .. Len(r) - 1 /\ Len(r) \in Nat
      BY <1>3, ZerosInFront, OctetsInOrder
    <2>3. Len(a.r) <= Len(r)
      BY <2>1, <2>2
    <2> QED BY <1>4, <2>1, <2>3, BareStays, SignedIsMinimal
  <1>6. /\ IsBare(a.s) /\ WithoutZeros(a.s) = a.s /\ Len(a.s) <= Len(s)
        /\ S \in OctetStrings /\ S # <<>> /\ Len(S) <= Len(a.s) + 1 /\ IsMinimal(S)
    <2>1. IsBare(a.s) /\ Len(a.s) = Len(s) - Stripped(s)
      BY <1>3, BareIsLeft
    <2>2. Stripped(s) \in 0 .. Len(s) - 1 /\ Len(s) \in Nat
      BY <1>3, ZerosInFront, OctetsInOrder
    <2>3. Len(a.s) <= Len(s)
      BY <2>1, <2>2
    <2> QED BY <1>4, <2>1, <2>3, BareStays, SignedIsMinimal
  <1>7. WriteEcdsaSignature(a.r, a.s) = PushTlv(TAG_SEQUENCE, PushTlv(TAG_INTEGER, R) \o PushTlv(TAG_INTEGER, S))
    BY <1>4, <1>5, <1>6, Zenon DEF WriteEcdsaSignature, PushInteger
  <1>8. ASSUME a.canonical PROVE WriteEcdsaSignature(a.r, a.s) = b
    <2>1. r = R /\ s = S
      BY <1>3, <1>4, <1>8, MinimalIsSigned
    <2> QED BY <1>3, <1>7, <1>8, <2>1
  <1>9. ASSUME WriteEcdsaSignature(a.r, a.s) = b PROVE a.canonical
    <2>1. Len(R) + Len(S) + 10 < TOO_LONG
      <3>1. IsBare(a.r) /\ IsBare(a.s) /\ Len(r) \in Nat /\ Len(s) \in Nat /\ Len(R) \in Nat /\ Len(S) \in Nat
        BY <1>5, <1>6, OctetsInOrder
      <3>2. Len(a.r) \in Nat /\ Len(a.s) \in Nat
        BY <3>1, OctetsInOrder DEF IsBare
      <3>3. Len(R) <= Len(r) + 1 /\ Len(S) <= Len(s) + 1
        BY <1>5, <1>6, <3>1, <3>2
      <3>4. Len(R) + Len(S) <= Len(b) + 2
        <4>1. Len(r) + Len(s) <= Len(b)
          BY <1>3
        <4> QED BY <1>1, <3>1, <3>3, <4>1
      <3> QED BY <1>1, <3>1, <3>4
    <2>2. a = [r |-> WithoutZeros(R), s |-> WithoutZeros(S), canonical |-> IsMinimal(R) /\ IsMinimal(S)]
      <3>1. b = PushTlv(TAG_SEQUENCE, PushTlv(TAG_INTEGER, R) \o PushTlv(TAG_INTEGER, S))
        BY <1>7, <1>9, Zenon
      <3>2. R \in OctetStrings /\ S \in OctetStrings /\ R # <<>> /\ S # <<>>
        BY <1>5, <1>6, Zenon
      <3>3. ReadEcdsaSignature(b) =
              IF R = <<>> \/ S = <<>> THEN NONE
              ELSE [r |-> WithoutZeros(R), s |-> WithoutZeros(S), canonical |-> IsMinimal(R) /\ IsMinimal(S)]
        BY <2>1, <3>1, <3>2, PairIsRead, Zenon
      <3> QED BY <3>2, <3>3, Zenon
    <2>3. a.canonical = (IsMinimal(R) /\ IsMinimal(S))
      BY <2>2
    <2> QED BY <1>5, <1>6, <2>3
  <1> QED BY <1>3, <1>8, <1>9

\* a is canonical and holds the scalars r and s.
HoldsScalars(a, r, s) ==
  a.canonical = TRUE /\ Magnitude(a.r) = Magnitude(r) /\ Magnitude(a.s) = Magnitude(s)

\* What is written is read as the scalars it was written of, and called canonical.
LEMMA ScalarsAreWritten ==
  ASSUME NEW r \in OctetStrings, NEW s \in OctetStrings, Len(r) + Len(s) + 12 < TOO_LONG,
         NEW a, a = ReadEcdsaSignature(WriteEcdsaSignature(r, s)), a # NONE
  PROVE  HoldsScalars(a, r, s)
  <1>1. PICK R, S : R = Signed(WithoutZeros(r)) /\ S = Signed(WithoutZeros(s))
    OBVIOUS
  <1>2. Len(r) \in Nat /\ Len(s) \in Nat /\ TOO_LONG \in Int
    BY OctetsInOrder, Places, SMT
  <1>3. \A v \in OctetStrings : v = <<>> => Signed(WithoutZeros(v)) = <<>>
    BY Zenon DEF Signed, WithoutZeros
  <1>4. \A v \in OctetStrings :
          v # <<>> =>
            /\ Signed(WithoutZeros(v)) \in OctetStrings /\ Len(Signed(WithoutZeros(v))) <= Len(v) + 1
            /\ WithoutZeros(Signed(WithoutZeros(v))) = WithoutZeros(v)
            /\ IsMinimal(Signed(WithoutZeros(v)))
    <2> SUFFICES ASSUME NEW v \in OctetStrings, v # <<>>
                 PROVE  /\ Signed(WithoutZeros(v)) \in OctetStrings /\ Len(Signed(WithoutZeros(v))) <= Len(v) + 1
                        /\ WithoutZeros(Signed(WithoutZeros(v))) = WithoutZeros(v)
                        /\ IsMinimal(Signed(WithoutZeros(v)))
      OBVIOUS
    <2>1. PICK w : w = WithoutZeros(v)
      OBVIOUS
    <2>2. PICK z : z = Signed(w)
      OBVIOUS
    <2>3. IsBare(w) /\ Len(w) = Len(v) - Stripped(v)
      BY <2>1, BareIsLeft
    <2>4. z \in OctetStrings /\ Len(z) <= Len(w) + 1 /\ WithoutZeros(z) = w /\ IsMinimal(z)
      BY <2>2, <2>3, SignedIsMinimal, Zenon
    <2>5. Stripped(v) \in 0 .. Len(v) - 1 /\ Len(v) \in Nat /\ Len(z) \in Nat
      BY <2>4, ZerosInFront, OctetsInOrder
    <2>6. Len(z) <= Len(v) + 1
      BY <2>3, <2>4, <2>5
    <2> QED BY <2>1, <2>2, <2>4, <2>6, Zenon
  <1>5. R \in OctetStrings /\ S \in OctetStrings /\ Len(R) <= Len(r) + 1 /\ Len(S) <= Len(s) + 1
    <2>1. \A v \in OctetStrings : v = <<>> =>
            Signed(WithoutZeros(v)) \in OctetStrings /\ Len(Signed(WithoutZeros(v))) <= Len(v) + 1
      <3> SUFFICES ASSUME NEW v \in OctetStrings, v = <<>>
                   PROVE  Signed(WithoutZeros(v)) \in OctetStrings /\ Len(Signed(WithoutZeros(v))) <= Len(v) + 1
        OBVIOUS
      <3>1. Signed(WithoutZeros(v)) = v
        BY <1>3
      <3>2. Len(v) <= Len(v) + 1
        BY OctetsInOrder
      <3> QED BY <3>1, <3>2
    <2> QED BY <1>1, <1>4, <2>1
  <1>6. PICK b : b = WriteEcdsaSignature(r, s)
    OBVIOUS
  <1>7. b = PushTlv(TAG_SEQUENCE, PushTlv(TAG_INTEGER, R) \o PushTlv(TAG_INTEGER, S))
    BY <1>1, <1>6, Zenon DEF WriteEcdsaSignature, PushInteger
  <1>8. Len(R) + Len(S) + 10 < TOO_LONG
    <2>1. Len(R) \in Nat /\ Len(S) \in Nat
      BY <1>5, OctetsInOrder
    <2> QED BY <1>2, <1>5, <2>1
  <1>9. a = IF R = <<>> \/ S = <<>> THEN NONE
            ELSE [r |-> WithoutZeros(R), s |-> WithoutZeros(S), canonical |-> IsMinimal(R) /\ IsMinimal(S)]
    BY <1>5, <1>6, <1>7, <1>8, PairIsRead, Zenon
  <1>10. ~(R = <<>> \/ S = <<>>)
    BY <1>9
  <1>11. r # <<>> /\ s # <<>>
    BY <1>1, <1>3, <1>10
  <1>12. /\ WithoutZeros(R) = WithoutZeros(r) /\ IsMinimal(R)
         /\ WithoutZeros(S) = WithoutZeros(s) /\ IsMinimal(S)
    BY <1>1, <1>4, <1>11
  <1>13. a = [r |-> WithoutZeros(r), s |-> WithoutZeros(s), canonical |-> IsMinimal(R) /\ IsMinimal(S)]
    BY <1>9, <1>10, <1>12
  <1>14. a.r = WithoutZeros(r) /\ a.s = WithoutZeros(s) /\ a.canonical = TRUE
    <2>1. a.r = WithoutZeros(r) /\ a.s = WithoutZeros(s) /\ a.canonical = (IsMinimal(R) /\ IsMinimal(S))
      BY <1>13
    <2> QED BY <1>12, <2>1
  <1> QED BY <1>11, <1>14, MagnitudeStays DEF HoldsScalars

-----------------------------------------------------------------------------
\* A question about a signature is answered by der.rs: its bytes are read and what was read
\* is written, or its scalars are written and what was written is read.
Exchanging ==
  /\ asked = NONE => turn = "first"
  /\ About("der") =>
       /\ asked \in Questions
       /\ IsGiven("text") =>
            /\ turn # "first" => answer = ReadEcdsaSignature(asked.text)
            /\ turn = "done" /\ answer # NONE => written = WriteEcdsaSignature(answer.r, answer.s)
       /\ ~IsGiven("text") =>
            /\ turn # "first" => written = WriteEcdsaSignature(asked.value.r, asked.value.s)
            /\ turn = "done" => answer = ReadEcdsaSignature(written)

\* What is exchanged is what the runs check.
LEMMA ExchangesShow ==
  ASSUME Exchanging
  PROVE  CanonicalIsAsWritten
  <1> SUFFICES ASSUME About("der"), turn = "done", answer # NONE
               PROVE  IF IsGiven("text") THEN answer.canonical = (written = asked.text)
                      ELSE /\ answer.canonical
                           /\ Magnitude(answer.r) = Magnitude(asked.value.r)
                           /\ Magnitude(answer.s) = Magnitude(asked.value.s)
    BY Zenon DEF CanonicalIsAsWritten
  <1>1. asked \in Questions /\ asked.kind = "der"
    BY Zenon DEF Exchanging, About
  <1>2. ASSUME IsGiven("text") PROVE answer.canonical = (written = asked.text)
    <2>1. answer = ReadEcdsaSignature(asked.text) /\ written = WriteEcdsaSignature(answer.r, answer.s)
      BY <1>2, Zenon DEF Exchanging
    <2>2. asked.text \in OctetStrings /\ Len(asked.text) + 12 < TOO_LONG
      BY <1>1, <1>2, SignaturesAssumption, Zenon DEF IsGiven, OctetStrings
    <2>3. answer.canonical = (WriteEcdsaSignature(answer.r, answer.s) = asked.text)
      BY <2>1, <2>2, CanonicalAnswer, Zenon
    <2> QED BY <2>1, <2>3, Zenon
  <1>3. ASSUME ~IsGiven("text")
        PROVE  /\ answer.canonical
               /\ Magnitude(answer.r) = Magnitude(asked.value.r)
               /\ Magnitude(answer.s) = Magnitude(asked.value.s)
    <2>1. answer = ReadEcdsaSignature(WriteEcdsaSignature(asked.value.r, asked.value.s))
      BY <1>3, Zenon DEF Exchanging
    <2>2. /\ asked.value.r \in OctetStrings /\ asked.value.s \in OctetStrings
          /\ Len(asked.value.r) + Len(asked.value.s) + 12 < TOO_LONG
      BY <1>1, <1>3, SignaturesAssumption, Zenon DEF IsGiven, OctetStrings
    <2>3. PICK r \in OctetStrings, s \in OctetStrings :
            r = asked.value.r /\ s = asked.value.s /\ Len(r) + Len(s) + 12 < TOO_LONG
      BY <2>2, Zenon
    <2>4. answer = ReadEcdsaSignature(WriteEcdsaSignature(r, s))
      BY <2>1, <2>3, Zenon
    <2>5. HoldsScalars(answer, r, s)
      BY <2>3, <2>4, ScalarsAreWritten, Zenon
    <2> QED BY <2>3, <2>5, Zenon DEF HoldsScalars
  <1> QED BY <1>2, <1>3, Zenon

\* What is not about a signature says nothing of one.
LEMMA FormKeepsExchanging ==
  ASSUME Exchanging, Form
  PROVE  Exchanging'
  <1>1. "first" # "second" /\ "second" # "done" /\ "first" # "done"
    OBVIOUS
  <1>2. CASE ReadDer
    <2>1. /\ About("der") /\ turn = (IF IsGiven("text") THEN "first" ELSE "second")
          /\ answer' = ReadEcdsaSignature(Spelling) /\ turn' = (IF turn = "first" THEN "second" ELSE "done")
          /\ asked' = asked /\ written' = written
      BY <1>2, Zenon DEF ReadDer, Reads, Answer, Turned
    <2>2. CASE IsGiven("text")
      <3>1. answer' = ReadEcdsaSignature(asked.text) /\ turn' = "second"
        BY <2>1, <2>2, Zenon DEF Spelling
      <3>2. asked' # NONE /\ About("der") /\ asked \in Questions
        BY <2>1, Zenon DEF About, Exchanging
      <3> QED BY <1>1, <2>1, <2>2, <3>1, <3>2, Zenon DEF Exchanging, About, IsGiven
    <2>3. CASE ~IsGiven("text")
      <3>1. answer' = ReadEcdsaSignature(written) /\ turn' = "done" /\ turn # "first"
        BY <1>1, <2>1, <2>3, Zenon DEF Spelling
      <3>2. asked # NONE /\ asked \in Questions /\ written = WriteEcdsaSignature(asked.value.r, asked.value.s)
        BY <2>1, <2>3, <3>1, Zenon DEF About, Exchanging
      <3> QED BY <1>1, <2>1, <2>3, <3>1, <3>2, Zenon DEF Exchanging, About, IsGiven
    <2> QED BY <2>2, <2>3
  <1>3. CASE WriteDer
    <2>1. /\ About("der") /\ turn = (IF IsGiven("text") THEN "second" ELSE "first")
          /\ Content # NONE /\ written' = WriteEcdsaSignature(Content.r, Content.s)
          /\ turn' = (IF turn = "first" THEN "second" ELSE "done")
          /\ asked' = asked /\ answer' = answer
      BY <1>3, Zenon DEF WriteDer, Writes, WriteAs, Turned
    <2>2. CASE IsGiven("text")
      <3>1. written' = WriteEcdsaSignature(answer.r, answer.s) /\ turn' = "done" /\ turn # "first"
        BY <1>1, <2>1, <2>2, Zenon DEF Content
      <3>2. asked # NONE /\ asked \in Questions /\ answer = ReadEcdsaSignature(asked.text)
        BY <2>1, <2>2, <3>1, Zenon DEF About, Exchanging
      <3> QED BY <1>1, <2>1, <2>2, <3>1, <3>2, Zenon DEF Exchanging, About, IsGiven
    <2>3. CASE ~IsGiven("text")
      <3>1. written' = WriteEcdsaSignature(asked.value.r, asked.value.s) /\ turn' = "second"
        BY <1>1, <2>1, <2>3, Zenon DEF Content
      <3>2. asked # NONE /\ asked \in Questions
        BY <2>1, Zenon DEF About, Exchanging
      <3> QED BY <1>1, <2>1, <2>3, <3>1, <3>2, Zenon DEF Exchanging, About, IsGiven
    <2> QED BY <2>2, <2>3
  <1>4. ASSUME NEW k, k # "der", Reads(k) \/ Writes(k), asked' = asked
        PROVE  Exchanging'
    <2>1. asked # NONE /\ asked.kind = k
      BY <1>4 DEF Reads, Writes, About
    <2> QED BY <1>4, <2>1, Zenon DEF Exchanging, About
  <1>5. CASE (ReadForm \/ WriteForm) /\ ~ReadDer /\ ~WriteDer
    <2>1. asked' = asked /\ \E k \in {"scalars", "date", "key", "time", "obis", "hex", "base64"} : Reads(k) \/ Writes(k)
      BY <1>5, Zenon DEF ReadForm, WriteForm, ReadScalars, ReadKey, ReadTime, ReadCode, ReadHex, ReadBase64,
         WriteScalars, WriteKey, WriteTime, PlaceTime, WriteCode, WriteHex, WriteBase64, Answer, WriteAs
    <2>2. \A k \in {"scalars", "date", "key", "time", "obis", "hex", "base64"} : k # "der"
      OBVIOUS
    <2> QED BY <1>4, <2>1, <2>2
  <1> QED BY <1>2, <1>3, <1>5 DEF Form

\* A signature is called canonical exactly where writing its scalars gives the very bytes
\* back: however a length is spelled, whatever sign bytes stand before the integers and
\* whatever follows them; and what is written is canonical and holds the scalars that were
\* given (der.rs, read_tlv, trim_integer, read_ecdsa_signature and write_ecdsa_signature).
THEOREM CanonicalIsAlwaysAsWritten == Spec => []CanonicalIsAsWritten
  <1>1. Init => Exchanging
    BY Zenon DEF Init, NothingAsked, Exchanging, About
  <1>2. Exchanging /\ [Next]_vars => Exchanging'
    <2> SUFFICES ASSUME Exchanging, [Next]_vars PROVE Exchanging'
      OBVIOUS
    <2>1. CASE UNCHANGED forms
      BY <2>1 DEF forms, Exchanging, About, IsGiven
    <2>2. CASE CallForm
      <3>1. PICK q \in Questions : Ask(q)
        BY <2>2 DEF CallForm
      <3>2. asked' = q /\ turn' = "first"
        BY <3>1 DEF Ask, Exchanging
      <3>3. "first" # "done"
        OBVIOUS
      <3> QED BY <3>2, <3>3, Zenon DEF Exchanging, About
    <2>3. CASE Forming
      BY <2>3, FormKeepsExchanging DEF Forming
    <2>4. CASE CallRead \/ CallSign \/ CallTool \/ ReadOnly \/ Building \/ Tool \/ UNCHANGED vars
      BY <2>1, <2>4 DEF CallRead, CallSign, CallTool, ReadOnly, Building, Tool, vars
    <2> QED BY <2>2, <2>3, <2>4 DEF Next
  <1>3. Exchanging => CanonicalIsAsWritten
    BY ExchangesShow
  <1> QED BY <1>1, <1>2, <1>3, PTL DEF Spec

-----------------------------------------------------------------------------
(***************************************************************************)
(* Scalars: what scalar.rs does byte by byte is what is done to numbers.   *)
(***************************************************************************)
\* What holds at 0, and at every place if it does at the place before, holds everywhere.
LEMMA Stepwise ==
  ASSUME NEW n \in Nat, NEW P, 0 \in P, \A i \in 1 .. n : i - 1 \in P => i \in P
  PROVE  \A i \in 0 .. n : i \in P
  <1> DEFINE Failing == {i \in 0 .. n : i \notin P}
  <1>1. SUFFICES ASSUME Failing # {} PROVE FALSE
    OBVIOUS
  <1>2. PICK m \in Failing : \A k \in Failing : m <= k
    <2>1. Failing \in SUBSET Nat
      OBVIOUS
    <2> HIDE DEF Failing
    <2> QED BY <1>1, <2>1, LeastExists
  <1>3. m \in 1 .. n /\ m \notin P
    OBVIOUS
  <1>4. m - 1 \in 0 .. n /\ m - 1 \notin Failing
    BY <1>2, <1>3
  <1> QED BY <1>3, <1>4

\* u[i] is the number that the first i octets of v stand for.
Counts(v, u) ==
  /\ u \in [0 .. Len(v) -> Nat] /\ u[0] = 0
  /\ \A i \in 1 .. Len(v) : u[i] = 256 * u[i - 1] + v[i]

\* Every octet string stands for a number.
LEMMA NumberCounts ==
  ASSUME NEW v \in OctetStrings
  PROVE  \E u : Counts(v, u) /\ Number(v) = u[Len(v)]
  <1> DEFINE n == Len(v)
             body(u) == [i \in 0 .. n |-> IF i = 0 THEN 0 ELSE BYTE * u[i - 1] + v[i]]
             u == CHOOSE u : u = body(u)
             advance == [i \in 1 .. n |-> [x \in Nat |-> 256 * x + v[i]]]
  <1>1. n \in Nat /\ \A i \in 1 .. n : v[i] \in Nat
    <2>1. \A i \in 1 .. n : v[i] \in Int /\ 0 <= v[i]
      BY OctetsAreNumbers
    <2> QED BY <2>1, OctetsInOrder
  <1> HIDE DEF n
  <1>2. PICK w \in Loops(n, Nat, 0, advance) : TRUE
    <2>1. advance \in [1 .. n -> [Nat -> Nat]]
      BY <1>1
    <2> HIDE DEF advance
    <2>2. Loops(n, Nat, 0, advance) # {}
      BY <1>1, <2>1, LoopExists
    <2> QED BY <2>2
  <1>3. w \in [0 .. n -> Nat] /\ w[0] = 0 /\ \A i \in 1 .. n : w[i] = advance[i][w[i - 1]]
    <2> HIDE DEF advance
    <2> QED BY <1>2 DEF Loops
  <1>4. \A i \in 1 .. n : w[i] = 256 * w[i - 1] + v[i]
    <2> SUFFICES ASSUME NEW i \in 1 .. n PROVE w[i] = 256 * w[i - 1] + v[i]
      OBVIOUS
    <2>1. i - 1 \in 0 .. n
      BY <1>1
    <2>2. w[i - 1] \in Nat
      BY <1>3, <2>1
    <2>3. w[i] = advance[i][w[i - 1]]
      BY <1>3
    <2> QED BY <2>2, <2>3
  <1>5. w = body(w)
    <2>1. w = [i \in 0 .. n |-> w[i]]
      BY <1>3
    <2>2. \A i \in 0 .. n : w[i] = IF i = 0 THEN 0 ELSE BYTE * w[i - 1] + v[i]
      <3>1. \A i \in 0 .. n : i = 0 \/ i \in 1 .. n
        BY <1>1
      <3> QED BY <1>3, <1>4, <3>1 DEF BYTE
    <2> QED BY <2>1, <2>2
  <1>6. u = body(u)
    <2> HIDE DEF body
    <2> QED BY <1>5
  <1>7. Number(v) = u[n]
    BY DEF Number, n
  <1>8. DOMAIN u = 0 .. n /\ \A i \in 0 .. n : u[i] = IF i = 0 THEN 0 ELSE BYTE * u[i - 1] + v[i]
    <2> HIDE DEF u
    <2> QED BY <1>6
  <1> HIDE DEF u
  <1>9. \A i \in 0 .. n : i \in {k \in 0 .. n : u[k] = w[k]}
    <2> DEFINE P == {k \in 0 .. n : u[k] = w[k]}
    <2>1. 0 \in P
      BY <1>1, <1>3, <1>8
    <2>2. ASSUME NEW i \in 1 .. n, i - 1 \in P PROVE i \in P
      <3>1. u[i - 1] = w[i - 1] /\ i \in 0 .. n /\ i # 0
        BY <1>1, <2>2
      <3>2. u[i] = 256 * u[i - 1] + v[i]
        BY <1>8, <3>1 DEF BYTE
      <3>3. u[i] = w[i]
        BY <1>4, <3>1, <3>2
      <3> QED BY <3>1, <3>3
    <2> HIDE DEF P
    <2>3. \A i \in 0 .. n : i \in P
      BY <1>1, <2>1, <2>2, Stepwise
    <2> QED BY <2>3 DEF P
  <1>10. Number(v) = w[n]
    BY <1>1, <1>7, <1>9
  <1>11. Counts(v, w)
    BY <1>3, <1>4 DEF Counts, n
  <1> QED BY <1>10, <1>11 DEF n

\* There is one way to count.
LEMMA CountIsNumber ==
  ASSUME NEW v \in OctetStrings, NEW u, Counts(v, u)
  PROVE  Number(v) = u[Len(v)] /\ Number(v) \in Nat
  <1>1. PICK w : Counts(v, w) /\ Number(v) = w[Len(v)]
    BY NumberCounts
  <1>2. PICK n \in Nat : n = Len(v)
    BY OctetsInOrder
  <1>3. /\ u \in [0 .. n -> Nat] /\ u[0] = 0 /\ \A i \in 1 .. n : u[i] = 256 * u[i - 1] + v[i]
        /\ w \in [0 .. n -> Nat] /\ w[0] = 0 /\ \A i \in 1 .. n : w[i] = 256 * w[i - 1] + v[i]
    BY <1>1, <1>2 DEF Counts
  <1> DEFINE P == {k \in 0 .. n : u[k] = w[k]}
  <1>4. 0 \in P
    BY <1>3
  <1>5. ASSUME NEW i \in 1 .. n, i - 1 \in P PROVE i \in P
    <2>1. u[i - 1] = w[i - 1] /\ i \in 0 .. n
      BY <1>5
    <2>2. u[i] = w[i]
      BY <1>3, <2>1
    <2> QED BY <2>1, <2>2
  <1> HIDE DEF P
  <1>6. \A i \in 0 .. n : i \in P
    BY <1>4, <1>5, Stepwise
  <1>7. u[n] = w[n]
    BY <1>6 DEF P
  <1> QED BY <1>1, <1>2, <1>3, <1>7

\* An octet string stands for a natural number.
LEMMA NumberIsNatural ==
  ASSUME NEW v \in OctetStrings
  PROVE  Number(v) \in Nat
  <1>1. PICK w : Counts(v, w) /\ Number(v) = w[Len(v)]
    BY NumberCounts
  <1> QED BY <1>1, CountIsNumber

\* The smaller of two strings of one length, the first place at which they differ being j.
LEMMA FirstPlaceDecides ==
  ASSUME NEW a \in OctetStrings, NEW b \in OctetStrings, Len(a) = Len(b),
         NEW j \in 1 .. Len(a), a[j] < b[j], \A k \in 1 .. j - 1 : a[k] = b[k]
  PROVE  Number(a) < Number(b)
  <1>1. PICK n \in Nat : n = Len(a) /\ n = Len(b)
    BY OctetsInOrder
  <1>2. PICK u, w : Counts(a, u) /\ Counts(b, w) /\ Number(a) = u[n] /\ Number(b) = w[n]
    BY <1>1, NumberCounts
  <1>3. /\ u \in [0 .. n -> Nat] /\ u[0] = 0 /\ \A i \in 1 .. n : u[i] = 256 * u[i - 1] + a[i]
        /\ w \in [0 .. n -> Nat] /\ w[0] = 0 /\ \A i \in 1 .. n : w[i] = 256 * w[i - 1] + b[i]
    BY <1>1, <1>2 DEF Counts
  <1>4. \A i \in 1 .. n : a[i] \in Int /\ 0 <= a[i] /\ a[i] < 256 /\ b[i] \in Int /\ 0 <= b[i] /\ b[i] < 256
    BY <1>1, OctetsAreNumbers
  <1>5. j \in 1 .. n
    BY <1>1
  <1> DEFINE P == {k \in 0 .. n : (k < j => u[k] = w[k]) /\ (k >= j => u[k] < w[k])}
  <1>6. 0 \in P
    BY <1>3, <1>5
  <1>7. ASSUME NEW i \in 1 .. n, i - 1 \in P PROVE i \in P
    <2>1. PICK x \in Nat, y \in Nat : x = u[i - 1] /\ y = w[i - 1]
      <3>1. i - 1 \in 0 .. n
        OBVIOUS
      <3>2. u[i - 1] \in Nat /\ w[i - 1] \in Nat
        <4> HIDE DEF P
        <4> QED BY <1>3, <3>1
      <3> HIDE DEF P
      <3> QED BY <3>2, Zenon
    <2>2. PICK p \in Int, q \in Int : p = a[i] /\ q = b[i] /\ 0 <= p /\ p < 256 /\ 0 <= q /\ q < 256
      <3>1. a[i] \in Int /\ 0 <= a[i] /\ a[i] < 256 /\ b[i] \in Int /\ 0 <= b[i] /\ b[i] < 256
        BY <1>4
      <3> HIDE DEF P
      <3> QED BY <3>1, SMTT(30)
    <2>3. u[i] = 256 * x + p /\ w[i] = 256 * y + q
      BY <1>3, <2>1, <2>2
    <2>4. i < j => x = y /\ p = q
      <3> SUFFICES ASSUME i < j PROVE x = y /\ p = q
        OBVIOUS
      <3>1. i - 1 < j /\ i \in 1 .. j - 1
        BY <1>5
      <3> QED BY <1>7, <2>1, <2>2, <3>1
    <2>5. i = j => x = y /\ p < q
      <3> SUFFICES ASSUME i = j PROVE x = y /\ p < q
        OBVIOUS
      <3>1. i - 1 < j
        BY <1>5
      <3> QED BY <1>7, <2>1, <2>2, <3>1
    <2>6. i > j => x < y
      <3> SUFFICES ASSUME i > j PROVE x < y
        OBVIOUS
      <3>1. i - 1 >= j
        BY <1>5
      <3> QED BY <1>7, <2>1, <3>1
    <2>7. (i < j => u[i] = w[i]) /\ (i >= j => u[i] < w[i])
      <3> HIDE DEF P
      <3>1. x < y => 256 * x + p < 256 * y + q
        BY <2>2
      <3> QED BY <1>5, <2>2, <2>3, <2>4, <2>5, <2>6, <3>1
    <2> QED BY <2>7
  <1> HIDE DEF P
  <1>8. \A i \in 0 .. n : i \in P
    BY <1>6, <1>7, Stepwise
  <1>9. n \in P
    BY <1>8
  <1> QED BY <1>2, <1>5, <1>9 DEF P

\* Strings of one length stand in the order of their numbers.
LEMMA PlacesDecide ==
  ASSUME NEW a \in OctetStrings, NEW b \in OctetStrings, Len(a) = Len(b)
  PROVE  (\E i \in 1 .. Len(a) : a[i] < b[i] /\ \A j \in 1 .. i - 1 : a[j] = b[j]) <=> Number(a) < Number(b)
  <1>1. PICK n \in Nat : n = Len(a) /\ n = Len(b)
    BY OctetsInOrder
  <1>2. \A i \in 1 .. n : a[i] \in Int /\ b[i] \in Int
    BY <1>1, OctetsAreNumbers
  <1>3. Number(a) \in Nat /\ Number(b) \in Nat
    BY NumberCounts, CountIsNumber
  <1>4. ASSUME NEW i \in 1 .. Len(a), a[i] < b[i], \A j \in 1 .. i - 1 : a[j] = b[j]
        PROVE  Number(a) < Number(b)
    BY <1>4, FirstPlaceDecides
  <1>5. ASSUME Number(a) < Number(b)
        PROVE  \E i \in 1 .. Len(a) : a[i] < b[i] /\ \A j \in 1 .. i - 1 : a[j] = b[j]
    <2> DEFINE Differing == {i \in 1 .. n : a[i] # b[i]}
    <2>1. Differing # {}
      <3> SUFFICES ASSUME \A i \in 1 .. n : a[i] = b[i] PROVE FALSE
        OBVIOUS
      <3>1. a = b
        <4>1. PICK S : OctetStrings = Seq(S) /\ a \in Seq(S)
          BY OctetsInOrder, Zenon
        <4>2. b \in Seq(S)
          BY <4>1, Zenon
        <4> QED BY <1>1, <4>1, <4>2, SeqEqual
      <3> QED BY <1>3, <1>5, <3>1
    <2>2. PICK i \in Differing : \A k \in Differing : i <= k
      <3>1. Differing \in SUBSET Nat
        OBVIOUS
      <3> HIDE DEF Differing
      <3> QED BY <2>1, <3>1, LeastExists
    <2>3. i \in 1 .. n /\ a[i] # b[i]
      OBVIOUS
    <2>4. \A j \in 1 .. i - 1 : a[j] = b[j]
      <3> SUFFICES ASSUME NEW j \in 1 .. i - 1 PROVE a[j] = b[j]
        OBVIOUS
      <3>1. j \in 1 .. n /\ ~(i <= j)
        BY <2>3
      <3>2. j \notin Differing
        BY <2>2, <3>1
      <3> QED BY <3>1, <3>2
    <2> HIDE DEF Differing
    <2>5. CASE a[i] < b[i]
      BY <1>1, <2>3, <2>4, <2>5
    <2>6. CASE b[i] < a[i]
      <3>1. i \in 1 .. Len(b) /\ \A j \in 1 .. i - 1 : b[j] = a[j]
        BY <1>1, <2>3, <2>4
      <3>2. Number(b) < Number(a)
        BY <2>6, <3>1, FirstPlaceDecides
      <3> QED BY <1>3, <1>5, <3>2
    <2> QED BY <1>2, <2>3, <2>5, <2>6
  <1> QED BY <1>4, <1>5

\* Zeros in front add nothing.
LEMMA ZerosAddNothing ==
  ASSUME NEW v \in OctetStrings, NEW k \in 0 .. Len(v), \A i \in 1 .. k : v[i] = 0,
         NEW m \in OctetStrings, Len(m) = Len(v) - k, \A i \in 1 .. Len(m) : m[i] = v[k + i]
  PROVE  Number(m) = Number(v)
  <1>1. PICK n \in Nat, l \in Nat : n = Len(v) /\ l = Len(m) /\ n = k + l /\ k \in Nat
    BY OctetsInOrder
  <1>2. PICK u : Counts(v, u) /\ Number(v) = u[n]
    BY <1>1, NumberCounts
  <1>3. u \in [0 .. n -> Nat] /\ u[0] = 0 /\ \A i \in 1 .. n : u[i] = 256 * u[i - 1] + v[i]
    BY <1>1, <1>2 DEF Counts
  <1>4. u[k] = 0
    <2> DEFINE P == {i \in 0 .. k : u[i] = 0}
    <2>1. 0 \in P
      BY <1>1, <1>3
    <2>2. ASSUME NEW i \in 1 .. k, i - 1 \in P PROVE i \in P
      <3>1. i \in 1 .. n /\ v[i] = 0 /\ u[i - 1] = 0
        BY <1>1, <2>2
      <3>2. u[i] = 256 * 0 + 0
        BY <1>3, <3>1
      <3> QED BY <3>2
    <2> HIDE DEF P
    <2>3. \A i \in 0 .. k : i \in P
      BY <1>1, <2>1, <2>2, Stepwise
    <2>4. k \in P
      BY <1>1, <2>3
    <2> QED BY <2>4 DEF P
  <1>5. PICK w : w = [i \in 0 .. l |-> u[k + i]]
    OBVIOUS
  <1>6. Counts(m, w)
    <2>1. w \in [0 .. l -> Nat]
      <3>1. \A i \in 0 .. l : k + i \in 0 .. n
        BY <1>1
      <3> QED BY <1>3, <1>5, <3>1
    <2>2. w[0] = 0
      <3>1. 0 \in 0 .. l /\ k + 0 = k
        BY <1>1
      <3> QED BY <1>4, <1>5, <3>1
    <2>3. ASSUME NEW i \in 1 .. l PROVE w[i] = 256 * w[i - 1] + m[i]
      <3>1. i \in 0 .. l /\ i - 1 \in 0 .. l /\ k + i \in 1 .. n /\ (k + i) - 1 = k + (i - 1)
        BY <1>1
      <3>2. w[i] = u[k + i] /\ w[i - 1] = u[k + (i - 1)]
        BY <1>5, <3>1
      <3>3. u[k + i] = 256 * u[(k + i) - 1] + v[k + i]
        BY <1>3, <3>1
      <3>4. m[i] = v[k + i]
        BY <1>1
      <3> QED BY <3>1, <3>2, <3>3, <3>4
    <2> QED BY <1>1, <2>1, <2>2, <2>3 DEF Counts
  <1>7. Number(m) = w[l]
    BY <1>1, <1>6, CountIsNumber
  <1>8. w[l] = u[n]
    BY <1>1, <1>5
  <1> QED BY <1>2, <1>7, <1>8

\* Zeros in front of octets do not change the number.
LEMMA ZerosInFrontAddNothing ==
  ASSUME NEW a \in OctetStrings, NEW d \in Nat, NEW p, p = Zeros(d) \o a
  PROVE  /\ p \in OctetStrings /\ Len(p) = d + Len(a) /\ Number(p) = Number(a)
         /\ \A i \in 1 .. d : p[i] = 0
  <1>1. PICK S : S = 0 .. 255 /\ OctetStrings = Seq(S) /\ a \in Seq(S)
    BY OctetsInOrder, Zenon
  <1>2. PICK z \in Seq(S) : z = Zeros(d) /\ Len(z) = d /\ \A i \in 1 .. d : z[i] = 0
    <2>1. 0 \in S
      BY <1>1
    <2>2. Zeros(d) \in Seq(S) /\ Len(Zeros(d)) = d /\ \A i \in 1 .. d : Zeros(d)[i] = 0
      BY <2>1 DEF Zeros
    <2> QED BY <2>2, Zenon
  <1>3. p \in Seq(S) /\ Joins(z, a, p)
    <2>1. p = z \o a
      BY <1>2
    <2>2. a \in Seq(S)
      BY <1>1
    <2>3. z \o a \in Seq(S) /\ Joins(z, a, z \o a)
      BY <1>2, <2>2, AreJoined, Zenon
    <2> QED BY <2>1, <2>3, Zenon
  <1>4. Len(p) = d + Len(a) /\ (\A i \in 1 .. d : p[i] = 0) /\ \A i \in 1 .. Len(a) : p[d + i] = a[i]
    <2>1. /\ Len(p) = Len(z) + Len(a) /\ \A i \in 1 .. Len(z) : p[i] = z[i]
          /\ \A i \in 1 .. Len(a) : p[Len(z) + i] = a[i]
      BY <1>3, Zenon DEF Joins
    <2> QED BY <1>2, <2>1, Zenon
  <1>5. p \in OctetStrings /\ Len(a) \in Nat
    BY <1>1, <1>3, OctetsInOrder
  <1>6. d \in 0 .. Len(p) /\ Len(a) = Len(p) - d
    BY <1>4, <1>5
  <1>7. \A i \in 1 .. Len(a) : a[i] = p[d + i]
    BY <1>4
  <1>8. Number(a) = Number(p)
    BY <1>4, <1>5, <1>6, <1>7, ZerosAddNothing
  <1> QED BY <1>4, <1>5, <1>8

\* A magnitude has no zero in front, and is the same number.
LEMMA MagnitudeIsTrimmed ==
  ASSUME NEW v \in OctetStrings, NEW m, m = Magnitude(v)
  PROVE  /\ m \in OctetStrings /\ Len(m) <= Len(v) /\ Number(m) = Number(v)
         /\ m # <<>> => m[1] # 0
         /\ IsZero(v) <=> m = <<>>
  <1>1. PICK S : OctetStrings = Seq(S) /\ v \in Seq(S)
    BY OctetsInOrder, Zenon
  <1>2. PICK n \in Nat : n = Len(v) /\ DOMAIN v = 1 .. n
    BY <1>1
  <1>3. PICK from : from = {i \in DOMAIN v : v[i] # 0}
    OBVIOUS
  <1>4. IsZero(v) <=> from = {}
    BY <1>3 DEF IsZero
  <1>5. CASE from = {}
    <2>1. m = <<>>
      BY <1>3, <1>5 DEF Magnitude
    <2>2. m \in Seq(S) /\ Len(m) = 0
      BY <2>1
    <2>3. \A i \in 1 .. n : v[i] = 0
      BY <1>2, <1>3, <1>5
    <2>4. Number(m) = Number(v)
      <3>1. n \in 0 .. Len(v) /\ Len(m) = Len(v) - n /\ m \in OctetStrings
        BY <1>1, <1>2, <2>2
      <3>2. \A i \in 1 .. Len(m) : m[i] = v[n + i]
        BY <2>2
      <3> QED BY <2>3, <3>1, <3>2, ZerosAddNothing
    <2> QED BY <1>1, <1>2, <1>4, <1>5, <2>1, <2>2, <2>4
  <1>6. CASE from # {}
    <2>1. PICK i \in from : \A k \in from : i <= k
      <3>1. from \in SUBSET Nat
        BY <1>2, <1>3
      <3> QED BY <1>6, <3>1, LeastExists
    <2>2. i \in 1 .. n /\ v[i] # 0 /\ \A k \in from : k \in Int
      BY <1>2, <1>3
    <2>3. Min(from) = i
      <3>1. \A k \in from : k \in Int
        BY <2>2
      <3> QED BY <2>1, <3>1 DEF Min
    <2>4. PICK k \in Nat, l \in Nat : k = i - 1 /\ l = n - k /\ k + l = n /\ k + 1 = i /\ l > 0
      BY <2>2
    <2>5. m = SubSeq(v, k + 1, k + l)
      BY <1>2, <1>3, <1>6, <2>3, <2>4 DEF Magnitude
    <2>6. m \in Seq(S) /\ Len(m) = l /\ \A x \in 1 .. l : m[x] = v[k + x]
      <3>1. k + l <= Len(v)
        BY <1>2, <2>4
      <3>2. /\ SubSeq(v, k + 1, k + l) \in Seq(S) /\ Len(SubSeq(v, k + 1, k + l)) = l
            /\ \A x \in 1 .. l : SubSeq(v, k + 1, k + l)[x] = v[k + x]
        BY <1>1, <3>1, Seen
      <3> QED BY <2>5, <3>2, Zenon
    <2>7. \A x \in 1 .. k : v[x] = 0
      <3> SUFFICES ASSUME NEW x \in 1 .. k PROVE v[x] = 0
        OBVIOUS
      <3>1. x \in 1 .. n /\ ~(i <= x)
        BY <2>2, <2>4
      <3> QED BY <1>2, <1>3, <2>1, <3>1
    <2>8. m[1] # 0 /\ m # <<>>
      <3>1. m[1] = v[k + 1]
        BY <2>4, <2>6
      <3> QED BY <2>2, <2>4, <2>6, <3>1
    <2>9. Number(m) = Number(v)
      <3>1. k \in 0 .. Len(v) /\ Len(m) = Len(v) - k /\ m \in OctetStrings
        BY <1>1, <1>2, <2>4, <2>6
      <3>2. \A x \in 1 .. Len(m) : m[x] = v[k + x]
        BY <2>6
      <3> QED BY <2>7, <3>1, <3>2, ZerosAddNothing
    <2>10. m \in OctetStrings
      BY <1>1, <2>6, Zenon
    <2>11. Len(m) <= Len(v)
      BY <1>2, <2>4, <2>6
    <2> QED BY <1>4, <1>6, <2>8, <2>9, <2>10, <2>11, Zenon
  <1> QED BY <1>5, <1>6

\* The longer of two numbers without a zero in front is the bigger one.
LEMMA LengthDecides ==
  ASSUME NEW a \in OctetStrings, NEW b \in OctetStrings, Len(a) < Len(b), b[1] # 0
  PROVE  Number(a) < Number(b)
  <1>1. Len(a) \in Nat /\ Len(b) \in Nat
    BY OctetsInOrder
  <1>2. PICK d \in Nat : d = Len(b) - Len(a) /\ d > 0
    BY <1>1
  <1>3. PICK p : p = Zeros(d) \o a
    OBVIOUS
  <1>4. p \in OctetStrings /\ Len(p) = d + Len(a) /\ Number(p) = Number(a) /\ \A i \in 1 .. d : p[i] = 0
    BY <1>3, ZerosInFrontAddNothing
  <1>5. Len(p) = Len(b) /\ 1 \in 1 .. Len(p) /\ p[1] = 0
    BY <1>1, <1>2, <1>4
  <1>6. p[1] < b[1]
    <2>1. b[1] \in Int /\ 0 <= b[1]
      BY <1>5, OctetsAreNumbers
    <2> QED BY <1>5, <2>1
  <1>7. \A k \in 1 .. 1 - 1 : p[k] = b[k]
    OBVIOUS
  <1>8. Number(p) < Number(b)
    BY <1>4, <1>5, <1>6, <1>7, FirstPlaceDecides
  <1> QED BY <1>4, <1>8

\* cmp compares numbers.
LEMMA LessIsSmaller ==
  ASSUME NEW a \in OctetStrings, NEW b \in OctetStrings
  PROVE  /\ IsLess(a, b) <=> Number(a) < Number(b)
         /\ IsLess(a, b) => Len(Magnitude(a)) <= Len(b)
  <1>1. PICK m, q : m = Magnitude(a) /\ q = Magnitude(b)
    OBVIOUS
  <1>2. /\ m \in OctetStrings /\ q \in OctetStrings /\ Number(m) = Number(a) /\ Number(q) = Number(b)
        /\ (m # <<>> => m[1] # 0) /\ (q # <<>> => q[1] # 0) /\ Len(q) <= Len(b)
    BY <1>1, MagnitudeIsTrimmed
  <1>3. Len(m) \in Nat /\ Len(q) \in Nat /\ Len(b) \in Nat
    BY <1>2, OctetsInOrder
  <1>4. DOMAIN m = 1 .. Len(m) /\ (Len(m) > 0 => m # <<>>) /\ (Len(q) > 0 => q # <<>>)
    <2>1. PICK S : OctetStrings = Seq(S) /\ m \in Seq(S)
      BY <1>2, OctetsInOrder, Zenon
    <2>2. q \in Seq(S)
      BY <1>2, <2>1, Zenon
    <2> QED BY <2>1, <2>2
  <1>5. Number(m) \in Nat /\ Number(q) \in Nat
    BY <1>2, NumberCounts, CountIsNumber
  <1>6. IsLess(a, b) <=> Smaller(m, q)
    BY <1>1 DEF IsLess
  <1>7. CASE Len(m) < Len(q)
    <2>1. Smaller(m, q)
      BY <1>7 DEF Smaller
    <2>2. Number(m) < Number(q)
      BY <1>2, <1>3, <1>4, <1>7, LengthDecides
    <2> QED BY <1>1, <1>2, <1>3, <1>6, <1>7, <2>1, <2>2
  <1>8. CASE Len(m) = Len(q)
    <2>1. Smaller(m, q) <=> \E i \in 1 .. Len(m) : m[i] < q[i] /\ \A j \in 1 .. i - 1 : m[j] = q[j]
      BY <1>3, <1>4, <1>8 DEF Smaller
    <2>2. Smaller(m, q) <=> Number(m) < Number(q)
      BY <1>2, <1>8, <2>1, PlacesDecide
    <2> QED BY <1>1, <1>2, <1>3, <1>6, <1>8, <2>2
  <1>9. CASE Len(q) < Len(m)
    <2>1. ~Smaller(m, q)
      BY <1>3, <1>9 DEF Smaller
    <2>2. Number(q) < Number(m)
      BY <1>2, <1>3, <1>4, <1>9, LengthDecides
    <2>3. ~(Number(m) < Number(q))
      BY <1>5, <2>2
    <2> QED BY <1>2, <1>6, <2>1, <2>3
  <1> QED BY <1>3, <1>7, <1>8, <1>9

\* in_range asks for a number from 1 to the order less one.
LEMMA InRangeIsBetween ==
  ASSUME NEW s \in OctetStrings, NEW order \in OctetStrings
  PROVE  InRange(s, order) <=> Number(s) \in 1 .. Number(order) - 1
  <1>1. Number(s) \in Nat /\ Number(order) \in Nat
    BY NumberCounts, CountIsNumber
  <1>2. PICK m : m = Magnitude(s)
    OBVIOUS
  <1>3. m \in OctetStrings /\ Number(m) = Number(s) /\ (m # <<>> => m[1] # 0) /\ (IsZero(s) <=> m = <<>>)
    BY <1>2, MagnitudeIsTrimmed
  <1>4. <<>> \in OctetStrings /\ Len(<<>>) = 0
    <2>1. PICK S : OctetStrings = Seq(S)
      BY OctetsInOrder, Zenon
    <2>2. <<>> \in Seq(S) /\ Len(<<>>) = 0
      OBVIOUS
    <2> QED BY <2>1, <2>2, Zenon
  <1>5. Number(<<>>) = 0
    <2>1. PICK u : Counts(<<>>, u) /\ Number(<<>>) = u[Len(<<>>)]
      BY <1>4, NumberCounts, Zenon
    <2> QED BY <1>4, <2>1 DEF Counts
  <1>6. m # <<>> => 0 < Number(m)
    <2> SUFFICES ASSUME m # <<>> PROVE 0 < Number(m)
      OBVIOUS
    <2>1. Len(<<>>) < Len(m)
      BY <1>3, <1>4, OctetsInOrder
    <2>2. Number(<<>>) < Number(m)
      BY <1>3, <1>4, <2>1, LengthDecides
    <2> QED BY <1>5, <2>2
  <1>7. IsZero(s) <=> Number(s) = 0
    BY <1>1, <1>3, <1>5, <1>6
  <1>8. IsLess(s, order) <=> Number(s) < Number(order)
    BY LessIsSmaller
  <1> QED BY <1>1, <1>7, <1>8 DEF InRange

-----------------------------------------------------------------------------
\* A loop from the right carries a bit to every place.
LEMMA CarryExists ==
  ASSUME NEW n \in Nat, NEW advance \in [1 .. n -> [{0, 1} -> {0, 1}]]
  PROVE  \E w \in [1 .. n + 1 -> {0, 1}] : w[n + 1] = 0 /\ \A i \in 1 .. n : w[i] = advance[i][w[i + 1]]
  <1> DEFINE turned == [k \in 1 .. n |-> advance[n + 1 - k]]
  <1>1. turned \in [1 .. n -> [{0, 1} -> {0, 1}]]
    <2>1. \A k \in 1 .. n : n + 1 - k \in 1 .. n
      OBVIOUS
    <2> QED BY <2>1
  <1>2. PICK u \in Loops(n, {0, 1}, 0, turned) : TRUE
    <2> HIDE DEF turned
    <2>1. Loops(n, {0, 1}, 0, turned) # {}
      BY <1>1, LoopExists
    <2> QED BY <2>1
  <1>3. u \in [0 .. n -> {0, 1}] /\ u[0] = 0 /\ \A k \in 1 .. n : u[k] = turned[k][u[k - 1]]
    <2> HIDE DEF turned
    <2> QED BY <1>2 DEF Loops
  <1>4. PICK w : w = [i \in 1 .. n + 1 |-> u[n + 1 - i]]
    OBVIOUS
  <1>5. w \in [1 .. n + 1 -> {0, 1}]
    <2>1. \A i \in 1 .. n + 1 : n + 1 - i \in 0 .. n
      OBVIOUS
    <2>2. \A i \in 1 .. n + 1 : u[n + 1 - i] \in {0, 1}
      BY <1>3, <2>1
    <2> QED BY <1>4, <2>2
  <1>6. w[n + 1] = 0
    <2>1. n + 1 \in 1 .. n + 1 /\ n + 1 - (n + 1) = 0
      OBVIOUS
    <2> QED BY <1>3, <1>4, <2>1
  <1>7. ASSUME NEW i \in 1 .. n PROVE w[i] = advance[i][w[i + 1]]
    <2>1. PICK k \in 1 .. n : k = n + 1 - i /\ n + 1 - k = i /\ k - 1 = n + 1 - (i + 1)
      <3>1. n + 1 - i \in 1 .. n /\ n + 1 - (n + 1 - i) = i /\ (n + 1 - i) - 1 = n + 1 - (i + 1)
        OBVIOUS
      <3> QED BY <3>1
    <2>2. i \in 1 .. n + 1 /\ i + 1 \in 1 .. n + 1
      OBVIOUS
    <2>3. w[i] = u[k] /\ w[i + 1] = u[k - 1]
      BY <1>4, <2>1, <2>2
    <2>4. u[k] = advance[i][u[k - 1]]
      BY <1>3, <2>1
    <2> QED BY <2>3, <2>4
  <1> QED BY <1>5, <1>6, <1>7

\* Two loops from the right that agree at the end and take the same steps are the same.
LEMMA CarriesAreOne ==
  ASSUME NEW n \in Nat, NEW u, NEW w, u[n + 1] = w[n + 1],
         \A i \in 1 .. n : u[i + 1] = w[i + 1] => u[i] = w[i]
  PROVE  \A i \in 1 .. n + 1 : u[i] = w[i]
  <1> DEFINE P == {k \in 0 .. n : u[n + 1 - k] = w[n + 1 - k]}
  <1>1. 0 \in P
    <2>1. n + 1 - 0 = n + 1
      OBVIOUS
    <2> QED BY <2>1
  <1>2. ASSUME NEW k \in 1 .. n, k - 1 \in P PROVE k \in P
    <2>1. n + 1 - k \in 1 .. n /\ n + 1 - (k - 1) = (n + 1 - k) + 1 /\ k \in 0 .. n
      OBVIOUS
    <2>2. u[n + 1 - (k - 1)] = w[n + 1 - (k - 1)]
      BY <1>2
    <2>3. u[n + 1 - k] = w[n + 1 - k]
      BY <2>1, <2>2
    <2> QED BY <2>1, <2>3
  <1> HIDE DEF P
  <1>3. \A k \in 0 .. n : k \in P
    BY <1>1, <1>2, Stepwise
  <1> SUFFICES ASSUME NEW i \in 1 .. n + 1 PROVE u[i] = w[i]
    OBVIOUS
  <1>4. n + 1 - i \in P /\ n + 1 - (n + 1 - i) = i
    BY <1>3
  <1> QED BY <1>4 DEF P

\* y is a carry and an octet.
CarriesAnOctet(y) ==
  y \div BYTE \in {0, 1} /\ y % BYTE \in 0 .. 255 /\ y = 256 * (y \div BYTE) + (y % BYTE)

\* Twice an octet and a carry is a carry and an octet.
LEMMA TwiceAnOctet ==
  ASSUME NEW a \in Int, 0 <= a, a < 256, NEW x \in {0, 1}
  PROVE  CarriesAnOctet(2 * a + x)
  <1>1. PICK y \in Int : y = 2 * a + x /\ 0 <= y /\ y < 512
    OBVIOUS
  <1>2. y \div 256 \in {0, 1} /\ y % 256 \in 0 .. 255 /\ y = 256 * (y \div 256) + (y % 256)
    BY <1>1
  <1> QED BY <1>1, <1>2 DEF BYTE, CarriesAnOctet

\* Twice a number whose first octet is zero, one carry behind at every place.
LEMMA DoubledIsTwice ==
  ASSUME NEW wide \in OctetStrings, wide # <<>>, wide[1] = 0, NEW d, d = Doubled(wide)
  PROVE  d \in OctetStrings /\ Number(d) = 2 * Number(wide)
  <1> DEFINE n == Len(wide)
             body(u) == [i \in 1 .. n + 1 |-> IF i > n THEN 0 ELSE (2 * wide[i] + u[i + 1]) \div BYTE]
             u == CHOOSE u : u = body(u)
             advance == [i \in 1 .. n |-> [x \in {0, 1} |-> (2 * wide[i] + x) \div BYTE]]
  <1>1. n \in Nat /\ n > 0 /\ \A i \in 1 .. n : wide[i] \in Int /\ 0 <= wide[i] /\ wide[i] < 256
    BY OctetsAreNumbers, OctetsInOrder
  <1>2. DOMAIN wide = 1 .. n
    <2>1. PICK S : OctetStrings = Seq(S) /\ wide \in Seq(S)
      BY OctetsInOrder, Zenon
    <2> QED BY <2>1
  <1>3. d = [i \in 1 .. n |-> (2 * wide[i] + u[i + 1]) % BYTE]
    BY <1>2 DEF Doubled, n
  <1> HIDE DEF n
  <1>4. \A i \in 1 .. n : \A x \in {0, 1} :
          /\ (2 * wide[i] + x) \div BYTE \in {0, 1}
          /\ (2 * wide[i] + x) % BYTE \in 0 .. 255
          /\ 2 * wide[i] + x = 256 * ((2 * wide[i] + x) \div BYTE) + ((2 * wide[i] + x) % BYTE)
    <2> SUFFICES ASSUME NEW i \in 1 .. n, NEW x \in {0, 1}
                 PROVE  /\ (2 * wide[i] + x) \div BYTE \in {0, 1}
                        /\ (2 * wide[i] + x) % BYTE \in 0 .. 255
                        /\ 2 * wide[i] + x = 256 * ((2 * wide[i] + x) \div BYTE) + ((2 * wide[i] + x) % BYTE)
      OBVIOUS
    <2> HIDE DEF u, body, advance
    <2>1. PICK a : a = wide[i] /\ a \in Int /\ 0 <= a /\ a < 256
      BY <1>1
    <2>2. CarriesAnOctet(2 * a + x)
      BY <2>1, TwiceAnOctet, Zenon
    <2> QED BY <2>1, <2>2, Zenon DEF CarriesAnOctet
  <1>5. PICK w \in [1 .. n + 1 -> {0, 1}] : w[n + 1] = 0 /\ \A i \in 1 .. n : w[i] = advance[i][w[i + 1]]
    <2>1. advance \in [1 .. n -> [{0, 1} -> {0, 1}]]
      BY <1>4
    <2> HIDE DEF advance
    <2> QED BY <1>1, <2>1, CarryExists
  <1>6. \A i \in 1 .. n : w[i + 1] \in {0, 1} /\ w[i] \in {0, 1}
    BY <1>1, <1>5
  <1>7. \A i \in 1 .. n : w[i] = (2 * wide[i] + w[i + 1]) \div BYTE
    BY <1>5, <1>6
  <1>8. w = body(w)
    <2>1. w = [i \in 1 .. n + 1 |-> w[i]]
      BY <1>5
    <2>2. \A i \in 1 .. n + 1 : w[i] = IF i > n THEN 0 ELSE (2 * wide[i] + w[i + 1]) \div BYTE
      <3>1. \A i \in 1 .. n + 1 : (i > n /\ i = n + 1) \/ (~(i > n) /\ i \in 1 .. n)
        BY <1>1
      <3> QED BY <1>5, <1>7, <3>1
    <2> QED BY <2>1, <2>2
  <1>9. u = body(u)
    <2> HIDE DEF body
    <2> QED BY <1>8
  <1>10. \A i \in 1 .. n + 1 : u[i] = IF i > n THEN 0 ELSE (2 * wide[i] + u[i + 1]) \div BYTE
    <2> HIDE DEF u
    <2> QED BY <1>9
  <1> HIDE DEF u, body, advance
  <1>11. \A i \in 1 .. n + 1 : u[i] = w[i]
    <2>1. u[n + 1] = w[n + 1]
      BY <1>1, <1>5, <1>10
    <2>2. ASSUME NEW i \in 1 .. n, u[i + 1] = w[i + 1] PROVE u[i] = w[i]
      <3>1. i \in 1 .. n + 1 /\ ~(i > n)
        BY <1>1
      <3> QED BY <1>7, <1>10, <2>2, <3>1
    <2> QED BY <1>1, <2>1, <2>2, CarriesAreOne
  <1>12. d = [i \in 1 .. n |-> (2 * wide[i] + w[i + 1]) % BYTE]
    <2>1. \A i \in 1 .. n : u[i + 1] = w[i + 1]
      BY <1>1, <1>11
    <2> QED BY <1>3, <2>1
  <1>13. d \in OctetStrings /\ Len(d) = n
    <2>1. PICK S : S = 0 .. 255 /\ OctetStrings = Seq(S)
      BY OctetsInOrder, Zenon
    <2>2. \A i \in 1 .. n : (2 * wide[i] + w[i + 1]) % BYTE \in S
      BY <1>4, <1>6, <2>1
    <2>3. d \in Seq(S) /\ Len(d) = n
      BY <1>1, <1>12, <2>2
    <2> QED BY <2>1, <2>3
  <1>14. PICK x : Counts(wide, x) /\ Number(wide) = x[n]
    BY NumberCounts DEF n
  <1>15. x \in [0 .. n -> Nat] /\ x[0] = 0 /\ \A i \in 1 .. n : x[i] = 256 * x[i - 1] + wide[i]
    BY <1>14 DEF Counts, n
  <1>16. PICK y : y = [i \in 0 .. n |-> 2 * x[i] + w[i + 1]]
    OBVIOUS
  <1>17. Counts(d, y)
    <2>1. y \in [0 .. n -> Nat]
      <3>1. \A i \in 0 .. n : i + 1 \in 1 .. n + 1
        BY <1>1
      <3>2. \A i \in 0 .. n : w[i + 1] \in Nat /\ x[i] \in Nat
        BY <1>5, <1>15, <3>1
      <3> QED BY <1>16, <3>2
    <2>2. y[0] = 0
      <3>1. w[1] = (2 * 0 + w[1 + 1]) \div 256 /\ w[1 + 1] \in {0, 1}
        BY <1>1, <1>6, <1>7 DEF BYTE
      <3>2. w[1] = 0
        BY <3>1
      <3>3. 0 \in 0 .. n /\ 0 + 1 = 1
        BY <1>1
      <3>4. y[0] = 2 * x[0] + w[1]
        BY <1>16, <3>3
      <3> QED BY <1>15, <3>2, <3>4
    <2>3. ASSUME NEW i \in 1 .. n PROVE y[i] = 256 * y[i - 1] + d[i]
      <3>1. i \in 0 .. n /\ i - 1 \in 0 .. n /\ (i - 1) + 1 = i
        BY <1>1
      <3>2. PICK p \in Nat, a \in Int, b \in Int, c \in Int, e \in Int :
              p = x[i - 1] /\ a = wide[i] /\ b = w[i] /\ c = w[i + 1] /\ e = d[i]
        <4>1. d[i] \in Int
          BY <1>13, OctetsAreNumbers
        <4>2. x[i - 1] \in Nat
          BY <1>15, <3>1
        <4>3. wide[i] \in Int
          BY <1>1
        <4>4. w[i] \in Int /\ w[i + 1] \in Int
          <5>1. w[i] \in {0, 1} /\ w[i + 1] \in {0, 1}
            BY <1>6
          <5> QED BY <5>1
        <4> QED BY <4>1, <4>2, <4>3, <4>4
      <3>3. y[i] = 2 * x[i] + c /\ y[i - 1] = 2 * p + b /\ x[i] = 256 * p + a
        <4>1. y[i] = 2 * x[i] + w[i + 1]
          BY <1>16, <3>1
        <4>2. y[i - 1] = 2 * x[i - 1] + w[i]
          BY <1>16, <3>1
        <4>3. x[i] = 256 * x[i - 1] + wide[i]
          BY <1>15
        <4> QED BY <3>2, <4>1, <4>2, <4>3
      <3>4. 2 * a + c = 256 * b + e
        <4>1. c \in {0, 1}
          BY <1>6, <3>2
        <4>2. 2 * wide[i] + c = 256 * ((2 * wide[i] + c) \div BYTE) + ((2 * wide[i] + c) % BYTE)
          BY <1>4, <4>1
        <4>3. b = (2 * wide[i] + c) \div BYTE
          BY <1>7, <3>2
        <4>4. e = (2 * wide[i] + c) % BYTE
          BY <1>12, <3>2
        <4> QED BY <3>2, <4>2, <4>3, <4>4
      <3>5. PICK v \in Nat : v = x[i]
        BY <1>15, <3>1
      <3>6. 2 * v + c = 256 * (2 * p + b) + e
        BY <3>3, <3>4, <3>5
      <3> QED BY <3>2, <3>3, <3>5, <3>6
    <2> QED BY <1>13, <2>1, <2>2, <2>3 DEF Counts
  <1>18. Number(d) = y[n]
    BY <1>13, <1>17, CountIsNumber
  <1>19. y[n] = 2 * x[n]
    BY <1>1, <1>5, <1>15, <1>16
  <1> QED BY <1>13, <1>14, <1>18, <1>19

\* is_high asks whether twice the number is more than the order.
LEMMA HighIsMoreThanHalf ==
  ASSUME NEW s \in OctetStrings, NEW order \in OctetStrings
  PROVE  IsHigh(s, order) <=> Number(order) < 2 * Number(s)
  <1>1. PICK S : S = 0 .. 255 /\ OctetStrings = Seq(S)
    BY OctetsInOrder, Zenon
  <1>2. PICK m : m = Magnitude(s)
    OBVIOUS
  <1>3. m \in OctetStrings /\ Number(m) = Number(s)
    BY <1>2, MagnitudeIsTrimmed
  <1>4. PICK wide : wide = Zeros(1) \o m
    OBVIOUS
  <1>5. wide \in OctetStrings /\ Len(wide) = 1 + Len(m) /\ Number(wide) = Number(m) /\ \A i \in 1 .. 1 : wide[i] = 0
    BY <1>3, <1>4, ZerosInFrontAddNothing
  <1>6. wide # <<>> /\ wide[1] = 0
    <2>1. Len(wide) > 0
      BY <1>3, <1>5, OctetsInOrder
    <2> QED BY <1>5, <2>1
  <1>7. Zeros(1) = <<0>>
    <2>1. Zeros(1) \in Seq(S) /\ <<0>> \in Seq(S) /\ Len(Zeros(1)) = 1 /\ Len(<<0>>) = 1
      <3>1. 0 \in S
        BY <1>1
      <3> QED BY <3>1 DEF Zeros
    <2>2. \A i \in 1 .. 1 : Zeros(1)[i] = <<0>>[i]
      BY DEF Zeros
    <2> QED BY <2>1, <2>2, SeqEqual
  <1>8. PICK d : d = Double(s)
    OBVIOUS
  <1>9. d = Doubled(wide)
    BY <1>2, <1>4, <1>7, <1>8 DEF Double
  <1>10. d \in OctetStrings /\ Number(d) = 2 * Number(wide)
    BY <1>5, <1>6, <1>9, DoubledIsTwice
  <1>11. IsLess(order, d) <=> Number(order) < Number(d)
    BY <1>10, LessIsSmaller
  <1> QED BY <1>3, <1>5, <1>8, <1>10, <1>11 DEF IsHigh

\* A difference of octets, less a borrow, is an octet less a borrow of the next place.
LEMMA OctetsApart ==
  ASSUME NEW y \in Int, -256 <= y, y < 256, NEW z, z = IF y >= 0 THEN 0 ELSE 1
  PROVE  y % 256 \in 0 .. 255 /\ y % 256 = y + 256 * z
  <1>1. CASE y >= 0
    <2>1. y % 256 = y /\ z = 0 /\ y \in 0 .. 255
      BY <1>1
    <2> QED BY <2>1
  <1>2. CASE y < 0
    <2>1. y % 256 = y + 256 /\ z = 1 /\ y + 256 \in 0 .. 255
      BY <1>2
    <2> QED BY <2>1
  <1> QED BY <1>1, <1>2

\* What one column adds to the numbers and their difference.
LEMMA ColumnSubtracts ==
  ASSUME NEW a \in Int, NEW b \in Int, NEW c \in Int, NEW v \in Int, NEW x \in Int, NEW l \in Int, NEW m \in Int,
         c = a - b - x + 256 * v, 0 <= c, c < 256
  PROVE  /\ l < m + v => 256 * l + a < 256 * m + b + x
         /\ (256 * l + a) - (256 * m + b) - x = 256 * (l - m - v) + c
  <1>1. PICK l2 \in Int, m2 \in Int, v2 \in Int : l2 = 256 * l /\ m2 = 256 * m /\ v2 = 256 * v
    OBVIOUS
  <1>2. c = a - b - x + v2 /\ 256 * (l - m - v) = l2 - m2 - v2
    BY <1>1
  <1>3. l < m + v => l2 + 256 <= m2 + v2
    <2> SUFFICES ASSUME l < m + v PROVE l2 + 256 <= m2 + v2
      OBVIOUS
    <2>1. l + 1 <= m + v
      OBVIOUS
    <2> QED BY <1>1, <2>1
  <1>4. l < m + v => l2 + a < m2 + b + x
    BY <1>1, <1>2, <1>3
  <1>5. (l2 + a) - (m2 + b) - x = (l2 - m2 - v2) + c
    BY <1>1, <1>2
  <1> QED BY <1>1, <1>2, <1>4, <1>5

\* Subtracted octet by octet, with borrows, is the difference of the numbers.
LEMMA MinusIsDifference ==
  ASSUME NEW o \in OctetStrings, NEW s \in OctetStrings, Len(s) = Len(o), Number(s) <= Number(o),
         NEW d, d = Minus(o, s)
  PROVE  d \in OctetStrings /\ Len(d) = Len(o) /\ Number(d) = Number(o) - Number(s)
  <1> DEFINE n == Len(o)
             body(u) == [i \in 1 .. n + 1 |-> IF i > n \/ o[i] - s[i] - u[i + 1] >= 0 THEN 0 ELSE 1]
             u == CHOOSE u : u = body(u)
             advance == [i \in 1 .. n |-> [x \in {0, 1} |-> IF o[i] - s[i] - x >= 0 THEN 0 ELSE 1]]
  <1>1. /\ n \in Nat /\ n = Len(s)
        /\ \A i \in 1 .. n : o[i] \in Int /\ 0 <= o[i] /\ o[i] < 256
        /\ \A i \in 1 .. n : s[i] \in Int /\ 0 <= s[i] /\ s[i] < 256
    BY OctetsAreNumbers, OctetsInOrder
  <1>2. DOMAIN o = 1 .. n
    <2>1. PICK S : OctetStrings = Seq(S) /\ o \in Seq(S)
      BY OctetsInOrder, Zenon
    <2> QED BY <2>1
  <1>3. d = [i \in 1 .. n |-> (o[i] - s[i] - u[i + 1]) % BYTE]
    BY <1>2 DEF Minus, n
  <1> HIDE DEF n
  <1>4. PICK w \in [1 .. n + 1 -> {0, 1}] : w[n + 1] = 0 /\ \A i \in 1 .. n : w[i] = advance[i][w[i + 1]]
    <2>1. advance \in [1 .. n -> [{0, 1} -> {0, 1}]]
      BY <1>1
    <2> HIDE DEF advance
    <2> QED BY <1>1, <2>1, CarryExists
  <1>5. \A i \in 1 .. n : w[i + 1] \in {0, 1} /\ w[i] \in {0, 1}
    <2> HIDE DEF u, body, advance
    <2>1. \A i \in 1 .. n : i \in 1 .. n + 1 /\ i + 1 \in 1 .. n + 1
      BY <1>1
    <2> QED BY <1>4, <2>1
  <1>6. \A i \in 1 .. n : w[i] = IF o[i] - s[i] - w[i + 1] >= 0 THEN 0 ELSE 1
    BY <1>4, <1>5
  <1>7. w = body(w)
    <2>1. w = [i \in 1 .. n + 1 |-> w[i]]
      BY <1>4
    <2>2. \A i \in 1 .. n + 1 : w[i] = IF i > n \/ o[i] - s[i] - w[i + 1] >= 0 THEN 0 ELSE 1
      <3>1. \A i \in 1 .. n + 1 : (i > n /\ i = n + 1) \/ (~(i > n) /\ i \in 1 .. n)
        BY <1>1
      <3> QED BY <1>4, <1>6, <3>1
    <2> QED BY <2>1, <2>2
  <1>8. u = body(u)
    <2> HIDE DEF body
    <2> QED BY <1>7
  <1>9. \A i \in 1 .. n + 1 : u[i] = IF i > n \/ o[i] - s[i] - u[i + 1] >= 0 THEN 0 ELSE 1
    <2> HIDE DEF u
    <2> QED BY <1>8
  <1> HIDE DEF u, body, advance
  <1>10. \A i \in 1 .. n + 1 : u[i] = w[i]
    <2>1. u[n + 1] = w[n + 1]
      BY <1>1, <1>4, <1>9
    <2>2. ASSUME NEW i \in 1 .. n, u[i + 1] = w[i + 1] PROVE u[i] = w[i]
      <3>1. i \in 1 .. n + 1 /\ ~(i > n)
        BY <1>1
      <3>2. u[i] = IF o[i] - s[i] - u[i + 1] >= 0 THEN 0 ELSE 1
        BY <1>9, <3>1
      <3>3. w[i] = IF o[i] - s[i] - w[i + 1] >= 0 THEN 0 ELSE 1
        BY <1>6, <2>2, Zenon
      <3> QED BY <2>2, <3>2, <3>3
    <2>3. \A i \in 1 .. n : u[i + 1] = w[i + 1] => u[i] = w[i]
      BY <2>2, Zenon
    <2>4. n \in Nat
      BY <1>1, Zenon
    <2> QED BY <2>1, <2>3, <2>4, CarriesAreOne, SMTT(30)
  <1>11. d = [i \in 1 .. n |-> (o[i] - s[i] - w[i + 1]) % BYTE]
    <2>1. \A i \in 1 .. n : u[i + 1] = w[i + 1]
      BY <1>1, <1>10
    <2> QED BY <1>3, <2>1
  <1>12. \A i \in 1 .. n : (o[i] - s[i] - w[i + 1]) % BYTE \in 0 .. 255 /\ d[i] = o[i] - s[i] - w[i + 1] + 256 * w[i]
    <2> SUFFICES ASSUME NEW i \in 1 .. n
                 PROVE  /\ (o[i] - s[i] - w[i + 1]) % BYTE \in 0 .. 255
                        /\ d[i] = o[i] - s[i] - w[i + 1] + 256 * w[i]
      OBVIOUS
    <2>1. PICK a, b, x : /\ a = o[i] /\ a \in Int /\ 0 <= a /\ a < 256
                         /\ b = s[i] /\ b \in Int /\ 0 <= b /\ b < 256
                         /\ x = w[i + 1] /\ x \in {0, 1}
      BY <1>1, <1>5
    <2>2. PICK z : z = IF a - b - x >= 0 THEN 0 ELSE 1
      OBVIOUS
    <2>3. (a - b - x) % BYTE \in 0 .. 255 /\ a - b - x + 256 * z = (a - b - x) % BYTE
      <3>1. PICK y : y = a - b - x
        OBVIOUS
      <3>2. y \in Int
        BY <2>1, <3>1
      <3>3. -256 <= y /\ y < 256
        <4>1. x \in Int /\ 0 <= x /\ x <= 1
          BY <2>1
        <4>2. a \in Int /\ 0 <= a /\ a <= 255
          BY <2>1
        <4>3. b \in Int /\ 0 <= b /\ b <= 255
          BY <2>1
        <4> QED BY <3>1, <4>1, <4>2, <4>3
      <3>4. z = IF y >= 0 THEN 0 ELSE 1
        BY <2>2, <3>1
      <3>5. y % 256 \in 0 .. 255 /\ y % 256 = y + 256 * z
        BY <3>2, <3>3, <3>4, OctetsApart
      <3>6. (a - b - x) % BYTE = y % 256
        BY <3>1 DEF BYTE
      <3>7. a - b - x + 256 * z = y + 256 * z
        BY <3>1
      <3> QED BY <3>5, <3>6, <3>7
    <2>4. w[i] = z
      BY <1>6, <2>1, <2>2
    <2>5. d[i] = (a - b - x) % BYTE
      BY <1>11, <2>1
    <2> QED BY <2>1, <2>3, <2>4, <2>5
  <1>13. d \in OctetStrings /\ Len(d) = n
    <2>1. PICK S : S = 0 .. 255 /\ OctetStrings = Seq(S)
      BY OctetsInOrder, Zenon
    <2>2. \A i \in 1 .. n : (o[i] - s[i] - w[i + 1]) % BYTE \in S
      BY <1>12, <2>1
    <2>3. d \in Seq(S) /\ Len(d) = n
      BY <1>1, <1>11, <2>2
    <2> QED BY <2>1, <2>3
  <1>14. PICK p : Counts(o, p) /\ Number(o) = p[n]
    BY NumberCounts DEF n
  <1>15. PICK q : Counts(s, q) /\ Number(s) = q[n]
    BY <1>1, NumberCounts
  <1>16. /\ p \in [0 .. n -> Nat] /\ p[0] = 0 /\ \A i \in 1 .. n : p[i] = 256 * p[i - 1] + o[i]
         /\ q \in [0 .. n -> Nat] /\ q[0] = 0 /\ \A i \in 1 .. n : q[i] = 256 * q[i - 1] + s[i]
    BY <1>1, <1>14, <1>15 DEF Counts, n
  <1>17. ASSUME NEW i \in 1 .. n
         PROVE  /\ p[i - 1] < q[i - 1] + w[i] => p[i] < q[i] + w[i + 1]
                /\ p[i] - q[i] - w[i + 1] = 256 * (p[i - 1] - q[i - 1] - w[i]) + d[i]
    <2>1. i - 1 \in 0 .. n
      BY <1>1
    <2>2. p[i - 1] \in Int /\ q[i - 1] \in Int
      BY <1>16, <2>1
    <2>3. d[i] \in Int /\ 0 <= d[i] /\ d[i] < 256
      BY <1>13, OctetsAreNumbers
    <2>4. o[i] \in Int /\ s[i] \in Int
      BY <1>1
    <2>5. w[i] \in Int /\ w[i + 1] \in Int
      <3>1. w[i] \in {0, 1} /\ w[i + 1] \in {0, 1}
        BY <1>5
      <3> QED BY <3>1
    <2>6. d[i] = o[i] - s[i] - w[i + 1] + 256 * w[i]
      BY <1>12
    <2>7. p[i] = 256 * p[i - 1] + o[i] /\ q[i] = 256 * q[i - 1] + s[i]
      BY <1>16
    <2>8. PICK a, b, c, v, x, l, m : /\ a = o[i] /\ b = s[i] /\ c = d[i] /\ v = w[i] /\ x = w[i + 1]
                                     /\ l = p[i - 1] /\ m = q[i - 1]
      OBVIOUS
    <2>9. /\ a \in Int /\ b \in Int /\ c \in Int /\ v \in Int /\ x \in Int /\ l \in Int /\ m \in Int
          /\ c = a - b - x + 256 * v /\ 0 <= c /\ c < 256
      BY <2>2, <2>3, <2>4, <2>5, <2>6, <2>8
    <2>10. /\ l < m + v => 256 * l + a < 256 * m + b + x
           /\ (256 * l + a) - (256 * m + b) - x = 256 * (l - m - v) + c
      BY <2>9, ColumnSubtracts
    <2>11. p[i] = 256 * l + a /\ q[i] = 256 * m + b
      BY <2>7, <2>8
    <2> QED BY <2>8, <2>10, <2>11
  <1>18. w[1] = 0
    <2> SUFFICES ASSUME w[1] = 1 PROVE FALSE
      <3>1. 1 \in 1 .. n + 1
        BY <1>1
      <3> QED BY <1>4, <3>1
    <2> DEFINE P == {i \in 0 .. n : p[i] < q[i] + w[i + 1]}
    <2>1. 0 \in P
      <3>1. 0 \in 0 .. n /\ 0 + 1 = 1
        BY <1>1
      <3> QED BY <1>16, <3>1
    <2>2. ASSUME NEW i \in 1 .. n, i - 1 \in P PROVE i \in P
      <3>1. i \in 0 .. n /\ (i - 1) + 1 = i
        BY <1>1
      <3>2. p[i - 1] < q[i - 1] + w[i]
        BY <2>2, <3>1
      <3> QED BY <1>17, <3>1, <3>2
    <2> HIDE DEF P
    <2>3. \A i \in 0 .. n : i \in P
      BY <1>1, <2>1, <2>2, Stepwise
    <2>4. p[n] < q[n] + 0
      <3>1. n \in P
        BY <1>1, <2>3
      <3> QED BY <1>4, <3>1 DEF P
    <2>5. p[n] \in Nat /\ q[n] \in Nat
      BY <1>1, <1>16
    <2> QED BY <1>14, <1>15, <2>4, <2>5
  <1>19. PICK y : y = [i \in 0 .. n |-> p[i] - q[i] - w[i + 1]]
    OBVIOUS
  <1>20. \A i \in 0 .. n : p[i] \in Nat /\ q[i] \in Nat /\ w[i + 1] \in {0, 1} /\ y[i] = p[i] - q[i] - w[i + 1]
    <2>1. \A i \in 0 .. n : i + 1 \in 1 .. n + 1
      BY <1>1
    <2> QED BY <1>4, <1>16, <1>19, <2>1
  <1>21. ASSUME NEW i \in 1 .. n PROVE y[i] = 256 * y[i - 1] + d[i]
    <2>1. i \in 0 .. n /\ i - 1 \in 0 .. n /\ (i - 1) + 1 = i
      BY <1>1
    <2>2. y[i] = p[i] - q[i] - w[i + 1]
      BY <1>20, <2>1
    <2>3. y[i - 1] = p[i - 1] - q[i - 1] - w[i]
      BY <1>20, <2>1
    <2> QED BY <1>17, <2>2, <2>3
  <1>22. \A i \in 0 .. n : y[i] \in Nat
    <2> DEFINE P == {i \in 0 .. n : y[i] \in Nat}
    <2>1. 0 \in P /\ y[0] = 0
      <3>1. 0 \in 0 .. n /\ 0 + 1 = 1
        BY <1>1
      <3>2. y[0] = p[0] - q[0] - w[1]
        BY <1>20, <3>1
      <3> QED BY <1>16, <1>18, <3>1, <3>2
    <2>2. ASSUME NEW i \in 1 .. n, i - 1 \in P PROVE i \in P
      <3>1. i \in 0 .. n /\ y[i - 1] \in Nat
        BY <1>1, <2>2
      <3>2. d[i] \in Nat
        <4>1. d[i] \in Int /\ 0 <= d[i]
          BY <1>13, OctetsAreNumbers
        <4> QED BY <4>1
      <3> QED BY <1>21, <3>1, <3>2
    <2> HIDE DEF P
    <2>3. \A i \in 0 .. n : i \in P
      BY <1>1, <2>1, <2>2, Stepwise
    <2> QED BY <2>3 DEF P
  <1>23. Counts(d, y)
    <2>1. y \in [0 .. n -> Nat]
      BY <1>19, <1>22
    <2>2. y[0] = 0
      <3>1. 0 \in 0 .. n /\ 0 + 1 = 1
        BY <1>1
      <3>2. y[0] = p[0] - q[0] - w[1]
        BY <1>20, <3>1
      <3> QED BY <1>16, <1>18, <3>2
    <2> QED BY <1>13, <1>21, <2>1, <2>2 DEF Counts
  <1>24. Number(d) = y[n]
    BY <1>13, <1>23, CountIsNumber
  <1>25. y[n] = p[n] - q[n]
    BY <1>1, <1>4, <1>20
  <1> QED BY <1>13, <1>14, <1>15, <1>24, <1>25 DEF n

\* Padded to a width that it fits, a scalar is as wide and stands for what it did.
LEMMA AlignedStays ==
  ASSUME NEW m \in OctetStrings, NEW width \in Nat, Len(m) <= width, NEW a, a = Aligned(m, width)
  PROVE  a \in OctetStrings /\ Len(a) = width /\ Number(a) = Number(m)
  <1>1. PICK l \in Nat : l = Len(m)
    BY OctetsInOrder
  <1>2. PICK k \in Nat : k = width - Len(m) /\ k + l = width
    BY <1>1
  <1>3. a = Zeros(k) \o m
    <2>1. ~(Len(m) > width)
      BY <1>1
    <2> QED BY <1>2, <2>1 DEF Aligned
  <1>4. a \in OctetStrings /\ Len(a) = k + Len(m) /\ Number(a) = Number(m)
    BY <1>3, ZerosInFrontAddNothing
  <1> QED BY <1>1, <1>2, <1>4

\* pad_to keeps the scalar where it fits.
LEMMA PaddedStays ==
  ASSUME NEW s \in OctetStrings, NEW width \in Nat, Len(Magnitude(s)) <= width
  PROVE  PadTo(s, width) \in OctetStrings /\ Len(PadTo(s, width)) = width /\ Number(PadTo(s, width)) = Number(s)
  <1>1. PICK m : m = Magnitude(s)
    OBVIOUS
  <1>2. m \in OctetStrings /\ Number(m) = Number(s)
    BY <1>1, MagnitudeIsTrimmed
  <1>3. PICK a : a = Aligned(m, width)
    OBVIOUS
  <1>4. a \in OctetStrings /\ Len(a) = width /\ Number(a) = Number(m)
    BY <1>1, <1>2, <1>3, AlignedStays
  <1>5. PadTo(s, width) = a
    <2>1. PICK l \in Nat : l = Len(m)
      BY <1>2, OctetsInOrder
    <2>2. ~(Len(m) > width)
      BY <1>1, <2>1
    <2> QED BY <1>1, <1>3, <2>2 DEF PadTo
  <1> QED BY <1>2, <1>4, <1>5

\* negate is the difference to the order.
LEMMA NegatedIsTheRest ==
  ASSUME NEW s \in OctetStrings, NEW order \in OctetStrings, Number(s) < Number(order)
  PROVE  /\ Negate(s, order) \in OctetStrings /\ Len(Negate(s, order)) = Len(order)
         /\ Number(Negate(s, order)) = Number(order) - Number(s)
  <1>1. PICK m : m = Magnitude(s)
    OBVIOUS
  <1>2. m \in OctetStrings /\ Number(m) = Number(s)
    BY <1>1, MagnitudeIsTrimmed
  <1>3. IsLess(s, order) /\ Len(m) <= Len(order)
    BY <1>1, LessIsSmaller
  <1>4. Len(order) \in Nat
    BY OctetsInOrder
  <1>5. PICK a : a = Aligned(m, Len(order))
    OBVIOUS
  <1>6. a \in OctetStrings /\ Len(a) = Len(order) /\ Number(a) = Number(m)
    BY <1>2, <1>3, <1>4, <1>5, AlignedStays
  <1>7. Number(a) <= Number(order)
    <2>1. Number(s) \in Int /\ Number(order) \in Int
      BY NumberIsNatural
    <2> QED BY <1>2, <1>6, <2>1
  <1>8. PICK d : d = Minus(order, a)
    OBVIOUS
  <1>9. d \in OctetStrings /\ Len(d) = Len(order) /\ Number(d) = Number(order) - Number(a)
    BY <1>6, <1>7, <1>8, MinusIsDifference
  <1>10. Negate(s, order) = d
    BY <1>1, <1>3, <1>5, <1>8 DEF Negate
  <1> QED BY <1>2, <1>6, <1>9, <1>10

\* The lower twin of a scalar in range is the smaller of the two, in range and at most
\* half the order.
LEMMA LowIsSmaller ==
  ASSUME NEW s \in OctetStrings, NEW order \in OctetStrings, Number(s) \in 1 .. Number(order) - 1
  PROVE  /\ LowOf(s, order) \in OctetStrings /\ Len(LowOf(s, order)) <= Len(s) + Len(order)
         /\ Number(LowOf(s, order)) = Min({Number(s), Number(order) - Number(s)})
         /\ Number(LowOf(s, order)) \in 1 .. Number(order) - 1
         /\ Number(LowOf(s, order)) \in 1 .. Number(order) \div 2
  <1>1. PICK n \in Nat, a \in Nat : n = Number(order) /\ a = Number(s)
    BY NumberIsNatural
  <1>2. a \in 1 .. n - 1
    BY <1>1
  <1>3. IsHigh(s, order) <=> n < 2 * a
    BY <1>1, HighIsMoreThanHalf
  <1>4. /\ Negate(s, order) \in OctetStrings /\ Number(Negate(s, order)) = n - a
        /\ Len(Negate(s, order)) <= Len(s) + Len(order) /\ Len(s) <= Len(s) + Len(order)
    <2>1. Number(s) < Number(order)
      BY <1>1, <1>2
    <2>2. Len(s) \in Nat /\ Len(order) \in Nat
      BY OctetsInOrder
    <2>3. /\ Negate(s, order) \in OctetStrings /\ Number(Negate(s, order)) = n - a
          /\ Len(Negate(s, order)) = Len(order)
      BY <1>1, <2>1, NegatedIsTheRest
    <2> QED BY <2>2, <2>3
  <1>5. PICK l : l = LowOf(s, order)
    OBVIOUS
  <1>6. CASE n < 2 * a
    <2>1. l \in OctetStrings /\ Number(l) = n - a /\ Len(l) <= Len(s) + Len(order)
      BY <1>3, <1>4, <1>5, <1>6 DEF LowOf
    <2>2. n - a \in 1 .. n - 1 /\ n - a \in 1 .. n \div 2
      BY <1>2, <1>6
    <2>3. Min({a, n - a}) = n - a
      BY <1>2, <1>6 DEF Min
    <2> QED BY <1>1, <1>5, <2>1, <2>2, <2>3
  <1>7. CASE ~(n < 2 * a)
    <2>1. l \in OctetStrings /\ Number(l) = a /\ Len(l) <= Len(s) + Len(order)
      BY <1>1, <1>3, <1>4, <1>5, <1>7 DEF LowOf
    <2>2. a \in 1 .. n - 1 /\ a \in 1 .. n \div 2
      BY <1>2, <1>7
    <2>3. Min({a, n - a}) = a
      BY <1>2, <1>7 DEF Min
    <2> QED BY <1>1, <1>5, <2>1, <2>2, <2>3
  <1> QED BY <1>6, <1>7

-----------------------------------------------------------------------------
\* Without zeros in front, a number is the number it was.
LEMMA BareIsTheNumber ==
  ASSUME NEW v \in OctetStrings, v # <<>>, NEW w, w = WithoutZeros(v)
  PROVE  w \in OctetStrings /\ w # <<>> /\ Number(w) = Number(v)
  <1>1. w \in OctetStrings /\ w # <<>>
    BY BareIsLeft DEF IsBare
  <1>2. PICK m : m = Magnitude(v)
    OBVIOUS
  <1>3. m = Magnitude(w)
    BY <1>2, MagnitudeStays, Zenon
  <1>4. Number(m) = Number(v)
    BY <1>2, MagnitudeIsTrimmed
  <1>5. Number(m) = Number(w)
    BY <1>1, <1>3, MagnitudeIsTrimmed
  <1> QED BY <1>1, <1>4, <1>5

\* Two integers are written as what is read as the two, without zeros in front, and called
\* canonical.
LEMMA PairIsWritten ==
  ASSUME NEW r \in OctetStrings, NEW s \in OctetStrings, r # <<>>, s # <<>>,
         Len(r) + Len(s) + 12 < TOO_LONG, NEW b, b = WriteEcdsaSignature(r, s)
  PROVE  /\ b # <<>> /\ ReadEcdsaSignature(b) # NONE
         /\ ReadEcdsaSignature(b) = [r |-> WithoutZeros(r), s |-> WithoutZeros(s), canonical |-> TRUE]
  <1>1. PICK v, w : v = WithoutZeros(r) /\ w = WithoutZeros(s)
    OBVIOUS
  <1>2. PICK x, y : x = Signed(v) /\ y = Signed(w)
    OBVIOUS
  <1>3. IsBare(v) /\ Len(v) = Len(r) - Stripped(r)
    BY <1>1, BareIsLeft
  <1>4. IsBare(w) /\ Len(w) = Len(s) - Stripped(s)
    BY <1>1, BareIsLeft
  <1>5. x \in OctetStrings /\ x # <<>> /\ Len(x) <= Len(v) + 1 /\ WithoutZeros(x) = v /\ IsMinimal(x)
    BY <1>2, <1>3, SignedIsMinimal, Zenon
  <1>6. y \in OctetStrings /\ y # <<>> /\ Len(y) <= Len(w) + 1 /\ WithoutZeros(y) = w /\ IsMinimal(y)
    BY <1>2, <1>4, SignedIsMinimal, Zenon
  <1>7. Len(x) + Len(y) + 10 < TOO_LONG
    <2>1. Stripped(r) \in Nat /\ Stripped(s) \in Nat
      <3>1. Stripped(r) \in 0 .. Len(r) - 1 /\ Stripped(s) \in 0 .. Len(s) - 1
        BY ZerosInFront
      <3> QED BY <3>1
    <2>2. Len(r) \in Nat /\ Len(s) \in Nat /\ Len(x) \in Nat /\ Len(y) \in Nat
      BY <1>5, <1>6, OctetsInOrder
    <2>3. TOO_LONG \in Int
      BY Places, SMT
    <2> QED BY <1>3, <1>4, <1>5, <1>6, <2>1, <2>2, <2>3
  <1>8. b = PushTlv(TAG_SEQUENCE, PushTlv(TAG_INTEGER, x) \o PushTlv(TAG_INTEGER, y))
    BY <1>1, <1>2, Zenon DEF WriteEcdsaSignature, PushInteger
  <1>9. ReadEcdsaSignature(b) =
          IF x = <<>> \/ y = <<>> THEN NONE
          ELSE [r |-> WithoutZeros(x), s |-> WithoutZeros(y), canonical |-> IsMinimal(x) /\ IsMinimal(y)]
    BY <1>5, <1>6, <1>7, <1>8, PairIsRead, Zenon
  <1>10. (IsMinimal(x) /\ IsMinimal(y)) = TRUE
    BY <1>5, <1>6
  <1>11. ReadEcdsaSignature(b) = [r |-> v, s |-> w, canonical |-> TRUE]
    BY <1>5, <1>6, <1>9, <1>10
  <1>12. [r |-> v, s |-> w, canonical |-> TRUE] \in DerSignatures
    <2>1. v \in OctetStrings /\ w \in OctetStrings
      BY <1>3, <1>4 DEF IsBare
    <2> QED BY <2>1 DEF DerSignatures
  <1>13. ReadEcdsaSignature(b) # NONE
    BY <1>11, <1>12, NoneIsNotRead
  <1>14. b # <<>>
    <2>1. <<>> \in OctetStrings /\ Len(<<>>) < 2
      <3>1. PICK S : OctetStrings = Seq(S)
        BY OctetsInOrder, Zenon
      <3>2. <<>> \in Seq(S) /\ Len(<<>>) < 2
        OBVIOUS
      <3> QED BY <3>1, <3>2, Zenon
    <2>2. ReadTlv(<<>>) = NONE
      BY <2>1 DEF ReadTlv
    <2>3. ReadEcdsaSignature(<<>>) = NONE
      BY <2>2, Zenon DEF ReadEcdsaSignature, ReadTagged
    <2> QED BY <1>13, <2>3, Zenon
  <1> QED BY <1>1, <1>11, <1>13, <1>14

-----------------------------------------------------------------------------
\* What is made of the bytes of a signature.
ScalarsIn(bytes, order, f) == PaddedPair(Normalised(SplitSignature(bytes, f), order), order, f)

\* a is a pair in range, the second of it low, as wide as the curve.
IsLowPair(a, order, f) ==
  /\ Number(a.r) \in 1 .. Number(order) - 1 /\ Number(a.s) \in 1 .. Number(order) \div 2
  /\ Len(a.r) = f /\ Len(a.s) = f

\* sig is two octet strings and what is reported of them.
HoldsPair(sig, r, s, d) == r \in OctetStrings /\ s \in OctetStrings /\ sig = ScalarPair(r, s, d)

\* What a signature is split into is two octet strings.
LEMMA SplitInTwo ==
  ASSUME NEW b \in OctetStrings, Len(b) < TOO_LONG, NEW f \in Nat,
         NEW sig, sig = SplitSignature(b, f), sig # NONE
  PROVE  \E r, s, d : HoldsPair(sig, r, s, d)
  <1>1. PICK a : a = ReadEcdsaSignature(b)
    OBVIOUS
  <1>2. CASE a = NONE
    <2>1. sig = Bare(b, f)
      BY <1>1, <1>2 DEF SplitSignature
    <2>2. Len(b) = 2 * f /\ sig = ScalarPair(SubSeq(b, 1, f), SubSeq(b, f + 1, 2 * f), {"RawSignatureNotDer"})
      BY <2>1, Zenon DEF Bare
    <2>3. PICK S : OctetStrings = Seq(S) /\ b \in Seq(S)
      BY OctetsInOrder, Zenon
    <2>4. SubSeq(b, 1, f) \in Seq(S) /\ SubSeq(b, f + 1, 2 * f) \in Seq(S)
      <3>1. 0 + f <= Len(b) /\ f + f <= Len(b) /\ f + f = 2 * f /\ 0 + 1 = 1 /\ 0 + f = f
        BY <2>2
      <3>2. SubSeq(b, 0 + 1, 0 + f) \in Seq(S)
        BY <2>3, <3>1, Seen
      <3>3. SubSeq(b, f + 1, f + f) \in Seq(S)
        BY <2>3, <3>1, Seen
      <3> QED BY <3>1, <3>2, <3>3
    <2> QED BY <2>2, <2>3, <2>4, Zenon DEF HoldsPair
  <1>3. CASE a # NONE
    <2>1. sig = ScalarPair(a.r, a.s, IF a.canonical THEN {} ELSE {"NonCanonicalDer"})
      BY <1>1, <1>3, Zenon DEF SplitSignature
    <2>2. PICK r \in OctetStrings, s \in OctetStrings :
            r # <<>> /\ s # <<>> /\ a.r = WithoutZeros(r) /\ a.s = WithoutZeros(s)
      BY <1>1, <1>3, SignatureIsRead, Zenon
    <2>3. a.r \in OctetStrings /\ a.s \in OctetStrings
      BY <2>2, BareIsTheNumber, Zenon
    <2> QED BY <2>1, <2>3, Zenon DEF HoldsPair
  <1> QED BY <1>2, <1>3

\* Padded to the width f, v stands for the number in range that it stood for.
Fits(v, order, f) ==
  /\ Number(v) \in 1 .. Number(order) - 1 /\ Number(PadTo(v, f)) = Number(v)
  /\ Len(PadTo(v, f)) = f /\ PadTo(v, f) \in OctetStrings

\* What is in range fits the width of the curve.
LEMMA ScalarsFit ==
  ASSUME NEW order \in OctetStrings, NEW f \in Nat, Len(order) <= f,
         NEW v \in OctetStrings, InRange(v, order)
  PROVE  Fits(v, order, f)
  <1>1. IsLess(v, order)
    BY DEF InRange
  <1>2. Len(Magnitude(v)) <= Len(order)
    BY <1>1, LessIsSmaller
  <1>3. Magnitude(v) \in OctetStrings
    BY MagnitudeIsTrimmed
  <1>4. Len(Magnitude(v)) <= f
    <2>1. Len(Magnitude(v)) \in Nat /\ Len(order) \in Nat
      BY <1>3, OctetsInOrder
    <2> QED BY <1>2, <2>1
  <1>5. Number(v) \in 1 .. Number(order) - 1
    BY InRangeIsBetween
  <1> QED BY <1>4, <1>5, PaddedStays DEF Fits

\* Two scalars are padded only where they are in range.
LEMMA PaddedAreInRange ==
  ASSUME NEW sig, NEW r, NEW s, NEW d, HoldsPair(sig, r, s, d), NEW order \in OctetStrings,
         NEW f \in Nat, Len(order) <= f, NEW a, a = PaddedPair(sig, order, f), a # NONE
  PROVE  /\ Number(r) \in 1 .. Number(order) - 1 /\ Number(s) \in 1 .. Number(order) - 1
         /\ Number(a.r) = Number(r) /\ Number(a.s) = Number(s) /\ Len(a.r) = f /\ Len(a.s) = f /\ a.dev = d
         /\ a.r \in OctetStrings /\ a.s \in OctetStrings
  <1>1. r \in OctetStrings /\ s \in OctetStrings /\ sig = [r |-> r, s |-> s, dev |-> d]
    BY DEF HoldsPair, ScalarPair
  <1>2. sig.r = r /\ sig.s = s
    BY <1>1
  <1>3. InRange(r, order) /\ InRange(s, order) /\ a = [sig EXCEPT !.r = PadTo(r, f), !.s = PadTo(s, f)]
    BY <1>2 DEF PaddedPair
  <1>4. a.r = PadTo(r, f) /\ a.s = PadTo(s, f) /\ a.dev = d
    BY <1>1, <1>3
  <1>5. Fits(r, order, f) /\ Fits(s, order, f)
    BY <1>1, <1>3, ScalarsFit, Zenon
  <1> QED BY <1>3, <1>4, <1>5 DEF Fits

\* No octets stand for zero.
LEMMA NothingIsZero == <<>> \in OctetStrings /\ Number(<<>>) = 0
  <1>1. PICK S : S = 0 .. 255
    OBVIOUS
  <1>2. <<>> \in Seq(S) /\ Len(<<>>) = 0
    OBVIOUS
  <1>3. <<>> \in OctetStrings
    BY <1>1, <1>2, Zenon DEF OctetStrings
  <1>4. PICK u : Counts(<<>>, u) /\ Number(<<>>) = u[Len(<<>>)]
    BY <1>3, NumberCounts, Zenon
  <1> QED BY <1>2, <1>3, <1>4 DEF Counts

\* A pair is something.
LEMMA PairsAreSome ==
  ASSUME NEW r \in OctetStrings, NEW s \in OctetStrings
  PROVE  ScalarPair(r, s, {}) # NONE
  <1>1. ScalarPair(r, s, {}) \in ScalarPairs
    BY DEF ScalarPair, ScalarPairs
  <1> QED BY <1>1, NoneIsNoPair

\* Whatever the bytes, what is made of them is in range and low.
LEMMA ScalarsInAreLow ==
  ASSUME NEW b \in OctetStrings, Len(b) < TOO_LONG, NEW order \in OctetStrings,
         NEW f \in Nat, Len(order) <= f, NEW a, a = ScalarsIn(b, order, f), a # NONE
  PROVE  IsLowPair(a, order, f)
  <1>1. PICK sig : sig = SplitSignature(b, f)
    OBVIOUS
  <1>2. a = PaddedPair(Normalised(sig, order), order, f)
    BY <1>1 DEF ScalarsIn
  <1>3. sig # NONE
    <2> SUFFICES ASSUME sig = NONE PROVE FALSE
      OBVIOUS
    <2>1. Normalised(sig, order) = NONE
      BY DEF Normalised
    <2> QED BY <1>2, <2>1 DEF PaddedPair
  <1>4. PICK r, s, d : HoldsPair(sig, r, s, d)
    BY <1>1, <1>3, SplitInTwo, Zenon
  <1>5. r \in OctetStrings /\ s \in OctetStrings /\ sig.r = r /\ sig.s = s /\ sig.dev = d
    BY <1>4 DEF HoldsPair, ScalarPair
  <1>6. PICK n \in Nat, k \in Nat : n = Number(order) /\ k = Number(s)
    BY <1>5, NumberIsNatural
  <1>7. IsHigh(s, order) <=> n < 2 * k
    BY <1>5, <1>6, HighIsMoreThanHalf
  <1>8. CASE ~IsHigh(s, order)
    <2>1. Normalised(sig, order) = sig
      BY <1>5, <1>8 DEF Normalised
    <2>2. a = PaddedPair(sig, order, f)
      BY <1>2, <2>1
    <2>3. /\ Number(r) \in 1 .. Number(order) - 1 /\ k \in 1 .. n - 1
          /\ Number(a.r) = Number(r) /\ Number(a.s) = k /\ Len(a.r) = f /\ Len(a.s) = f
      BY <1>4, <1>6, <2>2, PaddedAreInRange
    <2>4. k \in 1 .. n \div 2
      BY <1>7, <1>8, <2>3
    <2> QED BY <1>6, <2>3, <2>4 DEF IsLowPair
  <1>9. CASE IsHigh(s, order)
    <2>1. PICK t : t = Negate(s, order)
      OBVIOUS
    <2>2. PICK e : e = d \union {"HighSSignature"}
      OBVIOUS
    <2>3. a = PaddedPair(ScalarPair(r, t, e), order, f)
      BY <1>2, <1>3, <1>5, <1>9, <2>1, <2>2, Zenon DEF Normalised
    <2>4. CASE k < n
      <3>1. t \in OctetStrings /\ Number(t) = n - k
        BY <1>5, <1>6, <2>1, <2>4, NegatedIsTheRest
      <3>2. HoldsPair(ScalarPair(r, t, e), r, t, e)
        BY <1>5, <3>1 DEF HoldsPair
      <3>3. /\ Number(r) \in 1 .. Number(order) - 1
            /\ Number(a.r) = Number(r) /\ Number(a.s) = Number(t) /\ Len(a.r) = f /\ Len(a.s) = f
        BY <2>3, <3>2, PaddedAreInRange
      <3>4. n - k \in 1 .. n \div 2
        BY <1>7, <1>9, <2>4
      <3> QED BY <1>6, <3>1, <3>3, <3>4 DEF IsLowPair
    <2>5. CASE ~(k < n)
      <3>1. t = s
        <4>1. ~IsLess(s, order)
          BY <1>5, <1>6, <2>5, LessIsSmaller
        <4> QED BY <2>1, <4>1 DEF Negate
      <3>2. HoldsPair(ScalarPair(r, t, e), r, t, e)
        BY <1>5, <3>1 DEF HoldsPair
      <3>3. Number(t) \in 1 .. Number(order) - 1
        BY <2>3, <3>2, PaddedAreInRange
      <3> QED BY <1>6, <2>5, <3>1, <3>3
    <2> QED BY <2>4, <2>5
  <1> QED BY <1>8, <1>9

\* Two scalars in range, the second low, are read where they were written as they were.
LEMMA LowPairIsReadBack ==
  ASSUME NEW order \in OctetStrings, NEW f \in Nat, Len(order) <= f,
         NEW r \in OctetStrings, Number(r) \in 1 .. Number(order) - 1,
         NEW l \in OctetStrings, Number(l) \in 1 .. Number(order) - 1, Number(l) \in 1 .. Number(order) \div 2,
         Len(r) + Len(l) + 12 < TOO_LONG, NEW b, b = WriteEcdsaSignature(r, l),
         NEW a, a = ScalarsIn(b, order, f)
  PROVE  /\ b # <<>> /\ a # NONE /\ a.dev = {}
         /\ Number(a.r) = Number(r) /\ Number(a.s) = Number(l) /\ IsLowPair(a, order, f)
  <1>1. r # <<>> /\ l # <<>>
    <2>1. Number(<<>>) = 0
      BY NothingIsZero
    <2> QED BY <2>1
  <1>2. PICK v, w : v = WithoutZeros(r) /\ w = WithoutZeros(l)
    OBVIOUS
  <1>3. v \in OctetStrings /\ Number(v) = Number(r)
    BY <1>1, <1>2, BareIsTheNumber
  <1>4. w \in OctetStrings /\ Number(w) = Number(l)
    BY <1>1, <1>2, BareIsTheNumber
  <1>5. PICK x : x = ReadEcdsaSignature(b)
    OBVIOUS
  <1>6. b # <<>> /\ x # NONE /\ x = [r |-> v, s |-> w, canonical |-> TRUE]
    BY <1>1, <1>2, <1>5, PairIsWritten
  <1>7. PICK sig : sig = ScalarPair(v, w, {})
    OBVIOUS
  <1>8. SplitSignature(b, f) = sig
    <2>1. x.r = v /\ x.s = w /\ x.canonical = TRUE
      BY <1>6
    <2> QED BY <1>5, <1>6, <1>7, <2>1, Zenon DEF SplitSignature
  <1>9. HoldsPair(sig, v, w, {}) /\ sig.r = v /\ sig.s = w
    BY <1>3, <1>4, <1>7 DEF HoldsPair, ScalarPair
  <1>10. ~IsHigh(w, order)
    <2>1. PICK n \in Nat, k \in Nat : n = Number(order) /\ k = Number(w)
      BY <1>4, NumberIsNatural
    <2>2. k \in 1 .. n \div 2
      BY <1>4, <2>1
    <2>3. ~(n < 2 * k)
      BY <2>2
    <2> QED BY <1>4, <2>1, <2>3, HighIsMoreThanHalf
  <1>11. a = PaddedPair(sig, order, f)
    <2>1. Normalised(sig, order) = sig
      BY <1>9, <1>10 DEF Normalised
    <2> QED BY <1>8, <2>1 DEF ScalarsIn
  <1>12. a # NONE
    <2>1. InRange(v, order) /\ InRange(w, order)
      BY <1>3, <1>4, InRangeIsBetween
    <2>2. sig # NONE
      BY <1>3, <1>4, <1>7, PairsAreSome
    <2>3. a = [sig EXCEPT !.r = PadTo(sig.r, f), !.s = PadTo(sig.s, f)]
      BY <1>9, <1>11, <2>1, <2>2, Zenon DEF PaddedPair
    <2>4. a = ScalarPair(PadTo(v, f), PadTo(w, f), {})
      BY <1>7, <1>9, <2>3 DEF ScalarPair
    <2>5. Fits(v, order, f) /\ Fits(w, order, f)
      BY <1>3, <1>4, <2>1, ScalarsFit, Zenon
    <2> QED BY <2>4, <2>5, PairsAreSome DEF Fits
  <1>13. /\ Number(a.r) = Number(v) /\ Number(a.s) = Number(w) /\ Len(a.r) = f /\ Len(a.s) = f /\ a.dev = {}
    BY <1>9, <1>11, <1>12, PaddedAreInRange
  <1> QED BY <1>3, <1>4, <1>6, <1>12, <1>13 DEF IsLowPair

-----------------------------------------------------------------------------
\* A question about scalars is answered by sign.rs and verify.rs: bytes are read as a
\* pair, or two scalars are signed and what is written is read.
Signing ==
  /\ asked = NONE => turn = "first" /\ answer = NONE
  /\ turn \in {"first", "second", "done"}
  /\ About("scalars") =>
       /\ asked \in Questions
       /\ turn = "first" => answer = NONE
       /\ IsGiven("text") /\ turn # "first" =>
            answer = ScalarsIn(asked.text, OrderOf[asked.curve], FieldBytes[asked.curve])
       /\ ~IsGiven("text") =>
            /\ turn # "first" => written = Signature(asked.value.r, asked.value.s, OrderOf[asked.curve])
            /\ turn = "second" => answer = NONE
            /\ turn = "done" => answer = ScalarsIn(written, OrderOf[asked.curve], FieldBytes[asked.curve])

\* Scalars are signed exactly where both are in range; what is signed is read as the first
\* and the smaller twin of the second.
SignsAndReads(order, f, r, s, b, a) ==
  /\ (b = <<>>) = ~(Number(r) \in 1 .. Number(order) - 1 /\ Number(s) \in 1 .. Number(order) - 1)
  /\ a = ScalarsIn(b, order, f) =>
       /\ b # <<>> => /\ a # NONE /\ a.dev = {} /\ Number(a.r) = Number(r)
                      /\ Number(a.s) = Min({Number(s), Number(order) - Number(s)})
       /\ a # NONE => IsLowPair(a, order, f)

\* sign.rs and verify.rs agree on a pair of scalars.
LEMMA SignedAreReadBack ==
  ASSUME NEW order \in OctetStrings, NEW f \in Nat, Len(order) <= f,
         NEW r \in OctetStrings, NEW s \in OctetStrings, Len(r) + Len(s) + Len(order) + 12 < TOO_LONG,
         NEW b, b = Signature(r, s, order), NEW a
  PROVE  SignsAndReads(order, f, r, s, b, a)
  <1> DEFINE inside == Number(r) \in 1 .. Number(order) - 1 /\ Number(s) \in 1 .. Number(order) - 1
  <1>1. inside <=> InRange(r, order) /\ InRange(s, order)
    BY InRangeIsBetween
  <1>2. CASE ~inside
    <2>1. b = <<>>
      BY <1>1, <1>2, Zenon DEF Signature
    <2>2. <<>> \in OctetStrings /\ Len(<<>>) < TOO_LONG
      <3>1. Len(<<>>) = 0 /\ 0 < TOO_LONG
        BY Places, SMT
      <3> QED BY <3>1, NothingIsZero
    <2>3. a = ScalarsIn(b, order, f) /\ a # NONE => IsLowPair(a, order, f)
      BY <2>1, <2>2, ScalarsInAreLow, Zenon
    <2> QED BY <1>2, <2>1, <2>3 DEF SignsAndReads
  <1>3. CASE inside
    <2>1. PICK l : l = LowOf(s, order)
      OBVIOUS
    <2>2. /\ l \in OctetStrings /\ Len(l) <= Len(s) + Len(order)
          /\ Number(l) = Min({Number(s), Number(order) - Number(s)})
          /\ Number(l) \in 1 .. Number(order) - 1 /\ Number(l) \in 1 .. Number(order) \div 2
      BY <1>3, <2>1, LowIsSmaller
    <2>3. Len(r) + Len(l) + 12 < TOO_LONG
      <3>1. Len(r) \in Nat /\ Len(l) \in Nat /\ Len(s) \in Nat /\ Len(order) \in Nat
        BY <2>2, OctetsInOrder
      <3>2. TOO_LONG \in Int
        BY Places, SMT
      <3> QED BY <2>2, <3>1, <3>2
    <2>4. b = WriteEcdsaSignature(r, l)
      BY <1>1, <1>3, <2>1, Zenon DEF Signature
    <2>5. b # <<>> /\ (b = <<>>) = ~inside
      <3>1. PICK c : c = ScalarsIn(b, order, f)
        OBVIOUS
      <3>2. b # <<>>
        BY <1>3, <2>2, <2>3, <2>4, <3>1, LowPairIsReadBack
      <3> QED BY <1>3, <3>2
    <2>6. a = ScalarsIn(b, order, f) =>
            /\ a # NONE /\ a.dev = {} /\ Number(a.r) = Number(r) /\ Number(a.s) = Number(l)
            /\ IsLowPair(a, order, f)
      <3> SUFFICES ASSUME a = ScalarsIn(b, order, f)
                   PROVE  /\ a # NONE /\ a.dev = {} /\ Number(a.r) = Number(r) /\ Number(a.s) = Number(l)
                          /\ IsLowPair(a, order, f)
        OBVIOUS
      <3> QED BY <1>3, <2>2, <2>3, <2>4, LowPairIsReadBack
    <2> QED BY <2>2, <2>5, <2>6 DEF SignsAndReads
  <1> QED BY <1>2, <1>3

\* What is signed and read is what the runs check.
LEMMA SigningShows ==
  ASSUME Signing
  PROVE  SignedScalarsAreRead
  <1> SUFFICES ASSUME About("scalars") PROVE SignedScalarsAreRead
    BY DEF SignedScalarsAreRead
  <1>1. asked \in Questions /\ asked.kind = "scalars"
    BY Zenon DEF Signing, About
  <1>2. PICK c : c = asked.curve
    OBVIOUS
  <1>3. PICK order, f : order = OrderOf[c] /\ f = FieldBytes[c]
    OBVIOUS
  <1>4. order \in OctetStrings /\ f \in Nat /\ Len(order) <= f
    <2>1. c \in CurveNames
      BY <1>1, <1>2, ScalarsAssumption, Zenon
    <2> QED BY <1>3, <2>1, ScalarsAssumption, Zenon DEF OctetStrings
  <1>5. "first" # "second" /\ "second" # "done" /\ "first" # "done"
    OBVIOUS
  <1>6. CASE IsGiven("text")
    <2>1. /\ asked = [kind |-> "scalars", curve |-> asked.curve, text |-> asked.text]
          /\ asked.text \in OctetStrings /\ Len(asked.text) + 12 < TOO_LONG
      BY <1>1, <1>6, ScalarsAssumption, Zenon DEF IsGiven, OctetStrings
    <2>2. ~IsGiven("value")
      BY <2>1 DEF IsGiven
    <2>3. Len(asked.text) < TOO_LONG
      <3>1. Len(asked.text) \in Nat
        BY <2>1, OctetsInOrder
      <3>2. TOO_LONG \in Int
        BY Places, SMT
      <3> QED BY <2>1, <3>1, <3>2
    <2>4. answer # NONE => answer = ScalarsIn(asked.text, order, f)
      BY <1>2, <1>3, <1>6, Zenon DEF Signing
    <2>5. answer # NONE => IsLowPair(answer, order, f)
      BY <1>4, <2>1, <2>3, <2>4, ScalarsInAreLow, Zenon
    <2> QED BY <1>2, <1>3, <2>2, <2>5 DEF SignedScalarsAreRead, IsLowPair
  <1>7. CASE ~IsGiven("text")
    <2>1. /\ asked.value.r \in OctetStrings /\ asked.value.s \in OctetStrings
          /\ Len(asked.value.r) + Len(asked.value.s) + Len(OrderOf[asked.curve]) + 12 < TOO_LONG
      BY <1>1, <1>7, ScalarsAssumption, Zenon DEF IsGiven, OctetStrings
    <2>2. PICK r \in OctetStrings, s \in OctetStrings :
            r = asked.value.r /\ s = asked.value.s /\ Len(r) + Len(s) + Len(order) + 12 < TOO_LONG
      BY <1>2, <1>3, <2>1, Zenon
    <2>3. turn # "first" => written = Signature(r, s, order)
      BY <1>2, <1>3, <1>7, <2>2, Zenon DEF Signing
    <2>4. turn # "first" => SignsAndReads(order, f, r, s, written, answer)
      BY <1>4, <2>2, <2>3, SignedAreReadBack, Zenon
    <2>5. turn = "done" => answer = ScalarsIn(written, order, f)
      BY <1>2, <1>3, <1>7, Zenon DEF Signing
    <2>6. answer # NONE => turn = "done"
      BY <1>7, Zenon DEF Signing
    <2>7. turn # "first" =>
            (written = <<>>) = ~(Number(r) \in 1 .. Number(order) - 1 /\ Number(s) \in 1 .. Number(order) - 1)
      BY <2>4 DEF SignsAndReads
    <2>8. turn = "done" /\ written # <<>> =>
            /\ answer # NONE /\ answer.dev = {} /\ Number(answer.r) = Number(r)
            /\ Number(answer.s) = Min({Number(s), Number(order) - Number(s)})
      BY <1>5, <2>4, <2>5 DEF SignsAndReads
    <2>9. answer # NONE => IsLowPair(answer, order, f)
      BY <1>5, <2>4, <2>5, <2>6 DEF SignsAndReads
    <2> QED BY <1>2, <1>3, <2>2, <2>7, <2>8, <2>9 DEF SignedScalarsAreRead, IsLowPair
  <1> QED BY <1>6, <1>7

\* What is not about scalars says nothing of them.
LEMMA FormKeepsSigning ==
  ASSUME Signing, Form
  PROVE  Signing'
  <1>1. "first" # "second" /\ "second" # "done" /\ "first" # "done"
    OBVIOUS
  <1>2. turn' = (IF turn = "first" THEN "second" ELSE "done") /\ asked' = asked /\ asked # NONE
    BY Zenon DEF Form, ReadForm, WriteForm, ReadScalars, ReadDer, ReadKey, ReadTime, ReadCode, ReadHex, ReadBase64,
       WriteScalars, WriteDer, WriteKey, WriteTime, PlaceTime, WriteCode, WriteHex, WriteBase64,
       Answer, WriteAs, Turned, Reads, Writes, About
  <1>3. turn' \in {"first", "second", "done"}
    BY <1>2
  <1>4. CASE ReadScalars
    <2>1. /\ About("scalars") /\ turn = (IF IsGiven("text") THEN "first" ELSE "second")
          /\ answer' = ScalarsIn(Spelling, OrderOf[asked.curve], FieldBytes[asked.curve]) /\ written' = written
      BY <1>4, Zenon DEF ReadScalars, Reads, Answer, ScalarsIn
    <2>2. asked \in Questions
      BY <2>1, Zenon DEF Signing
    <2>3. CASE IsGiven("text")
      <3>1. /\ answer' = ScalarsIn(asked.text, OrderOf[asked.curve], FieldBytes[asked.curve])
            /\ turn' = "second"
        BY <1>2, <2>1, <2>3, Zenon DEF Spelling
      <3> QED BY <1>1, <1>2, <1>3, <2>1, <2>2, <2>3, <3>1, Zenon DEF Signing, About, IsGiven
    <2>4. CASE ~IsGiven("text")
      <3>1. /\ answer' = ScalarsIn(written, OrderOf[asked.curve], FieldBytes[asked.curve])
            /\ turn' = "done" /\ turn # "first"
        BY <1>1, <1>2, <2>1, <2>4, Zenon DEF Spelling
      <3>2. written = Signature(asked.value.r, asked.value.s, OrderOf[asked.curve])
        BY <2>1, <2>4, <3>1, Zenon DEF Signing
      <3> QED BY <1>1, <1>2, <1>3, <2>1, <2>2, <2>4, <3>1, <3>2, Zenon DEF Signing, About, IsGiven
    <2> QED BY <2>3, <2>4
  <1>5. CASE WriteScalars
    <2>1. /\ About("scalars") /\ turn = (IF IsGiven("text") THEN "second" ELSE "first")
          /\ written' = Signature(Content.r, Content.s, OrderOf[asked.curve]) /\ answer' = answer
      BY <1>5, Zenon DEF WriteScalars, Writes, WriteAs
    <2>2. asked \in Questions
      BY <2>1, Zenon DEF Signing
    <2>3. CASE IsGiven("text")
      <3>1. turn' = "done" /\ turn # "first"
        BY <1>1, <1>2, <2>1, <2>3, Zenon
      <3>2. answer = ScalarsIn(asked.text, OrderOf[asked.curve], FieldBytes[asked.curve])
        BY <2>1, <2>3, <3>1, Zenon DEF Signing
      <3> QED BY <1>1, <1>2, <1>3, <2>1, <2>2, <2>3, <3>1, <3>2, Zenon DEF Signing, About, IsGiven
    <2>4. CASE ~IsGiven("text")
      <3>1. /\ written' = Signature(asked.value.r, asked.value.s, OrderOf[asked.curve])
            /\ turn' = "second" /\ answer = NONE
        BY <1>1, <1>2, <2>1, <2>4, Zenon DEF Content, Signing
      <3> QED BY <1>1, <1>2, <1>3, <2>1, <2>2, <2>4, <3>1, Zenon DEF Signing, About, IsGiven
    <2> QED BY <2>3, <2>4
  <1>6. ASSUME NEW k, k # "scalars", Reads(k) \/ Writes(k)
        PROVE  Signing'
    <2>1. asked' # NONE /\ ~(asked'.kind = "scalars")
      BY <1>2, <1>6 DEF Reads, Writes, About
    <2> QED BY <1>3, <2>1, Zenon DEF Signing, About
  <1>7. CASE (ReadForm \/ WriteForm) /\ ~ReadScalars /\ ~WriteScalars
    <2>1. \E k \in {"der", "date", "key", "time", "obis", "hex", "base64"} : Reads(k) \/ Writes(k)
      BY <1>7, Zenon DEF ReadForm, WriteForm, ReadDer, ReadKey, ReadTime, ReadCode, ReadHex, ReadBase64,
         WriteDer, WriteKey, WriteTime, PlaceTime, WriteCode, WriteHex, WriteBase64
    <2>2. \A k \in {"der", "date", "key", "time", "obis", "hex", "base64"} : k # "scalars"
      OBVIOUS
    <2> QED BY <1>6, <2>1, <2>2
  <1> QED BY <1>4, <1>5, <1>7 DEF Form

\* Of two scalars of any width, what is out of range is refused; what is signed is read
\* with nothing to report as r and the smaller of s and the order less s; and whatever
\* bytes are read, what comes of them is in range, low and as wide as the curve
\* (scalar.rs, compare, double, negate and pad_to; sign.rs and verify.rs).
THEOREM SignedScalarsAreAlwaysRead == Spec => []SignedScalarsAreRead
  <1>1. Init => Signing
    BY Zenon DEF Init, NothingAsked, Signing, About
  <1>2. Signing /\ [Next]_vars => Signing'
    <2> SUFFICES ASSUME Signing, [Next]_vars PROVE Signing'
      OBVIOUS
    <2>1. CASE UNCHANGED forms
      BY <2>1 DEF forms, Signing, About, IsGiven
    <2>2. CASE CallForm
      <3>1. PICK q \in Questions : Ask(q)
        BY <2>2 DEF CallForm
      <3>2. asked' = q /\ turn' = "first" /\ answer' = NONE
        BY <3>1 DEF Ask, Signing
      <3>3. "first" # "done" /\ "first" # "second" /\ "first" \in {"first", "second", "done"}
        OBVIOUS
      <3> QED BY <3>2, <3>3, Zenon DEF Signing, About
    <2>3. CASE Forming
      BY <2>3, FormKeepsSigning DEF Forming
    <2>4. CASE CallRead \/ CallSign \/ CallTool \/ ReadOnly \/ Building \/ Tool \/ UNCHANGED vars
      BY <2>1, <2>4 DEF CallRead, CallSign, CallTool, ReadOnly, Building, Tool, vars
    <2> QED BY <2>2, <2>3, <2>4 DEF Next
  <1>3. Signing => SignedScalarsAreRead
    BY SigningShows
  <1> QED BY <1>1, <1>2, <1>3, PTL DEF Spec

-----------------------------------------------------------------------------
(***************************************************************************)
(* Encodings: what is read of a text is what is written of it again.       *)
(***************************************************************************)
\* u[i] is what is left of the first i characters of s.
Sifts(s, set, S, u) ==
  /\ u \in [0 .. Len(s) -> Seq(S)] /\ u[0] = <<>>
  /\ \A i \in 1 .. Len(s) : u[i] = IF s[i] \in set THEN u[i - 1] ELSE Append(u[i - 1], s[i])

\* There is one way to sift a text.
LEMMA SiftsAreOne ==
  ASSUME NEW S, NEW s \in Seq(S), NEW set, NEW w, Sifts(s, set, S, w)
  PROVE  Leaving(s, set) = w[Len(s)]
  <1> DEFINE n == Len(s)
             body(u) == [i \in 0 .. n |-> IF i = 0 THEN <<>>
                                         ELSE IF s[i] \in set THEN u[i - 1] ELSE Append(u[i - 1], s[i])]
             u == CHOOSE u : u = body(u)
  <1>1. n \in Nat
    BY SequencePlaces
  <1>2. Leaving(s, set) = u[n]
    BY DEF Leaving, n
  <1>3. /\ w \in [0 .. n -> Seq(S)] /\ w[0] = <<>>
        /\ \A i \in 1 .. n : w[i] = IF s[i] \in set THEN w[i - 1] ELSE Append(w[i - 1], s[i])
    BY DEF Sifts, n
  <1> HIDE DEF n
  <1>4. \A i \in 0 .. n : i = 0 \/ (i \in 1 .. n /\ i # 0)
    BY <1>1
  <1>5. w = body(w)
    <2>1. w = [i \in 0 .. n |-> w[i]]
      BY <1>3
    <2>2. \A i \in 0 .. n : w[i] = IF i = 0 THEN <<>> ELSE IF s[i] \in set THEN w[i - 1] ELSE Append(w[i - 1], s[i])
      BY <1>3, <1>4, Zenon
    <2> QED BY <2>1, <2>2
  <1>6. u = body(u)
    <2> HIDE DEF body
    <2> QED BY <1>5
  <1>7. \A i \in 0 .. n : u[i] = IF i = 0 THEN <<>> ELSE IF s[i] \in set THEN u[i - 1] ELSE Append(u[i - 1], s[i])
    <2> HIDE DEF u
    <2> QED BY <1>6
  <1> HIDE DEF u, body
  <1> DEFINE P == {k \in 0 .. n : u[k] = w[k]}
  <1>8. 0 \in P
    BY <1>1, <1>3, <1>7
  <1>9. ASSUME NEW i \in 1 .. n, i - 1 \in P PROVE i \in P
    <2>1. u[i - 1] = w[i - 1] /\ i \in 0 .. n /\ i # 0
      BY <1>1, <1>9
    <2>2. u[i] = w[i]
      BY <1>3, <1>7, <2>1, Zenon
    <2> QED BY <2>1, <2>2
  <1> HIDE DEF P
  <1>10. \A i \in 0 .. n : i \in P
    BY <1>1, <1>8, <1>9, Stepwise
  <1>11. n \in P
    BY <1>1, <1>10
  <1> QED BY <1>2, <1>11 DEF P, n

\* Every text can be sifted.
LEMMA LeavingSifts ==
  ASSUME NEW S, NEW s \in Seq(S), NEW set
  PROVE  \E u : Sifts(s, set, S, u) /\ Leaving(s, set) = u[Len(s)]
  <1> DEFINE n == Len(s)
             advance == [i \in 1 .. n |-> [x \in Seq(S) |-> IF s[i] \in set THEN x ELSE Append(x, s[i])]]
  <1>1. n \in Nat /\ \A i \in 1 .. n : s[i] \in S
    BY SequencePlaces
  <1> HIDE DEF n
  <1>2. <<>> \in Seq(S)
    OBVIOUS
  <1>3. PICK w \in Loops(n, Seq(S), <<>>, advance) : TRUE
    <2>1. advance \in [1 .. n -> [Seq(S) -> Seq(S)]]
      <3>1. \A i \in 1 .. n : \A x \in Seq(S) : Append(x, s[i]) \in Seq(S)
        BY <1>1
      <3> QED BY <3>1
    <2> HIDE DEF advance
    <2>2. Loops(n, Seq(S), <<>>, advance) # {}
      BY <1>1, <1>2, <2>1, LoopExists
    <2> QED BY <2>2
  <1>4. w \in [0 .. n -> Seq(S)] /\ w[0] = <<>> /\ \A i \in 1 .. n : w[i] = advance[i][w[i - 1]]
    <2> HIDE DEF advance
    <2> QED BY <1>3 DEF Loops
  <1>5. \A i \in 1 .. n : w[i] = IF s[i] \in set THEN w[i - 1] ELSE Append(w[i - 1], s[i])
    <2> SUFFICES ASSUME NEW i \in 1 .. n
                 PROVE  w[i] = IF s[i] \in set THEN w[i - 1] ELSE Append(w[i - 1], s[i])
      OBVIOUS
    <2>1. i - 1 \in 0 .. n
      BY <1>1
    <2>2. w[i - 1] \in Seq(S)
      BY <1>4, <2>1
    <2>3. w[i] = advance[i][w[i - 1]]
      BY <1>4
    <2> QED BY <2>2, <2>3
  <1>6. Sifts(s, set, S, w)
    BY <1>4, <1>5 DEF Sifts, n
  <1> QED BY <1>6, SiftsAreOne

\* What is left of a text is a text.
LEMMA LeftIsText ==
  ASSUME NEW S, NEW s \in Seq(S), NEW set
  PROVE  Leaving(s, set) \in Seq(S)
  <1>1. PICK u : Sifts(s, set, S, u) /\ Leaving(s, set) = u[Len(s)]
    BY LeavingSifts
  <1>2. Len(s) \in Nat
    BY SequencePlaces
  <1>3. Len(s) \in 0 .. Len(s)
    BY <1>2
  <1> QED BY <1>1, <1>3 DEF Sifts

\* Of a text of which only the end goes, the beginning is left.
LEMMA BeginningIsLeft ==
  ASSUME NEW S, NEW s \in Seq(S), NEW set, NEW n \in 0 .. Len(s),
         \A i \in 1 .. n : s[i] \notin set, \A i \in n + 1 .. Len(s) : s[i] \in set
  PROVE  Leaving(s, set) = [i \in 1 .. n |-> s[i]]
  <1>1. PICK l \in Nat : l = Len(s)
    BY SequencePlaces
  <1>2. \A i \in 1 .. l : s[i] \in S
    BY <1>1, SequencePlaces
  <1> DEFINE first(i) == IF i <= n THEN i ELSE n
             u == [i \in 0 .. l |-> [k \in 1 .. first(i) |-> s[k]]]
  <1>3. n \in Nat /\ n <= l /\ \A i \in 0 .. l : first(i) \in Nat /\ first(i) <= l
    BY <1>1
  <1>4. u \in [0 .. l -> Seq(S)]
    <2>1. ASSUME NEW i \in 0 .. l PROVE [k \in 1 .. first(i) |-> s[k]] \in Seq(S)
      <3>1. PICK m \in Nat : m = first(i) /\ m <= l
        BY <1>3
      <3>2. \A k \in 1 .. m : s[k] \in S
        BY <1>1, <1>2, <3>1
      <3>3. [k \in 1 .. m |-> s[k]] \in Seq(S)
        BY <3>2
      <3> QED BY <3>1, <3>3
    <2> HIDE DEF first
    <2> QED BY <2>1
  <1>5. u[0] = <<>>
    <2>1. 0 \in 0 .. l /\ first(0) = 0
      BY <1>3
    <2>2. u[0] = [k \in 1 .. 0 |-> s[k]]
      BY <2>1
    <2> QED BY <2>2
  <1>6. ASSUME NEW i \in 1 .. l
        PROVE  u[i] = IF s[i] \in set THEN u[i - 1] ELSE Append(u[i - 1], s[i])
    <2>1. i \in 0 .. l /\ i - 1 \in 0 .. l
      BY <1>1
    <2>2. u[i] = [k \in 1 .. first(i) |-> s[k]] /\ u[i - 1] = [k \in 1 .. first(i - 1) |-> s[k]]
      BY <2>1
    <2>3. CASE i <= n
      <3>1. first(i) = i /\ first(i - 1) = i - 1 /\ i \in 1 .. n
        BY <1>3, <2>3
      <3>2. s[i] \notin set
        BY <3>1
      <3>3. PICK c \in S : c = s[i]
        BY <1>2
      <3>4. PICK a : a = [k \in 1 .. i - 1 |-> s[k]]
        OBVIOUS
      <3>5. a \in Seq(S) /\ Len(a) = i - 1
        <4>1. \A k \in 1 .. i - 1 : s[k] \in S
          BY <1>2
        <4> QED BY <3>4, <4>1
      <3>6. Append(a, c) = [k \in 1 .. i |-> s[k]]
        <4>1. PICK p \in Seq(S) : p = Append(a, c) /\ Len(p) = i
          <5>1. Append(a, c) \in Seq(S) /\ Len(Append(a, c)) = i
            BY <3>3, <3>5
          <5> QED BY <5>1, Zenon
        <4>2. \A k \in 1 .. i : p[k] = s[k]
          BY <3>3, <3>4, <3>5, <4>1
        <4>3. p = [k \in 1 .. i |-> p[k]]
          <5>1. p = [k \in 1 .. Len(p) |-> p[k]]
            BY SequencePlaces
          <5> QED BY <4>1, <5>1
        <4> QED BY <4>1, <4>2, <4>3
      <3> QED BY <2>2, <3>1, <3>2, <3>3, <3>4, <3>6
    <2>4. CASE ~(i <= n)
      <3>1. first(i) = n /\ first(i - 1) = n /\ i \in n + 1 .. l
        BY <1>3, <2>4
      <3>2. s[i] \in set
        BY <1>1, <3>1
      <3> QED BY <2>2, <3>1, <3>2
    <2> QED BY <2>3, <2>4
  <1>7. u[l] = [i \in 1 .. n |-> s[i]]
    <2>1. l \in 0 .. l /\ first(l) = n
      BY <1>1, <1>3
    <2> QED BY <2>1
  <1> HIDE DEF u
  <1>8. Sifts(s, set, S, u)
    BY <1>1, <1>4, <1>5, <1>6 DEF Sifts
  <1>9. Leaving(s, set) = u[l]
    BY <1>1, <1>8, SiftsAreOne, Zenon
  <1> QED BY <1>7, <1>9

-----------------------------------------------------------------------------
\* A text with an element at its end.
Grows(s, x, t) == Len(t) = Len(s) + 1 /\ t[Len(s) + 1] = x /\ \A i \in 1 .. Len(s) : t[i] = s[i]

\* Append is that.
LEMMA Appended ==
  ASSUME NEW S, NEW s \in Seq(S), NEW x \in S
  PROVE  Append(s, x) \in Seq(S) /\ Grows(s, x, Append(s, x))
  <1>1. Append(s, x) \in Seq(S)
    OBVIOUS
  <1>2. Len(Append(s, x)) = Len(s) + 1
    OBVIOUS
  <1>3. Append(s, x)[Len(s) + 1] = x
    OBVIOUS
  <1>4. \A i \in 1 .. Len(s) : Append(s, x)[i] = s[i]
    OBVIOUS
  <1> QED BY <1>1, <1>2, <1>3, <1>4, Zenon DEF Grows

\* An element at the end of two texts is at the end of the second.
EndsTogether(a, v, x) == Append(a \o v, x) = a \o Append(v, x)

\* It is so of any texts.
LEMMA AppendJoins ==
  ASSUME NEW S, NEW a \in Seq(S), NEW v \in Seq(S), NEW x \in S
  PROVE  EndsTogether(a, v, x)
  <1>1. PICK m \in Nat, n \in Nat : m = Len(a) /\ n = Len(v)
    BY SequencePlaces
  <1>2. PICK r \in Seq(S) : r = Append(v, x) /\ Len(r) = n + 1 /\ r[n + 1] = x /\ \A i \in 1 .. n : r[i] = v[i]
    <2>1. Append(v, x) \in Seq(S) /\ Grows(v, x, Append(v, x))
      BY Appended
    <2> QED BY <1>1, <2>1 DEF Grows
  <1>3. PICK p \in Seq(S) : p = a \o v /\ Joins(a, v, p)
    BY AreJoined
  <1>4. PICK q \in Seq(S) : q = a \o r /\ Joins(a, r, q)
    BY AreJoined
  <1>5. PICK t \in Seq(S) : /\ t = Append(p, x) /\ Len(t) = m + n + 1 /\ t[m + n + 1] = x
                            /\ \A i \in 1 .. m + n : t[i] = p[i]
    <2>1. Len(p) = m + n
      BY <1>1, <1>3 DEF Joins
    <2>2. Append(p, x) \in Seq(S) /\ Grows(p, x, Append(p, x))
      BY Appended
    <2> QED BY <2>1, <2>2 DEF Grows
  <1>6. Len(q) = m + n + 1 /\ \A i \in 1 .. m : q[i] = a[i]
    BY <1>1, <1>2, <1>4 DEF Joins
  <1>7. \A j \in 1 .. n + 1 : q[m + j] = r[j]
    BY <1>1, <1>2, <1>4, Zenon DEF Joins
  <1>8. \A i \in 1 .. m : p[i] = a[i]
    BY <1>1, <1>3, Zenon DEF Joins
  <1>9. \A j \in 1 .. n : p[m + j] = v[j]
    BY <1>1, <1>3, Zenon DEF Joins
  <1>10. ASSUME NEW i \in 1 .. m + n + 1 PROVE t[i] = q[i]
    <2>1. CASE i \in 1 .. m
      <3>1. i \in 1 .. m + n
        BY <2>1
      <3> QED BY <1>5, <1>6, <1>8, <2>1, <3>1
    <2>2. CASE i = m + n + 1
      <3>1. n + 1 \in 1 .. n + 1 /\ m + (n + 1) = i
        BY <2>2
      <3>2. q[m + (n + 1)] = r[n + 1]
        BY <1>7, <3>1
      <3> QED BY <1>2, <1>5, <2>2, <3>1, <3>2
    <2>3. CASE i \notin 1 .. m /\ i # m + n + 1
      <3>1. PICK j \in 1 .. n : m + j = i
        <4>1. i - m \in 1 .. n /\ m + (i - m) = i
          BY <2>3
        <4> QED BY <4>1
      <3>2. i \in 1 .. m + n /\ j \in 1 .. n + 1
        BY <3>1
      <3> QED BY <1>2, <1>5, <1>7, <1>9, <3>1, <3>2
    <2> QED BY <2>1, <2>2, <2>3
  <1>11. t = q
    <2>1. t = [i \in 1 .. Len(t) |-> t[i]] /\ q = [i \in 1 .. Len(q) |-> q[i]]
      BY SequencePlaces
    <2>2. t = [i \in 1 .. m + n + 1 |-> t[i]]
      BY <1>5, <2>1
    <2>3. q = [i \in 1 .. m + n + 1 |-> q[i]]
      BY <1>6, <2>1
    <2> QED BY <1>10, <2>2, <2>3
  <1> QED BY <1>2, <1>3, <1>4, <1>5, <1>11 DEF EndsTogether

\* The first two characters of a text stay, and what is left of the rest follows.
KeepsTwo(s, kept, rest, set) ==
  /\ Len(kept) >= 2 /\ kept[1] = s[1] /\ kept[2] = s[2]
  /\ SubSeq(kept, 3, Len(kept)) = Leaving(rest, set)

\* They stay where neither is in the set.
LEMMA FirstIsLeft ==
  ASSUME NEW S, NEW s \in Seq(S), NEW set, Len(s) >= 2, s[1] \notin set, s[2] \notin set,
         NEW rest, rest = SubSeq(s, 3, Len(s))
  PROVE  rest \in Seq(S) /\ KeepsTwo(s, Leaving(s, set), rest, set)
  <1>1. PICK l \in Nat : Len(s) = 2 + l
    <2>1. Len(s) \in Nat
      BY SequencePlaces
    <2>2. Len(s) - 2 \in Nat /\ Len(s) = 2 + (Len(s) - 2)
      BY <2>1
    <2> QED BY <2>2, Zenon
  <1>2. rest \in Seq(S) /\ Len(rest) = l /\ \A i \in 1 .. l : rest[i] = s[2 + i]
    <2>1. 2 + l <= Len(s) /\ 2 \in Nat /\ rest = SubSeq(s, 2 + 1, 2 + l)
      BY <1>1
    <2> QED BY <2>1, Seen
  <1>3. PICK u : Sifts(s, set, S, u) /\ Leaving(s, set) = u[Len(s)]
    BY LeavingSifts
  <1>4. PICK w : Sifts(rest, set, S, w) /\ Leaving(rest, set) = w[Len(rest)]
    BY <1>2, LeavingSifts
  <1>5. /\ u \in [0 .. 2 + l -> Seq(S)] /\ u[0] = <<>>
        /\ \A i \in 1 .. 2 + l : u[i] = IF s[i] \in set THEN u[i - 1] ELSE Append(u[i - 1], s[i])
    BY <1>1, <1>3, Zenon DEF Sifts
  <1>6. /\ w \in [0 .. l -> Seq(S)] /\ w[0] = <<>>
        /\ \A i \in 1 .. l : w[i] = IF s[2 + i] \in set THEN w[i - 1] ELSE Append(w[i - 1], s[2 + i])
    <2>1. /\ w \in [0 .. l -> Seq(S)] /\ w[0] = <<>>
          /\ \A i \in 1 .. l : w[i] = IF rest[i] \in set THEN w[i - 1] ELSE Append(w[i - 1], rest[i])
      BY <1>2, <1>4, Zenon DEF Sifts
    <2> QED BY <1>2, <2>1, Zenon
  <1>7. PICK c \in S, d \in S : c = s[1] /\ d = s[2] /\ c \notin set /\ d \notin set
    <2>1. 1 \in 1 .. Len(s) /\ 2 \in 1 .. Len(s)
      BY <1>1
    <2>2. s[1] \in S /\ s[2] \in S
      BY <2>1, SequencePlaces
    <2> QED BY <2>2, Zenon
  <1>8. PICK a \in Seq(S) : a = u[2] /\ Len(a) = 2 /\ a[1] = c /\ a[2] = d
    <2>1. 1 \in 1 .. 2 + l /\ 2 \in 1 .. 2 + l /\ 1 - 1 = 0 /\ 2 - 1 = 1
      OBVIOUS
    <2>2. u[1] = Append(<<>>, c)
      BY <1>5, <1>7, <2>1
    <2>3. u[2] = Append(u[1], d)
      BY <1>5, <1>7, <2>1
    <2>4. PICK e \in Seq(S) : e = u[1] /\ Len(e) = 1 /\ e[1] = c
      <3>1. <<>> \in Seq(S) /\ Len(<<>>) = 0
        OBVIOUS
      <3>2. Append(<<>>, c) \in Seq(S) /\ Len(Append(<<>>, c)) = 1 /\ Append(<<>>, c)[1] = c
        BY <3>1
      <3> QED BY <2>2, <3>2, Zenon
    <2>5. Append(e, d) \in Seq(S) /\ Len(Append(e, d)) = 2 /\ Append(e, d)[1] = c /\ Append(e, d)[2] = d
      <3>1. 1 \in 1 .. Len(e) /\ Len(e) + 1 = 2
        BY <2>4
      <3>2. Append(e, d) \in Seq(S) /\ Grows(e, d, Append(e, d))
        BY <1>7, <2>4, Appended, Zenon
      <3> QED BY <2>4, <3>1, <3>2, Zenon DEF Grows
    <2>6. u[2] = Append(e, d)
      BY <2>3, <2>4
    <2> QED BY <2>5, <2>6, Zenon
  <1> DEFINE P == {i \in 0 .. l : u[2 + i] = a \o w[i]}
  <1>9. 0 \in P
    <2>1. a \o <<>> = a
      BY <1>8
    <2>2. 2 + 0 = 2 /\ 0 \in 0 .. l
      OBVIOUS
    <2>3. u[2 + 0] = a \o w[0]
      <3> HIDE DEF P
      <3> QED BY <1>6, <1>8, <2>1, <2>2, Zenon
    <2> QED BY <2>2, <2>3
  <1>10. ASSUME NEW i \in 1 .. l, i - 1 \in P PROVE i \in P
    <2>1. i \in 0 .. l /\ i - 1 \in 0 .. l /\ 2 + i \in 1 .. 2 + l /\ (2 + i) - 1 = 2 + (i - 1)
      OBVIOUS
    <2>2. PICK v \in Seq(S) : v = w[i - 1]
      BY <1>6, <2>1
    <2>3. u[2 + (i - 1)] = a \o v
      BY <1>10, <2>2
    <2>4. u[2 + i] = IF s[2 + i] \in set THEN a \o v ELSE Append(a \o v, s[2 + i])
      BY <1>5, <2>1, <2>3
    <2>5. w[i] = IF s[2 + i] \in set THEN v ELSE Append(v, s[2 + i])
      BY <1>6, <2>2
    <2>6. PICK x \in S : x = s[2 + i]
      BY <1>1, <2>1, SequencePlaces
    <2>7. Append(a \o v, x) = a \o Append(v, x)
      <3>1. EndsTogether(a, v, x)
        BY <1>8, <2>2, <2>6, AppendJoins
      <3> QED BY <3>1 DEF EndsTogether
    <2> QED BY <2>1, <2>4, <2>5, <2>6, <2>7
  <1> HIDE DEF P
  <1>11. \A i \in 0 .. l : i \in P
    BY <1>9, <1>10, Stepwise
  <1>12. PICK v \in Seq(S) : v = w[l] /\ v = Leaving(rest, set) /\ Leaving(s, set) = a \o v
    <2>1. l \in 0 .. l
      OBVIOUS
    <2>2. w[l] \in Seq(S)
      BY <1>6, <2>1
    <2>3. u[2 + l] = a \o w[l]
      BY <1>11, <2>1 DEF P
    <2> QED BY <1>1, <1>2, <1>3, <1>4, <2>2, <2>3
  <1>13. PICK b \in Seq(S) : b = Leaving(s, set) /\ b = a \o v /\ Joins(a, v, b)
    BY <1>8, <1>12, AreJoined
  <1>14. Len(v) \in Nat /\ Len(b) = 2 + Len(v) /\ b[1] = c /\ b[2] = d /\ \A i \in 1 .. Len(v) : b[2 + i] = v[i]
    <2>1. Len(v) \in Nat
      BY <1>12, SequencePlaces
    <2>2. 1 \in 1 .. Len(a) /\ 2 \in 1 .. Len(a)
      BY <1>8
    <2>3. Len(b) = Len(a) + Len(v) /\ b[1] = a[1] /\ b[2] = a[2] /\ \A i \in 1 .. Len(v) : b[Len(a) + i] = v[i]
      BY <1>13, <2>2, Zenon DEF Joins
    <2> QED BY <1>8, <2>1, <2>3, Zenon
  <1>15. SubSeq(b, 2 + 1, 2 + Len(v)) = v
    <2>1. 2 + Len(v) <= Len(b) /\ 2 \in Nat
      BY <1>14
    <2> QED BY <1>14, <2>1, Window, Zenon
  <1>16. Len(b) >= 2 /\ SubSeq(b, 3, Len(b)) = v
    BY <1>14, <1>15
  <1> QED BY <1>2, <1>7, <1>12, <1>13, <1>14, <1>16 DEF KeepsTwo

-----------------------------------------------------------------------------
\* The two digits of a byte.
LEMMA DigitsOfByte ==
  ASSUME NEW h \in 0 .. 15, NEW l \in 0 .. 15
  PROVE  (16 * h + l) \div 16 = h /\ (16 * h + l) % 16 = l
  BY SMT

\* Digits in pairs, read and written, are those digits in capitals.
LEMMA PairsAreWrittenBack ==
  ASSUME NEW S, NEW k \in Seq(S), Range(k) \subseteq HexDigits, Len(k) % 2 = 0
  PROVE  HexEncodeUpper(PairsToBytes(k)) = UpperCase(k)
  <1>1. PICK n \in Nat : Len(k) = 2 * n
    <2>1. Len(k) \in Nat
      BY SequencePlaces
    <2>2. Len(k) \div 2 \in Nat /\ Len(k) = 2 * (Len(k) \div 2)
      BY <2>1
    <2> QED BY <2>2, Zenon
  <1>2. \A i \in 1 .. 2 * n : k[i] \in HexDigits
    <2>1. DOMAIN k = 1 .. 2 * n
      BY <1>1
    <2> QED BY <2>1 DEF Range
  <1>3. \A i \in 1 .. 2 * n : HexVal[k[i]] \in 0 .. 15 /\ HEX_UPPER[HexVal[k[i]] + 1] = UpperOf(k[i])
    BY <1>2, HexAlphabet, Zenon
  <1> DEFINE b == [i \in 1 .. n |-> 16 * HexVal[k[2 * i - 1]] + HexVal[k[2 * i]]]
  <1>4. PairsToBytes(k) = b
    <2>1. Len(k) \div 2 = n
      BY <1>1
    <2> QED BY <2>1, Zenon DEF PairsToBytes
  <1>5. Len(b) = n /\ \A i \in 1 .. n : b[i] = 16 * HexVal[k[2 * i - 1]] + HexVal[k[2 * i]]
    OBVIOUS
  <1> HIDE DEF b
  <1>6. ASSUME NEW j \in 1 .. n
        PROVE  b[j] \div 16 = HexVal[k[2 * j - 1]] /\ b[j] % 16 = HexVal[k[2 * j]]
    <2>1. 2 * j - 1 \in 1 .. 2 * n /\ 2 * j \in 1 .. 2 * n
      OBVIOUS
    <2>2. PICK h \in 0 .. 15, l \in 0 .. 15 : h = HexVal[k[2 * j - 1]] /\ l = HexVal[k[2 * j]]
      BY <1>3, <2>1, Zenon
    <2>3. b[j] = 16 * h + l
      BY <1>5, <2>2
    <2>4. (16 * h + l) \div 16 = h /\ (16 * h + l) % 16 = l
      BY DigitsOfByte
    <2> QED BY <2>2, <2>3, <2>4, Zenon
  <1>7. ASSUME NEW i \in 1 .. 2 * n
        PROVE  (IF i % 2 = 1 THEN HEX_UPPER[(b[(i + 1) \div 2] \div 16) + 1]
                ELSE HEX_UPPER[(b[i \div 2] % 16) + 1]) = UpperOf(k[i])
    <2>1. CASE i % 2 = 1
      <3>1. PICK j \in 1 .. n : j = (i + 1) \div 2 /\ i = 2 * j - 1
        <4>1. (i + 1) \div 2 \in 1 .. n /\ i = 2 * ((i + 1) \div 2) - 1
          BY <2>1
        <4> QED BY <4>1, Zenon
      <3>2. b[j] \div 16 = HexVal[k[i]]
        BY <1>6, <3>1
      <3> QED BY <1>3, <2>1, <3>1, <3>2, Zenon
    <2>2. CASE i % 2 # 1
      <3>1. PICK j \in 1 .. n : j = i \div 2 /\ i = 2 * j
        <4>1. i \div 2 \in 1 .. n /\ i = 2 * (i \div 2)
          BY <2>2
        <4> QED BY <4>1, Zenon
      <3>2. b[j] % 16 = HexVal[k[i]]
        BY <1>6, <3>1
      <3> QED BY <1>3, <2>2, <3>1, <3>2, Zenon
    <2> QED BY <2>1, <2>2
  <1>8. HexEncodeUpper(b) = [i \in 1 .. 2 * n |-> UpperOf(k[i])]
    <2>1. HexEncodeUpper(b) = [i \in 1 .. 2 * n |->
                                IF i % 2 = 1 THEN HEX_UPPER[(b[(i + 1) \div 2] \div 16) + 1]
                                ELSE HEX_UPPER[(b[i \div 2] % 16) + 1]]
      BY <1>5, Zenon DEF HexEncodeUpper, HexOf
    <2> QED BY <1>7, <2>1, Zenon
  <1>9. UpperCase(k) = [i \in 1 .. 2 * n |-> UpperOf(k[i])]
    <2>1. DOMAIN k = 1 .. 2 * n
      BY <1>1
    <2> QED BY <2>1, Zenon DEF UpperCase
  <1> QED BY <1>4, <1>8, <1>9

\* Bytes that are written as digits are read back.
LEMMA HexIsReadBack ==
  ASSUME NEW v \in Seq(0 .. 255)
  PROVE  HexDecode(HexEncodeUpper(v)) = v
  <1>1. PICK n \in Nat : n = Len(v) /\ v = [i \in 1 .. n |-> v[i]] /\ \A i \in 1 .. n : v[i] \in 0 .. 255
    BY SequencePlaces
  <1> DEFINE digit(i) == IF i % 2 = 1 THEN (v[(i + 1) \div 2] \div 16) + 1 ELSE (v[i \div 2] % 16) + 1
             e == [i \in 1 .. 2 * n |-> HEX_UPPER[digit(i)]]
  <1>2. HexEncodeUpper(v) = e
    <2>1. HexEncodeUpper(v) = [i \in 1 .. 2 * n |-> IF i % 2 = 1 THEN HEX_UPPER[(v[(i + 1) \div 2] \div 16) + 1]
                                                    ELSE HEX_UPPER[(v[i \div 2] % 16) + 1]]
      BY <1>1, Zenon DEF HexEncodeUpper, HexOf
    <2>2. \A i \in 1 .. 2 * n : (IF i % 2 = 1 THEN HEX_UPPER[(v[(i + 1) \div 2] \div 16) + 1]
                                 ELSE HEX_UPPER[(v[i \div 2] % 16) + 1]) = HEX_UPPER[digit(i)]
      BY Zenon
    <2> QED BY <2>1, <2>2, Zenon
  <1>3. ASSUME NEW j \in 1 .. n
        PROVE  /\ 2 * j - 1 \in 1 .. 2 * n /\ digit(2 * j - 1) = (v[j] \div 16) + 1
               /\ 2 * j \in 1 .. 2 * n /\ digit(2 * j) = (v[j] % 16) + 1
    <2>1. 2 * j - 1 \in 1 .. 2 * n /\ 2 * j \in 1 .. 2 * n
      OBVIOUS
    <2>2. (2 * j - 1) % 2 = 1 /\ ((2 * j - 1) + 1) \div 2 = j /\ (2 * j) % 2 # 1 /\ (2 * j) \div 2 = j
      OBVIOUS
    <2> QED BY <2>1, <2>2, Zenon
  <1>4. \A i \in 1 .. 2 * n : digit(i) \in 1 .. 16
    <2> SUFFICES ASSUME NEW i \in 1 .. 2 * n PROVE digit(i) \in 1 .. 16
      OBVIOUS
    <2>1. CASE i % 2 = 1
      <3>1. PICK j \in 1 .. n : j = (i + 1) \div 2
        <4>1. (i + 1) \div 2 \in 1 .. n
          BY <2>1
        <4> QED BY <4>1, Zenon
      <3>2. PICK b \in 0 .. 255 : b = v[j]
        BY <1>1
      <3>3. (b \div 16) + 1 \in 1 .. 16
        OBVIOUS
      <3> QED BY <2>1, <3>1, <3>2, <3>3, Zenon
    <2>2. CASE i % 2 # 1
      <3>1. PICK j \in 1 .. n : j = i \div 2
        <4>1. i \div 2 \in 1 .. n
          BY <2>2
        <4> QED BY <4>1, Zenon
      <3>2. PICK b \in 0 .. 255 : b = v[j]
        BY <1>1
      <3>3. (b % 16) + 1 \in 1 .. 16
        OBVIOUS
      <3> QED BY <2>2, <3>1, <3>2, <3>3, Zenon
    <2> QED BY <2>1, <2>2
  <1> HIDE DEF digit
  <1>5. \A i \in 1 .. 2 * n : e[i] = HEX_UPPER[digit(i)] /\ e[i] \in HexDigits /\ HexVal[e[i]] = digit(i) - 1
    <2>1. \A i \in 1 .. 2 * n : e[i] = HEX_UPPER[digit(i)]
      OBVIOUS
    <2> HIDE DEF e
    <2> QED BY <1>4, <2>1, HexAlphabet, Zenon
  <1>6. e \in Seq(HexDigits) /\ Len(e) = 2 * n /\ DOMAIN e = 1 .. 2 * n
    <2>1. 2 * n \in Nat /\ e \in [1 .. 2 * n -> HexDigits]
      BY <1>5
    <2> QED BY <2>1
  <1> HIDE DEF e
  <1>7. WithoutPrefix(e) = e
    <2>1. ~(Len(e) >= 2 /\ e[1] = "0" /\ e[2] \in {"x", "X"})
      <3> SUFFICES ASSUME Len(e) >= 2, e[2] \in {"x", "X"} PROVE FALSE
        OBVIOUS
      <3>1. 2 \in 1 .. 2 * n
        BY <1>6
      <3>2. e[2] \in HexDigits
        BY <1>5, <3>1
      <3> QED BY <3>2, HexAlphabet
    <2> QED BY <2>1, Zenon DEF WithoutPrefix
  <1>8. Leaving(e, AsciiSpace) = e
    <2>1. \A i \in 1 .. 2 * n : e[i] \notin AsciiSpace
      BY <1>5, HexAlphabet, Zenon
    <2>2. 2 * n \in 0 .. Len(e) /\ \A i \in 2 * n + 1 .. Len(e) : e[i] \in AsciiSpace
      BY <1>6
    <2>3. Leaving(e, AsciiSpace) = [i \in 1 .. 2 * n |-> e[i]]
      BY <1>6, <2>1, <2>2, BeginningIsLeft
    <2>4. e = [i \in 1 .. 2 * n |-> e[i]]
      BY <1>6, SequencePlaces
    <2> QED BY <2>3, <2>4
  <1>9. Range(e) \subseteq HexDigits
    BY <1>5, <1>6 DEF Range
  <1>10. PairsToBytes(e) = [i \in 1 .. n |-> 16 * HexVal[e[2 * i - 1]] + HexVal[e[2 * i]]]
    <2>1. Len(e) \div 2 = n /\ ~(Len(e) % 2 # 0)
      BY <1>6
    <2> QED BY <2>1, Zenon DEF PairsToBytes
  <1>11. \A j \in 1 .. n : 16 * HexVal[e[2 * j - 1]] + HexVal[e[2 * j]] = v[j]
    <2> SUFFICES ASSUME NEW j \in 1 .. n PROVE 16 * HexVal[e[2 * j - 1]] + HexVal[e[2 * j]] = v[j]
      OBVIOUS
    <2>1. HexVal[e[2 * j - 1]] = ((v[j] \div 16) + 1) - 1 /\ HexVal[e[2 * j]] = ((v[j] % 16) + 1) - 1
      BY <1>3, <1>5, Zenon
    <2>2. PICK b \in 0 .. 255 : b = v[j]
      BY <1>1
    <2>3. b \div 16 \in Int /\ b % 16 \in Int /\ 16 * (b \div 16) + (b % 16) = b
      OBVIOUS
    <2> QED BY <2>1, <2>2, <2>3
  <1>12. PairsToBytes(e) = v
    BY <1>1, <1>10, <1>11
  <1> QED BY <1>2, <1>7, <1>8, <1>9, <1>12 DEF HexDecode, HexOnly

\* What hex_decode reads of a text is, written again, the text without white space and
\* prefix, in capitals.
LEMMA HexIsExact ==
  ASSUME NEW S, NEW s \in Seq(S), HexDecode(s) # NONE,
         NEW kept, kept = Leaving(s, AsciiSpace)
  PROVE  HexEncodeUpper(HexDecode(s)) =
           UpperCase(IF {"x", "X"} \intersect Range(kept) # {} THEN SubSeq(kept, 3, Len(kept)) ELSE kept)
  <1> DEFINE rest == SubSeq(s, 3, Len(s))
             prefix == Len(s) >= 2 /\ s[1] = "0" /\ s[2] \in {"x", "X"}
  <1>1. PICK k : k = Leaving(WithoutPrefix(s), AsciiSpace)
    OBVIOUS
  <1>2. Range(k) \subseteq HexDigits /\ ~(Len(k) % 2 # 0) /\ HexDecode(s) = PairsToBytes(k)
    BY <1>1, Zenon DEF HexDecode, HexOnly, PairsToBytes
  <1>3. /\ k \in Seq(S)
        /\ k = IF {"x", "X"} \intersect Range(kept) # {} THEN SubSeq(kept, 3, Len(kept)) ELSE kept
    <2>1. CASE prefix
      <3>1. s[1] \notin AsciiSpace /\ s[2] \notin AsciiSpace
        BY <2>1 DEF AsciiSpace
      <3>2. /\ rest \in Seq(S) /\ Len(kept) >= 2 /\ kept[2] = s[2]
            /\ SubSeq(kept, 3, Len(kept)) = Leaving(rest, AsciiSpace)
        <4>1. rest \in Seq(S) /\ KeepsTwo(s, Leaving(s, AsciiSpace), rest, AsciiSpace)
          BY <2>1, <3>1, FirstIsLeft
        <4> QED BY <4>1, Zenon DEF KeepsTwo
      <3>3. k = SubSeq(kept, 3, Len(kept))
        BY <1>1, <2>1, <3>2, Zenon DEF WithoutPrefix
      <3>4. kept \in Seq(S)
        BY LeftIsText
      <3>5. 2 \in DOMAIN kept
        BY <3>2, <3>4
      <3>6. s[2] \in {"x", "X"} \intersect Range(kept)
        BY <2>1, <3>2, <3>5, Zenon DEF Range
      <3>7. k \in Seq(S)
        BY <3>2, <3>3, LeftIsText
      <3> QED BY <3>3, <3>6, <3>7, Zenon
    <2>2. CASE ~prefix
      <3>1. k = kept
        BY <1>1, <2>2, Zenon DEF WithoutPrefix
      <3>2. {"x", "X"} \intersect Range(kept) = {}
        <4>1. \A c \in HexDigits : c # "x" /\ c # "X"
          BY HexAlphabet
        <4> QED BY <1>2, <3>1, <4>1
      <3>3. k \in Seq(S)
        BY <3>1, LeftIsText
      <3> QED BY <3>1, <3>2, <3>3, Zenon
    <2> QED BY <2>1, <2>2
  <1>4. HexEncodeUpper(PairsToBytes(k)) = UpperCase(k)
    <2>1. Len(k) % 2 = 0
      BY <1>2
    <2> QED BY <1>2, <1>3, <2>1, PairsAreWrittenBack
  <1> QED BY <1>2, <1>3, <1>4, Zenon

-----------------------------------------------------------------------------
(***************************************************************************)
(* Base64: what Take6 has after i sextets is four cases of i, and so is a  *)
(* byte of it; the four characters of a chunk are four cases as well.      *)
(***************************************************************************)
\* The bits that wait after i sextets, and what they are.
Waiting(i) == IF i % 4 = 0 THEN 0 ELSE 8 - 2 * (i % 4)
Waits(x, i) ==
  IF i % 4 = 0 THEN 0 ELSE IF i % 4 = 1 THEN x[i] ELSE IF i % 4 = 2 THEN x[i] % 16 ELSE x[i] % 4

\* The byte that sextet i completes, if i is not the first of four.
Completed(x, i) ==
  IF i % 4 = 2 THEN 4 * x[i - 1] + (x[i] \div 16)
  ELSE IF i % 4 = 3 THEN 16 * (x[i - 1] % 16) + (x[i] \div 4) ELSE 64 * (x[i - 1] % 4) + x[i]

\* Byte j, and all of them.
ByteOf(x, j) == Completed(x, 4 * ((j - 1) \div 3) + 2 + ((j - 1) % 3))
BytesOf(x, i) == [j \in 1 .. (3 * i) \div 4 |-> ByteOf(x, j)]

AfterSextets(x, i) == [out |-> BytesOf(x, i), acc |-> Waits(x, i), bits |-> Waiting(i)]

\* A number falls in one of four places, and in one of three.
LEMMA FourPlaces ==
  ASSUME NEW i \in Nat
  PROVE  \E g \in Nat : i = 4 * g \/ i = 4 * g + 1 \/ i = 4 * g + 2 \/ i = 4 * g + 3
  <1>1. i \div 4 \in Nat /\ i = 4 * (i \div 4) + (i % 4) /\ i % 4 \in 0 .. 3
    BY SMT
  <1>2. PICK g \in Nat, r \in 0 .. 3 : i = 4 * g + r
    BY <1>1, Zenon
  <1> QED BY <1>2

\* A number falls in one of three places.
LEMMA ThreePlaces ==
  ASSUME NEW j \in Nat
  PROVE  \E g \in Nat : j = 3 * g \/ j = 3 * g + 1 \/ j = 3 * g + 2
  <1>1. j \div 3 \in Nat /\ j = 3 * (j \div 3) + (j % 3) /\ j % 3 \in 0 .. 2
    BY SMT
  <1>2. PICK g \in Nat, r \in 0 .. 2 : j = 3 * g + r
    BY <1>1, Zenon
  <1> QED BY <1>2

\* The remainders of the four places, and the bytes complete there.
RemaindersOf(g) ==
  /\ (4 * g) % 4 = 0 /\ (4 * g + 1) % 4 = 1 /\ (4 * g + 2) % 4 = 2 /\ (4 * g + 3) % 4 = 3
  /\ (4 * g + 4) % 4 = 0
  /\ (3 * (4 * g)) \div 4 = 3 * g /\ (3 * (4 * g + 1)) \div 4 = 3 * g
  /\ (3 * (4 * g + 2)) \div 4 = 3 * g + 1 /\ (3 * (4 * g + 3)) \div 4 = 3 * g + 2
  /\ (3 * (4 * g + 4)) \div 4 = 3 * g + 3

\* They are that.
LEMMA FourRemainders ==
  ASSUME NEW g \in Int
  PROVE  RemaindersOf(g)
  BY SMT DEF RemaindersOf

\* Where the bytes of four sextets come from.
FourIntoThree(x, g) ==
  /\ ByteOf(x, 3 * g + 1) = 4 * x[4 * g + 1] + (x[4 * g + 2] \div 16)
  /\ ByteOf(x, 3 * g + 2) = 16 * (x[4 * g + 2] % 16) + (x[4 * g + 3] \div 4)
  /\ ByteOf(x, 3 * g + 3) = 64 * (x[4 * g + 3] % 4) + x[4 * g + 4]

\* They come from there.
LEMMA BytesOfFour ==
  ASSUME NEW x, NEW g \in Int
  PROVE  FourIntoThree(x, g)
  <1>1. /\ 4 * (((3 * g + 1) - 1) \div 3) + 2 + (((3 * g + 1) - 1) % 3) = 4 * g + 2
        /\ 4 * (((3 * g + 2) - 1) \div 3) + 2 + (((3 * g + 2) - 1) % 3) = 4 * g + 3
        /\ 4 * (((3 * g + 3) - 1) \div 3) + 2 + (((3 * g + 3) - 1) % 3) = 4 * g + 4
    BY SMT
  <1>2. (4 * g + 2) - 1 = 4 * g + 1 /\ (4 * g + 3) - 1 = 4 * g + 2 /\ (4 * g + 4) - 1 = 4 * g + 3
    OBVIOUS
  <1>3. 2 # 3 /\ 0 # 2 /\ 0 # 3
    OBVIOUS
  <1>4. ByteOf(x, 3 * g + 1) = Completed(x, 4 * g + 2) /\ ByteOf(x, 3 * g + 2) = Completed(x, 4 * g + 3)
        /\ ByteOf(x, 3 * g + 3) = Completed(x, 4 * g + 4)
    BY <1>1, Zenon DEF ByteOf
  <1>8. RemaindersOf(g)
    BY FourRemainders
  <1>5. Completed(x, 4 * g + 2) = 4 * x[4 * g + 1] + (x[4 * g + 2] \div 16)
    BY <1>2, <1>3, <1>8, Zenon DEF Completed, RemaindersOf
  <1>6. Completed(x, 4 * g + 3) = 16 * (x[4 * g + 2] % 16) + (x[4 * g + 3] \div 4)
    BY <1>2, <1>3, <1>8, Zenon DEF Completed, RemaindersOf
  <1>7. Completed(x, 4 * g + 4) = 64 * (x[4 * g + 3] % 4) + x[4 * g + 4]
    BY <1>2, <1>3, <1>8, Zenon DEF Completed, RemaindersOf
  <1> QED BY <1>4, <1>5, <1>6, <1>7, Zenon DEF FourIntoThree

\* A list with one more place.
LEMMA OnePlaceMore ==
  ASSUME NEW k \in Nat, NEW f, NEW a, a = [j \in 1 .. k |-> f[j]]
  PROVE  Append(a, f[k + 1]) = [j \in 1 .. k + 1 |-> f[j]]
  <1> DEFINE S == {f[j] : j \in 1 .. k + 1}
  <1>1. \A j \in 1 .. k + 1 : f[j] \in S
    OBVIOUS
  <1>2. k + 1 \in 1 .. k + 1 /\ \A j \in 1 .. k : j \in 1 .. k + 1
    OBVIOUS
  <1>3. f[k + 1] \in S
    BY <1>1, <1>2
  <1>4. \A j \in 1 .. k : f[j] \in S
    BY <1>1, <1>2
  <1> HIDE DEF S
  <1>5. PICK y \in S : y = f[k + 1]
    BY <1>3
  <1>6. a \in Seq(S) /\ Len(a) = k /\ \A j \in 1 .. k : a[j] = f[j]
    BY <1>4
  <1>7. Append(a, y) \in Seq(S) /\ Grows(a, y, Append(a, y))
    BY <1>6, Appended
  <1>8. PICK t \in Seq(S) : t = Append(a, y) /\ Grows(a, y, t)
    BY <1>7
  <1>9. t = [j \in 1 .. k + 1 |-> t[j]]
    <2>1. t = [j \in 1 .. Len(t) |-> t[j]]
      BY SequencePlaces
    <2>2. Len(t) = k + 1
      BY <1>6, <1>8 DEF Grows
    <2> QED BY <2>1, <2>2
  <1>10. ASSUME NEW j \in 1 .. k + 1 PROVE t[j] = f[j]
    <2>1. CASE j = k + 1
      BY <1>5, <1>6, <1>8, <2>1 DEF Grows
    <2>2. CASE j # k + 1
      <3>1. j \in 1 .. k
        BY <2>2
      <3> QED BY <1>6, <1>8, <3>1, Zenon DEF Grows
    <2> QED BY <2>1, <2>2
  <1> QED BY <1>5, <1>8, <1>9, <1>10, Zenon

\* The bytes with one byte more.
LEMMA OneByteMore ==
  ASSUME NEW x, NEW k \in Nat
  PROVE  Append([j \in 1 .. k |-> ByteOf(x, j)], ByteOf(x, k + 1)) = [j \in 1 .. k + 1 |-> ByteOf(x, j)]
  <1> DEFINE f == [j \in 1 .. k + 1 |-> ByteOf(x, j)]
  <1>1. k + 1 \in 1 .. k + 1 /\ \A j \in 1 .. k : j \in 1 .. k + 1
    OBVIOUS
  <1>2. [j \in 1 .. k |-> ByteOf(x, j)] = [j \in 1 .. k |-> f[j]]
    BY <1>1, Zenon
  <1>3. f[k + 1] = ByteOf(x, k + 1) /\ f = [j \in 1 .. k + 1 |-> f[j]]
    BY <1>1, Zenon
  <1> HIDE DEF f
  <1>4. PICK a : a = [j \in 1 .. k |-> ByteOf(x, j)]
    OBVIOUS
  <1>5. Append(a, f[k + 1]) = [j \in 1 .. k + 1 |-> f[j]]
    <2>1. a = [j \in 1 .. k |-> f[j]]
      BY <1>2, <1>4, Zenon
    <2> QED BY ONLY k \in Nat, <2>1, OnePlaceMore
  <1>6. Append([j \in 1 .. k |-> ByteOf(x, j)], ByteOf(x, k + 1)) = f
    BY <1>3, <1>4, <1>5, Zenon
  <1> QED BY <1>6, Zenon DEF f

\* What Take6 does with each number of bits.
TakesOf(o, a, v) ==
  /\ Take6([out |-> o, acc |-> 0, bits |-> 0], v) = [out |-> o, acc |-> v, bits |-> 6]
  /\ Take6([out |-> o, acc |-> a, bits |-> 6], v) =
       [out |-> Append(o, 4 * a + (v \div 16)), acc |-> v % 16, bits |-> 4]
  /\ Take6([out |-> o, acc |-> a, bits |-> 4], v) =
       [out |-> Append(o, 16 * a + (v \div 4)), acc |-> v % 4, bits |-> 2]
  /\ Take6([out |-> o, acc |-> a, bits |-> 2], v) = [out |-> Append(o, 64 * a + v), acc |-> 0, bits |-> 0]

\* It does that.
LEMMA FourTakes ==
  ASSUME NEW o, NEW a \in 0 .. 63, NEW v \in 0 .. 63
  PROVE  TakesOf(o, a, v)
  <1>1. Span[0] = 1 /\ Span[2] = 4 /\ Span[4] = 16
    BY SMT DEF Span
  <1>2. 0 * 64 + v = v /\ 0 + 6 = 6 /\ 6 - 2 = 4 /\ 4 - 2 = 2 /\ 2 - 2 = 0 /\ 0 < 2 /\ ~(6 < 2) /\ ~(4 < 2) /\ ~(2 < 2)
    OBVIOUS
  <1>3. (a * 64 + v) \div 16 = 4 * a + (v \div 16) /\ (a * 64 + v) % 16 = v % 16
    BY SMT
  <1>4. (a * 64 + v) \div 4 = 16 * a + (v \div 4) /\ (a * 64 + v) % 4 = v % 4
    BY SMT
  <1>5. (a * 64 + v) \div 1 = 64 * a + v /\ (a * 64 + v) % 1 = 0
    BY SMT
  <1>6. Take6([out |-> o, acc |-> 0, bits |-> 0], v) = [out |-> o, acc |-> v, bits |-> 6]
    <2>1. PICK st : st = [out |-> o, acc |-> 0, bits |-> 0]
      OBVIOUS
    <2>2. st.out = o /\ st.acc = 0 /\ st.bits = 0
      BY <2>1
    <2>3. Take6(st, v) = [out |-> o, acc |-> v, bits |-> 6]
      BY <1>2, <2>2, Zenon DEF Take6
    <2> QED BY <2>1, <2>3
  <1>7. ASSUME NEW n, n \in {6, 4, 2}
        PROVE  Take6([out |-> o, acc |-> a, bits |-> n], v) =
                 [out |-> Append(o, (a * 64 + v) \div Span[n - 2]), acc |-> (a * 64 + v) % Span[n - 2], bits |-> n - 2]
    <2>1. PICK st : st = [out |-> o, acc |-> a, bits |-> n]
      OBVIOUS
    <2>2. st.out = o /\ st.acc = a /\ st.bits = n
      BY <2>1
    <2>3. ~(n < 2)
      BY <1>2, <1>7, Zenon
    <2>4. Take6(st, v) = [out |-> Append(o, (a * 64 + v) \div Span[n - 2]),
                          acc |-> (a * 64 + v) % Span[n - 2], bits |-> n - 2]
      BY <2>2, <2>3, Zenon DEF Take6
    <2> QED BY <2>1, <2>4
  <1>8. 6 \in {6, 4, 2} /\ 4 \in {6, 4, 2} /\ 2 \in {6, 4, 2}
    OBVIOUS
  <1>9. Take6([out |-> o, acc |-> a, bits |-> 6], v) =
          [out |-> Append(o, 4 * a + (v \div 16)), acc |-> v % 16, bits |-> 4]
    BY <1>1, <1>2, <1>3, <1>7, <1>8, Zenon
  <1>10. Take6([out |-> o, acc |-> a, bits |-> 4], v) =
           [out |-> Append(o, 16 * a + (v \div 4)), acc |-> v % 4, bits |-> 2]
    BY <1>1, <1>2, <1>4, <1>7, <1>8, Zenon
  <1>11. Take6([out |-> o, acc |-> a, bits |-> 2], v) = [out |-> Append(o, 64 * a + v), acc |-> 0, bits |-> 0]
    BY <1>1, <1>2, <1>5, <1>7, <1>8, Zenon
  <1> QED BY <1>6, <1>9, <1>10, <1>11, Zenon DEF TakesOf

\* Take6 goes from what there is after one sextet to what there is after the next.
LEMMA NextSextet ==
  ASSUME NEW m \in Nat, NEW x, \A i \in 1 .. m : x[i] \in 0 .. 63, NEW i \in 1 .. m
  PROVE  AfterSextets(x, i) = Take6(AfterSextets(x, i - 1), x[i])
  <1>1. PICK g \in Nat : i - 1 = 4 * g \/ i - 1 = 4 * g + 1 \/ i - 1 = 4 * g + 2 \/ i - 1 = 4 * g + 3
    <2>1. i - 1 \in Nat
      OBVIOUS
    <2> QED BY <2>1, FourPlaces
  <1>2. PICK v \in 0 .. 63 : v = x[i]
    OBVIOUS
  <1> DEFINE upto(k) == [j \in 1 .. k |-> ByteOf(x, j)]
  <1>3. \A k \in Nat : Append(upto(k), ByteOf(x, k + 1)) = upto(k + 1)
    BY OneByteMore
  <1> HIDE DEF upto
  <1>4. /\ 1 # 0 /\ 2 # 0 /\ 3 # 0 /\ 2 # 1 /\ 3 # 1 /\ 3 # 2
        /\ 8 - 2 * 1 = 6 /\ 8 - 2 * 2 = 4 /\ 8 - 2 * 3 = 2
        /\ 3 * g \in Nat /\ 3 * g + 1 \in Nat /\ 3 * g + 2 \in Nat
        /\ (3 * g + 1) + 1 = 3 * g + 2 /\ (3 * g + 2) + 1 = 3 * g + 3
    OBVIOUS
  <1>14. RemaindersOf(g) /\ FourIntoThree(x, g)
    BY FourRemainders, BytesOfFour
  <1>5. AfterSextets(x, 4 * g) = [out |-> upto(3 * g), acc |-> 0, bits |-> 0]
    BY <1>4, <1>14, Zenon DEF AfterSextets, BytesOf, Waits, Waiting, upto, RemaindersOf
  <1>6. AfterSextets(x, 4 * g + 1) = [out |-> upto(3 * g), acc |-> x[4 * g + 1], bits |-> 6]
    BY <1>4, <1>14, Zenon DEF AfterSextets, BytesOf, Waits, Waiting, upto, RemaindersOf
  <1>7. AfterSextets(x, 4 * g + 2) = [out |-> upto(3 * g + 1), acc |-> x[4 * g + 2] % 16, bits |-> 4]
    BY <1>4, <1>14, Zenon DEF AfterSextets, BytesOf, Waits, Waiting, upto, RemaindersOf
  <1>8. AfterSextets(x, 4 * g + 3) = [out |-> upto(3 * g + 2), acc |-> x[4 * g + 3] % 4, bits |-> 2]
    BY <1>4, <1>14, Zenon DEF AfterSextets, BytesOf, Waits, Waiting, upto, RemaindersOf
  <1>9. AfterSextets(x, 4 * g + 4) = [out |-> upto(3 * g + 3), acc |-> 0, bits |-> 0]
    BY <1>4, <1>14, Zenon DEF AfterSextets, BytesOf, Waits, Waiting, upto, RemaindersOf
  <1>10. CASE i - 1 = 4 * g
    <2>1. i = 4 * g + 1
      BY <1>10
    <2>2. TakesOf(upto(3 * g), v, v)
      BY FourTakes
    <2> QED BY <1>2, <1>5, <1>6, <1>10, <2>1, <2>2, Zenon DEF TakesOf
  <1>11. CASE i - 1 = 4 * g + 1
    <2>1. i = 4 * g + 2 /\ 4 * g + 1 \in 1 .. m
      BY <1>11
    <2>2. PICK a \in 0 .. 63 : a = x[4 * g + 1]
      BY <2>1
    <2>3. Append(upto(3 * g), 4 * a + (v \div 16)) = upto(3 * g + 1)
      BY <1>2, <1>3, <1>4, <1>14, <2>1, <2>2, Zenon DEF FourIntoThree
    <2>4. TakesOf(upto(3 * g), a, v)
      BY FourTakes
    <2> QED BY <1>2, <1>6, <1>7, <1>11, <2>1, <2>2, <2>3, <2>4, Zenon DEF TakesOf
  <1>12. CASE i - 1 = 4 * g + 2
    <2>1. i = 4 * g + 3 /\ 4 * g + 2 \in 1 .. m
      BY <1>12
    <2>2. PICK a \in 0 .. 63 : a = x[4 * g + 2] % 16
      <3>1. PICK y \in 0 .. 63 : y = x[4 * g + 2]
        BY <2>1
      <3>2. y % 16 \in 0 .. 63
        OBVIOUS
      <3> QED BY <3>1, <3>2, Zenon
    <2>3. Append(upto(3 * g + 1), 16 * a + (v \div 4)) = upto(3 * g + 2)
      BY <1>2, <1>3, <1>4, <1>14, <2>1, <2>2, Zenon DEF FourIntoThree
    <2>4. TakesOf(upto(3 * g + 1), a, v)
      BY FourTakes
    <2> QED BY <1>2, <1>7, <1>8, <1>12, <2>1, <2>2, <2>3, <2>4, Zenon DEF TakesOf
  <1>13. CASE i - 1 = 4 * g + 3
    <2>1. i = 4 * g + 4 /\ 4 * g + 3 \in 1 .. m
      BY <1>13
    <2>2. PICK a \in 0 .. 63 : a = x[4 * g + 3] % 4
      <3>1. PICK y \in 0 .. 63 : y = x[4 * g + 3]
        BY <2>1
      <3>2. y % 4 \in 0 .. 63
        OBVIOUS
      <3> QED BY <3>1, <3>2, Zenon
    <2>3. Append(upto(3 * g + 2), 64 * a + v) = upto(3 * g + 3)
      BY <1>2, <1>3, <1>4, <1>14, <2>1, <2>2, Zenon DEF FourIntoThree
    <2>4. TakesOf(upto(3 * g + 2), a, v)
      BY FourTakes
    <2> QED BY <1>2, <1>8, <1>9, <1>13, <2>1, <2>2, <2>3, <2>4, Zenon DEF TakesOf
  <1> QED BY <1>1, <1>10, <1>11, <1>12, <1>13

\* What is decoded of sextets: their bytes, when nothing waits.
DecodesTo(t, x, m) ==
  /\ \A i \in 1 .. m : x[i] \in 0 .. 63
  /\ Sextets(t) = IF Waiting(m) >= 6 \/ Waits(x, m) # 0 THEN NONE ELSE BytesOf(x, m)

\* It is that of any text in the alphabets.
LEMMA SextetsAreBytes ==
  ASSUME NEW S, NEW t \in Seq(S), Range(t) \subseteq DOMAIN Base64Val, NEW m \in Nat, m = Len(t),
         NEW x, x = [i \in 1 .. m |-> Base64Val[t[i]]]
  PROVE  DecodesTo(t, x, m)
  <1>1. \A i \in 1 .. m : t[i] \in DOMAIN Base64Val /\ x[i] = Base64Val[t[i]]
    <2>1. DOMAIN t = 1 .. m
      OBVIOUS
    <2> QED BY <2>1 DEF Range
  <1>2. \A i \in 1 .. m : x[i] \in 0 .. 63
    BY <1>1, Base64Alphabet, Zenon
  <1> DEFINE body(u) == [i \in 0 .. m |-> IF i = 0 THEN [out |-> <<>>, acc |-> 0, bits |-> 0]
                                         ELSE Take6(u[i - 1], Base64Val[t[i]])]
             u == CHOOSE u : u = body(u)
             w == [i \in 0 .. m |-> AfterSextets(x, i)]
  <1>3. Sextets(t) = Finished(u[m])
    BY Zenon DEF Sextets
  <1>4. AfterSextets(x, 0) = [out |-> <<>>, acc |-> 0, bits |-> 0]
    <2>1. 0 % 4 = 0 /\ (3 * 0) \div 4 = 0
      OBVIOUS
    <2>2. [j \in 1 .. 0 |-> ByteOf(x, j)] = <<>>
      OBVIOUS
    <2> QED BY <2>1, <2>2, Zenon DEF AfterSextets, BytesOf, Waits, Waiting
  <1>5. \A i \in 0 .. m : i = 0 \/ (i \in 1 .. m /\ i # 0 /\ i - 1 \in 0 .. m)
    OBVIOUS
  <1>6. \A i \in 1 .. m : AfterSextets(x, i) = Take6(AfterSextets(x, i - 1), Base64Val[t[i]])
    <2> SUFFICES ASSUME NEW i \in 1 .. m
                 PROVE  AfterSextets(x, i) = Take6(AfterSextets(x, i - 1), Base64Val[t[i]])
      OBVIOUS
    <2> HIDE DEF body, u, w
    <2>1. AfterSextets(x, i) = Take6(AfterSextets(x, i - 1), x[i])
      BY ONLY m \in Nat, <1>2, i \in 1 .. m, NextSextet
    <2> QED BY <1>1, <2>1, Zenon
  <1>7. w = body(w)
    <2>1. \A i \in 0 .. m : w[i] = AfterSextets(x, i)
      BY Zenon
    <2>2. \A i \in 0 .. m : AfterSextets(x, i) = IF i = 0 THEN [out |-> <<>>, acc |-> 0, bits |-> 0]
                                                 ELSE Take6(w[i - 1], Base64Val[t[i]])
      <3> HIDE DEF w
      <3> QED BY <1>4, <1>5, <1>6, <2>1, Zenon
    <2> QED BY <2>2, Zenon
  <1>8. u = body(u)
    <2> HIDE DEF body, w
    <2> QED BY <1>7
  <1>9. \A i \in 0 .. m : u[i] = IF i = 0 THEN [out |-> <<>>, acc |-> 0, bits |-> 0]
                                 ELSE Take6(u[i - 1], Base64Val[t[i]])
    <2> HIDE DEF u
    <2> QED BY <1>8, Zenon
  <1> HIDE DEF u, w, body
  <1> DEFINE P == {i \in 0 .. m : u[i] = AfterSextets(x, i)}
  <1>10. 0 \in P
    <2>1. 0 \in 0 .. m
      OBVIOUS
    <2> QED BY <1>4, <1>9, <2>1, Zenon
  <1>11. ASSUME NEW i \in 1 .. m, i - 1 \in P PROVE i \in P
    <2>1. u[i - 1] = AfterSextets(x, i - 1) /\ i \in 0 .. m /\ i # 0
      BY <1>11
    <2>2. u[i] = AfterSextets(x, i)
      BY <1>6, <1>9, <2>1, Zenon
    <2> QED BY <2>1, <2>2
  <1> HIDE DEF P
  <1>12. \A i \in 0 .. m : i \in P
    BY <1>10, <1>11, Stepwise
  <1>13. u[m] = AfterSextets(x, m)
    <2>1. m \in 0 .. m
      OBVIOUS
    <2> QED BY <1>12, <2>1 DEF P
  <1>14. AfterSextets(x, m).bits = Waiting(m) /\ AfterSextets(x, m).acc = Waits(x, m)
         /\ AfterSextets(x, m).out = BytesOf(x, m)
    BY DEF AfterSextets
  <1> QED BY <1>2, <1>3, <1>13, <1>14, Zenon DEF Finished, DecodesTo

-----------------------------------------------------------------------------
\* The bytes of a chunk, and its sextets.
OctetAt(b, k) == IF k \in DOMAIN b THEN b[k] ELSE 0
SextetOf(b, i) ==
  LET k == 3 * ((i - 1) \div 4)
      r == (i - 1) % 4
  IN  IF r = 0 THEN OctetAt(b, k + 1) \div 4
      ELSE IF r = 1 THEN 16 * (OctetAt(b, k + 1) % 4) + (OctetAt(b, k + 2) \div 16)
      ELSE IF r = 2 THEN 4 * (OctetAt(b, k + 2) % 16) + (OctetAt(b, k + 3) \div 64)
      ELSE OctetAt(b, k + 3) % 64

\* The sextets of chunk g.
ThreeIntoFour(b, g) ==
  /\ SextetOf(b, 4 * g + 1) = OctetAt(b, 3 * g + 1) \div 4
  /\ SextetOf(b, 4 * g + 2) = 16 * (OctetAt(b, 3 * g + 1) % 4) + (OctetAt(b, 3 * g + 2) \div 16)
  /\ SextetOf(b, 4 * g + 3) = 4 * (OctetAt(b, 3 * g + 2) % 16) + (OctetAt(b, 3 * g + 3) \div 64)
  /\ SextetOf(b, 4 * g + 4) = OctetAt(b, 3 * g + 3) % 64

\* They are those of its bytes.
LEMMA SextetsOfThree ==
  ASSUME NEW b, NEW g \in Int
  PROVE  ThreeIntoFour(b, g)
  <1>1. /\ ((4 * g + 1) - 1) \div 4 = g /\ ((4 * g + 1) - 1) % 4 = 0
        /\ ((4 * g + 2) - 1) \div 4 = g /\ ((4 * g + 2) - 1) % 4 = 1
        /\ ((4 * g + 3) - 1) \div 4 = g /\ ((4 * g + 3) - 1) % 4 = 2
        /\ ((4 * g + 4) - 1) \div 4 = g /\ ((4 * g + 4) - 1) % 4 = 3
    BY SMT
  <1>2. 1 # 0 /\ 2 # 0 /\ 3 # 0 /\ 2 # 1 /\ 3 # 1 /\ 3 # 2
    OBVIOUS
  <1>3. SextetOf(b, 4 * g + 1) = OctetAt(b, 3 * g + 1) \div 4
    BY <1>1, <1>2, Zenon DEF SextetOf
  <1>4. SextetOf(b, 4 * g + 2) = 16 * (OctetAt(b, 3 * g + 1) % 4) + (OctetAt(b, 3 * g + 2) \div 16)
    BY <1>1, <1>2, Zenon DEF SextetOf
  <1>5. SextetOf(b, 4 * g + 3) = 4 * (OctetAt(b, 3 * g + 2) % 16) + (OctetAt(b, 3 * g + 3) \div 64)
    BY <1>1, <1>2, Zenon DEF SextetOf
  <1>6. SextetOf(b, 4 * g + 4) = OctetAt(b, 3 * g + 3) % 64
    BY <1>1, <1>2, Zenon DEF SextetOf
  <1> QED BY <1>3, <1>4, <1>5, <1>6, Zenon DEF ThreeIntoFour

\* The number of three bytes, and what is left of it six bits at a time.
ThreeOctets(x, y, z) == x * 65536 + y * 256 + z
InSixes(n) == <<n \div 262144, n \div 4096, n \div 64, n>>

\* Four sextets of three bytes.
SixesOf(c, x, y, z) ==
  /\ c[1] % 64 = x \div 4 /\ c[2] % 64 = 16 * (x % 4) + (y \div 16)
  /\ c[3] % 64 = 4 * (y % 16) + (z \div 64) /\ c[4] % 64 = z % 64

\* They are the last six bits of each.
LEMMA BitsOfThree ==
  ASSUME NEW x \in 0 .. 255, NEW y \in 0 .. 255, NEW z \in 0 .. 255
  PROVE  ThreeOctets(x, y, z) \in Nat /\ SixesOf(InSixes(ThreeOctets(x, y, z)), x, y, z)
  <1>17. PICK n : n = ThreeOctets(x, y, z)
    OBVIOUS
  <1>18. n = x * 65536 + y * 256 + z
    BY <1>17, SMT DEF ThreeOctets
  <1>1. PICK p \in 0 .. 63, q \in 0 .. 3 : p = x \div 4 /\ q = x % 4 /\ x = 4 * p + q
    <2>1. x \div 4 \in 0 .. 63 /\ x % 4 \in 0 .. 3 /\ x = 4 * (x \div 4) + (x % 4)
      BY SMT
    <2> QED BY ONLY <2>1, Zenon
  <1>2. PICK h \in 0 .. 15, l \in 0 .. 15 : h = y \div 16 /\ l = y % 16 /\ y = 16 * h + l
    <2>1. y \div 16 \in 0 .. 15 /\ y % 16 \in 0 .. 15 /\ y = 16 * (y \div 16) + (y % 16)
      BY SMT
    <2> QED BY ONLY <2>1, Zenon
  <1>3. PICK u \in 0 .. 3, v \in 0 .. 63 : u = z \div 64 /\ v = z % 64 /\ z = 64 * u + v
    <2>1. z \div 64 \in 0 .. 3 /\ z % 64 \in 0 .. 63 /\ z = 64 * (z \div 64) + (z % 64)
      BY SMT
    <2> QED BY ONLY <2>1, Zenon
  <1>4. n = 262144 * p + 4096 * (16 * q + h) + 64 * (4 * l + u) + v
    BY <1>1, <1>2, <1>3, <1>18, SMT
  <1>5. PICK b \in 0 .. 63 : b = 16 * q + h
    OBVIOUS
  <1>6. PICK c \in 0 .. 63 : c = 4 * l + u
    OBVIOUS
  <1>7. n = 262144 * p + 4096 * b + 64 * c + v
    BY <1>4, <1>5, <1>6, SMT
  <1>8. n \in Nat
    BY <1>7, SMT
  <1>9. n \div 262144 = p
    BY <1>7, SMT
  <1>10. n \div 4096 = 64 * p + b
    BY <1>7, SMT
  <1>11. n \div 64 = 4096 * p + 64 * b + c
    BY <1>7, SMT
  <1>12. p % 64 = p
    BY SMT
  <1>13. (64 * p + b) % 64 = b
    BY SMT
  <1>14. (4096 * p + 64 * b + c) % 64 = c
    BY SMT
  <1>15. n % 64 = v
    <2>1. PICK k \in Nat : k = 4096 * p + 64 * b + c
      BY SMT
    <2>2. n = 64 * k + v
      BY <1>7, <2>1, SMT
    <2> QED BY ONLY k \in Nat, v \in 0 .. 63, <2>2, SMT
  <1>16. p = x \div 4 /\ b = 16 * (x % 4) + (y \div 16) /\ c = 4 * (y % 16) + (z \div 64) /\ v = z % 64
    BY ONLY <1>1, <1>2, <1>3, <1>5, <1>6, SMT
  <1>19. PICK j \in Nat, k \in Nat, l1 \in Nat : j = n \div 262144 /\ k = n \div 4096 /\ l1 = n \div 64
    BY ONLY <1>8, SMT
  <1>20. InSixes(n) = <<j, k, l1, n>>
    BY ONLY <1>19, SMT DEF InSixes
  <1>21. j % 64 = p /\ k % 64 = b /\ l1 % 64 = c /\ n % 64 = v
    BY ONLY <1>9, <1>10, <1>11, <1>12, <1>13, <1>14, <1>15, <1>19, SMT
  <1>22. PICK d : d = <<j, k, l1, n>>
    OBVIOUS
  <1>23. d[1] = j /\ d[2] = k /\ d[3] = l1 /\ d[4] = n
    BY ONLY <1>22, SMT
  <1>24. SixesOf(d, x, y, z)
    BY ONLY <1>16, <1>21, <1>23, Zenon DEF SixesOf
  <1> QED BY ONLY <1>8, <1>17, <1>20, <1>22, <1>24, Zenon

\* Three bytes at most are taken at a time.
LEMMA ThreeAtMost ==
  ASSUME NEW k \in Nat
  PROVE  (k >= 3 => Min({3, k}) = 3) /\ (k < 3 => Min({3, k}) = k)
  <1>1. CASE k >= 3
    <2>1. 3 \in {3, k} /\ \A y \in {3, k} : 3 =< y
      BY <1>1
    <2>2. \A x \in {3, k} : (\A y \in {3, k} : x =< y) => x = 3
      BY <1>1
    <2>3. Min({3, k}) = 3
      BY <2>1, <2>2 DEF Min
    <2> QED BY <1>1, <2>3
  <1>2. CASE k < 3
    <2>1. k \in {3, k} /\ \A y \in {3, k} : k =< y
      BY <1>2
    <2>2. \A x \in {3, k} : (\A y \in {3, k} : x =< y) => x = k
      BY <1>2
    <2>3. Min({3, k}) = k
      BY <2>1, <2>2 DEF Min
    <2> QED BY <1>2, <2>3
  <1> QED BY <1>1, <1>2

\* How many sextets n bytes take.
Taken(n) == (4 * n + 2) \div 3

\* A character of a chunk is that of its sextet, or padding after the last.
LEMMA ChunkIsSextets ==
  ASSUME NEW b \in Seq(0 .. 255), NEW n \in Nat, n = Len(b), NEW g \in Nat, 3 * g + 1 <= n,
         NEW r \in 1 .. 4
  PROVE  ChunkFrom(b, 3 * g + 1)[r] =
           IF 4 * g + r <= Taken(n) THEN BASE64[1 + SextetOf(b, 4 * g + r)] ELSE "="
  <1>1. \A k \in Nat : OctetAt(b, k) \in 0 .. 255
    <2>1. \A k \in DOMAIN b : b[k] \in 0 .. 255
      <3>1. DOMAIN b = 1 .. Len(b)
        OBVIOUS
      <3>2. \A k \in 1 .. Len(b) : b[k] \in 0 .. 255
        BY SequencePlaces
      <3> QED BY <3>1, <3>2, Zenon
    <2>2. 0 \in 0 .. 255
      OBVIOUS
    <2> QED BY <2>1, <2>2, Zenon DEF OctetAt
  <1>2. PICK x \in 0 .. 255, y \in 0 .. 255, z \in 0 .. 255 :
          x = OctetAt(b, 3 * g + 1) /\ y = OctetAt(b, 3 * g + 2) /\ z = OctetAt(b, 3 * g + 3)
    <2>1. 3 * g + 1 \in Nat /\ 3 * g + 2 \in Nat /\ 3 * g + 3 \in Nat
      OBVIOUS
    <2> QED BY <1>1, <2>1, Zenon
  <1>3. PICK num \in Nat, len \in Nat : num = ThreeOctets(x, y, z) /\ len = Min({3, n - 3 * g})
    <2>1. n - 3 * g \in Nat /\ 3 \in Nat
      BY SMT
    <2>2. Min({3, n - 3 * g}) \in Nat
      BY <2>1, ThreeAtMost, SMT
    <2>3. ThreeOctets(x, y, z) \in Nat
      BY BitsOfThree
    <2> QED BY <2>2, <2>3, SMT
  <1>4. ChunkFrom(b, 3 * g + 1) = Chunk(num, len)
    <2>1. (3 * g + 1) + 1 = 3 * g + 2 /\ (3 * g + 1) + 2 = 3 * g + 3 /\ n - (3 * g + 1) + 1 = n - 3 * g
      OBVIOUS
    <2>2. /\ x = IF 3 * g + 1 \in DOMAIN b THEN b[3 * g + 1] ELSE 0
          /\ y = IF (3 * g + 1) + 1 \in DOMAIN b THEN b[(3 * g + 1) + 1] ELSE 0
          /\ z = IF (3 * g + 1) + 2 \in DOMAIN b THEN b[(3 * g + 1) + 2] ELSE 0
      BY <1>2, <2>1, Zenon DEF OctetAt
    <2>3. ChunkFrom(b, 3 * g + 1) = Chunk(ThreeOctets(x, y, z), Min({3, Len(b) - (3 * g + 1) + 1}))
      BY ONLY <2>2, SMT DEF ChunkFrom, ThreeOctets
    <2>4. Len(b) - (3 * g + 1) + 1 = n - 3 * g
      BY <2>1, SMT
    <2> QED BY ONLY <1>3, <2>3, <2>4, Zenon
  <1>5. (r > len + 1) = ~(4 * g + r <= Taken(n))
    <2>1. n - 3 * g \in Nat
      OBVIOUS
    <2>2. (n - 3 * g >= 3 => len = 3) /\ (n - 3 * g < 3 => len = n - 3 * g)
      BY <1>3, <2>1, ThreeAtMost
    <2>3. CASE n - 3 * g >= 3
      <3>1. 4 * g + 4 <= (4 * n + 2) \div 3
        BY <2>3
      <3> QED BY <2>2, <2>3, <3>1 DEF Taken
    <2>4. CASE n = 3 * g + 1
      <3>1. (4 * n + 2) \div 3 = 4 * g + 2
        BY <2>4
      <3> QED BY <2>2, <2>4, <3>1 DEF Taken
    <2>5. CASE n = 3 * g + 2
      <3>1. (4 * n + 2) \div 3 = 4 * g + 3
        BY <2>5
      <3> QED BY <2>2, <2>5, <3>1 DEF Taken
    <2> QED BY <2>1, <2>3, <2>4, <2>5
  <1>8. PICK c : c = InSixes(num) /\ SixesOf(c, x, y, z)
    BY <1>3, BitsOfThree
  <1>6. c[r] % 64 = SextetOf(b, 4 * g + r)
    <2>1. ThreeIntoFour(b, g)
      BY SextetsOfThree
    <2>2. SixesOf(c, x, y, z)
      BY <1>8
    <2>5. /\ c[1] % 64 = SextetOf(b, 4 * g + 1) /\ c[2] % 64 = SextetOf(b, 4 * g + 2)
          /\ c[3] % 64 = SextetOf(b, 4 * g + 3) /\ c[4] % 64 = SextetOf(b, 4 * g + 4)
      BY ONLY <1>2, <2>1, <2>2, Zenon DEF ThreeIntoFour, SixesOf
    <2>6. r = 1 \/ r = 2 \/ r = 3 \/ r = 4
      OBVIOUS
    <2> QED BY ONLY <2>5, <2>6, Zenon
  <1>7. Chunk(num, len)[r] = IF r > len + 1 THEN "=" ELSE BASE64[1 + (c[r] % 64)]
    <2>1. Chunk(num, len) = [i \in 1 .. 4 |-> IF i > len + 1 THEN "=" ELSE BASE64[1 + (c[i] % 64)]]
      BY ONLY <1>8, SMT DEF Chunk, InSixes
    <2> QED BY ONLY <2>1, r \in 1 .. 4, Zenon
  <1> QED BY ONLY <1>4, <1>5, <1>6, <1>7, Zenon

\* What base64_encode writes: the sextets, and padding.
EncodedSo(b, n) ==
  Base64Encode(b) = [i \in 1 .. 4 * ((n + 2) \div 3) |->
                       IF i <= Taken(n) THEN BASE64[1 + SextetOf(b, i)] ELSE "="]

\* It writes that.
LEMMA EncodedAre ==
  ASSUME NEW b \in Seq(0 .. 255), NEW n \in Nat, n = Len(b)
  PROVE  EncodedSo(b, n)
  <1>1. ASSUME NEW i \in 1 .. 4 * ((n + 2) \div 3)
        PROVE  ChunkFrom(b, 3 * ((i - 1) \div 4) + 1)[1 + ((i - 1) % 4)] =
                 IF i <= Taken(n) THEN BASE64[1 + SextetOf(b, i)] ELSE "="
    <2>1. PICK g \in Nat, r \in 1 .. 4 : g = (i - 1) \div 4 /\ r = 1 + ((i - 1) % 4) /\ i = 4 * g + r
      <3>1. PICK k \in Nat : k = i - 1
        <4>1. i - 1 \in Nat
          OBVIOUS
        <4> QED BY <4>1
      <3>2. k \div 4 \in Nat /\ 1 + (k % 4) \in 1 .. 4 /\ k = 4 * (k \div 4) + (k % 4)
        BY ONLY k \in Nat, SMT
      <3>3. i = 4 * (k \div 4) + (1 + (k % 4))
        BY <3>1, <3>2
      <3> QED BY <3>1, <3>2, <3>3, Zenon
    <2>2. 3 * g + 1 <= n
      <3>1. PICK h \in Nat : h = (n + 2) \div 3 /\ 3 * h <= n + 2
        OBVIOUS
      <3>2. i <= 4 * h
        BY <3>1
      <3>3. g + 1 <= h
        BY <2>1, <3>2
      <3> QED BY <3>1, <3>3
    <2>3. ChunkFrom(b, 3 * g + 1)[r] = IF 4 * g + r <= Taken(n) THEN BASE64[1 + SextetOf(b, 4 * g + r)] ELSE "="
      BY <2>2, ChunkIsSextets
    <2> QED BY <2>1, <2>3, Zenon
  <1>2. Base64Encode(b) = [i \in 1 .. 4 * ((n + 2) \div 3) |-> ChunkFrom(b, 3 * ((i - 1) \div 4) + 1)[1 + ((i - 1) % 4)]]
    BY Zenon DEF Base64Encode
  <1> QED BY <1>1, <1>2, Zenon DEF EncodedSo

-----------------------------------------------------------------------------
\* y1, y2 and y3 are the bytes of four sextets.
AreBytes(y1, y2, y3, x1, x2, x3, x4) ==
  /\ y1 = 4 * x1 + (x2 \div 16) /\ y2 = 16 * (x2 % 16) + (x3 \div 4) /\ y3 = 64 * (x3 % 4) + x4

\* x1, x2, x3 and x4 are the sextets of three bytes.
AreSextets(x1, x2, x3, x4, y1, y2, y3) ==
  /\ x1 = y1 \div 4 /\ x2 = 16 * (y1 % 4) + (y2 \div 16)
  /\ x3 = 4 * (y2 % 16) + (y3 \div 64) /\ x4 = y3 % 64

\* Four sextets make three bytes, and those make them again.
LEMMA FourThroughThree ==
  ASSUME NEW x1 \in 0 .. 63, NEW x2 \in 0 .. 63, NEW x3 \in 0 .. 63, NEW x4 \in 0 .. 63,
         NEW y1, NEW y2, NEW y3, AreBytes(y1, y2, y3, x1, x2, x3, x4)
  PROVE  /\ y1 \in 0 .. 255 /\ y2 \in 0 .. 255 /\ y3 \in 0 .. 255
         /\ AreSextets(x1, x2, x3, x4, y1, y2, y3)
  <1>1. PICK p \in 0 .. 3, q \in 0 .. 15 : p = x2 \div 16 /\ q = x2 % 16 /\ x2 = 16 * p + q
    <2>1. x2 \div 16 \in 0 .. 3 /\ x2 % 16 \in 0 .. 15 /\ x2 = 16 * (x2 \div 16) + (x2 % 16)
      BY SMT
    <2> QED BY ONLY <2>1, Zenon
  <1>2. PICK h \in 0 .. 15, l \in 0 .. 3 : h = x3 \div 4 /\ l = x3 % 4 /\ x3 = 4 * h + l
    <2>1. x3 \div 4 \in 0 .. 15 /\ x3 % 4 \in 0 .. 3 /\ x3 = 4 * (x3 \div 4) + (x3 % 4)
      BY SMT
    <2> QED BY ONLY <2>1, Zenon
  <1>3. y1 = 4 * x1 + p /\ y2 = 16 * q + h /\ y3 = 64 * l + x4
    BY <1>1, <1>2, Zenon DEF AreBytes
  <1>4. y1 \in 0 .. 255 /\ y1 \div 4 = x1 /\ y1 % 4 = p
    BY <1>3, SMT
  <1>5. y2 \in 0 .. 255 /\ y2 \div 16 = q /\ y2 % 16 = h
    BY <1>3, SMT
  <1>6. y3 \in 0 .. 255 /\ y3 \div 64 = l /\ y3 % 64 = x4
    BY <1>3, SMT
  <1> QED BY ONLY <1>1, <1>2, <1>4, <1>5, <1>6, Zenon DEF AreSextets

\* Sextets whose bytes these are, with what is carried from one to the next.
CarryBytes(x1, x2, x3, x4, y1, y2, y3) ==
  /\ x1 \in 0 .. 63 /\ x2 \in 0 .. 63 /\ x3 \in 0 .. 63 /\ x4 \in 0 .. 63
  /\ AreBytes(y1, y2, y3, x1, x2, x3, x4)
  /\ x2 % 16 = y2 \div 16 /\ x3 % 4 = y3 \div 64

\* Three bytes make four sextets, and those make them again.
LEMMA ThreeThroughFour ==
  ASSUME NEW y1 \in 0 .. 255, NEW y2 \in 0 .. 255, NEW y3 \in 0 .. 255,
         NEW x1, NEW x2, NEW x3, NEW x4, AreSextets(x1, x2, x3, x4, y1, y2, y3)
  PROVE  CarryBytes(x1, x2, x3, x4, y1, y2, y3)
  <1>1. PICK p \in 0 .. 63, q \in 0 .. 3 : p = y1 \div 4 /\ q = y1 % 4 /\ y1 = 4 * p + q
    <2>1. y1 \div 4 \in 0 .. 63 /\ y1 % 4 \in 0 .. 3 /\ y1 = 4 * (y1 \div 4) + (y1 % 4)
      BY SMT
    <2> QED BY ONLY <2>1, Zenon
  <1>2. PICK h \in 0 .. 15, l \in 0 .. 15 : h = y2 \div 16 /\ l = y2 % 16 /\ y2 = 16 * h + l
    <2>1. y2 \div 16 \in 0 .. 15 /\ y2 % 16 \in 0 .. 15 /\ y2 = 16 * (y2 \div 16) + (y2 % 16)
      BY SMT
    <2> QED BY ONLY <2>1, Zenon
  <1>3. PICK u \in 0 .. 3, v \in 0 .. 63 : u = y3 \div 64 /\ v = y3 % 64 /\ y3 = 64 * u + v
    <2>1. y3 \div 64 \in 0 .. 3 /\ y3 % 64 \in 0 .. 63 /\ y3 = 64 * (y3 \div 64) + (y3 % 64)
      BY SMT
    <2> QED BY ONLY <2>1, Zenon
  <1>4. x1 = p /\ x2 = 16 * q + h /\ x3 = 4 * l + u /\ x4 = v
    BY <1>1, <1>2, <1>3, Zenon DEF AreSextets
  <1>5. x1 \in 0 .. 63 /\ x4 \in 0 .. 63
    BY <1>4, SMT
  <1>6. x2 \in 0 .. 63 /\ x2 \div 16 = q /\ x2 % 16 = h
    BY <1>4, SMT
  <1>7. x3 \in 0 .. 63 /\ x3 \div 4 = l /\ x3 % 4 = u
    BY ONLY l \in 0 .. 15, u \in 0 .. 3, <1>4, SMT
  <1> QED BY ONLY <1>1, <1>2, <1>3, <1>4, <1>5, <1>6, <1>7, Zenon DEF AreBytes, CarryBytes

\* Sextets of which no bit is left over, as far as there are any.
Whole(x, m, b) ==
  /\ b \in Seq(0 .. 255) /\ Taken(Len(b)) = m
  /\ \A i \in 1 .. m : SextetOf(b, i) = x[i]

\* They come back from the bytes they make.
LEMMA SextetsComeBack ==
  ASSUME NEW m \in Nat, NEW x, \A i \in 1 .. m : x[i] \in 0 .. 63,
         ~(Waiting(m) >= 6), ~(Waits(x, m) # 0)
  PROVE  Whole(x, m, BytesOf(x, m))
  <1>1. PICK n \in Nat : n = (3 * m) \div 4
    OBVIOUS
  <1>2. PICK b : b = BytesOf(x, m)
    OBVIOUS
  <1>3. b = [j \in 1 .. n |-> ByteOf(x, j)]
    BY <1>1, <1>2, Zenon DEF BytesOf
  <1>4. m % 4 # 1
    <2>1. m % 4 = 1 => Waiting(m) = 6
      <3>1. m % 4 = 1 => 8 - 2 * (m % 4) = 6 /\ m % 4 # 0
        OBVIOUS
      <3> QED BY <3>1, Zenon DEF Waiting
    <2> QED BY <2>1
  <1>5. PICK f \in Nat : m = 4 * f \/ m = 4 * f + 2 \/ m = 4 * f + 3
    <2>1. PICK f \in Nat : m = 4 * f \/ m = 4 * f + 1 \/ m = 4 * f + 2 \/ m = 4 * f + 3
      BY FourPlaces
    <2>2. (4 * f + 1) % 4 = 1
      BY FourRemainders DEF RemaindersOf
    <2> QED BY <1>4, <2>1, <2>2
  <1>6. /\ m = 4 * f => n = 3 * f
        /\ m = 4 * f + 2 => n = 3 * f + 1
        /\ m = 4 * f + 3 => n = 3 * f + 2
    <2>1. RemaindersOf(f)
      BY FourRemainders
    <2> QED BY <1>1, <2>1, Zenon DEF RemaindersOf
  <1>7. Taken(n) = m
    <2>1. (4 * (3 * f) + 2) \div 3 = 4 * f
      BY SMT
    <2>2. (4 * (3 * f + 1) + 2) \div 3 = 4 * f + 2
      BY SMT
    <2>3. (4 * (3 * f + 2) + 2) \div 3 = 4 * f + 3
      BY SMT
    <2> QED BY ONLY <1>5, <1>6, <2>1, <2>2, <2>3, Zenon DEF Taken
  <1>8. /\ m = 4 * f + 2 => x[4 * f + 2] % 16 = 0
        /\ m = 4 * f + 3 => x[4 * f + 3] % 4 = 0
    <2>1. RemaindersOf(f)
      BY FourRemainders
    <2>2. 2 # 0 /\ 2 # 1 /\ 3 # 0 /\ 3 # 1 /\ 3 # 2
      OBVIOUS
    <2> QED BY <2>1, <2>2, Zenon DEF RemaindersOf, Waits
  <1> DEFINE six(k) == IF k <= m THEN x[k] ELSE 0
  <1>9. \A k \in Nat \ {0} : six(k) \in 0 .. 63
    <2>1. \A k \in Nat \ {0} : k <= m => k \in 1 .. m
      OBVIOUS
    <2>2. 0 \in 0 .. 63
      OBVIOUS
    <2> QED BY <2>1, <2>2, Zenon
  <1>10. ASSUME NEW g \in Nat, 4 * g + 1 <= m
         PROVE  /\ OctetAt(b, 3 * g + 1) = 4 * six(4 * g + 1) + (six(4 * g + 2) \div 16)
                /\ OctetAt(b, 3 * g + 2) = 16 * (six(4 * g + 2) % 16) + (six(4 * g + 3) \div 4)
                /\ OctetAt(b, 3 * g + 3) = 64 * (six(4 * g + 3) % 4) + six(4 * g + 4)
    <2>1. DOMAIN b = 1 .. n /\ \A j \in 1 .. n : b[j] = ByteOf(x, j)
      BY <1>3
    <2>2. FourIntoThree(x, g)
      BY BytesOfFour
    <2>3. CASE 4 * g + 4 <= m
      <3>1. 3 * g + 1 \in 1 .. n /\ 3 * g + 2 \in 1 .. n /\ 3 * g + 3 \in 1 .. n
        BY <1>1, <2>3
      <3>2. 4 * g + 1 <= m /\ 4 * g + 2 <= m /\ 4 * g + 3 <= m
        BY <2>3
      <3> QED BY <2>1, <2>2, <2>3, <3>1, <3>2, Zenon DEF FourIntoThree, OctetAt
    <2>4. CASE ~(4 * g + 4 <= m)
      <3>1. g = f /\ (m = 4 * g + 2 \/ m = 4 * g + 3)
        BY <1>5, <1>10, <2>4
      <3>2. 0 \div 4 = 0 /\ 0 % 4 = 0 /\ 64 * 0 + 0 = 0 /\ 16 * 0 + 0 = 0
        OBVIOUS
      <3>3. CASE m = 4 * g + 2
        <4>1. 3 * g + 1 \in 1 .. n /\ 3 * g + 2 \notin 1 .. n /\ 3 * g + 3 \notin 1 .. n
          BY <1>6, <3>1, <3>3
        <4>2. 4 * g + 1 <= m /\ 4 * g + 2 <= m /\ ~(4 * g + 3 <= m) /\ ~(4 * g + 4 <= m)
          BY <3>3
        <4>3. x[4 * g + 2] % 16 = 0
          BY <1>8, <3>1, <3>3
        <4> QED BY <2>1, <2>2, <3>2, <4>1, <4>2, <4>3, Zenon DEF FourIntoThree, OctetAt
      <3>4. CASE m = 4 * g + 3
        <4>1. 3 * g + 1 \in 1 .. n /\ 3 * g + 2 \in 1 .. n /\ 3 * g + 3 \notin 1 .. n
          BY <1>6, <3>1, <3>4
        <4>2. 4 * g + 1 <= m /\ 4 * g + 2 <= m /\ 4 * g + 3 <= m /\ ~(4 * g + 4 <= m)
          BY <3>4
        <4>3. x[4 * g + 3] % 4 = 0
          BY <1>8, <3>1, <3>4
        <4> QED BY <2>1, <2>2, <3>2, <4>1, <4>2, <4>3, Zenon DEF FourIntoThree, OctetAt
      <3> QED BY <3>1, <3>3, <3>4
    <2> QED BY <2>3, <2>4
  <1> HIDE DEF six
  <1>11. ASSUME NEW g \in Nat, 4 * g + 1 <= m
         PROVE  /\ OctetAt(b, 3 * g + 1) \in 0 .. 255 /\ OctetAt(b, 3 * g + 2) \in 0 .. 255
                /\ OctetAt(b, 3 * g + 3) \in 0 .. 255
                /\ SextetOf(b, 4 * g + 1) = six(4 * g + 1) /\ SextetOf(b, 4 * g + 2) = six(4 * g + 2)
                /\ SextetOf(b, 4 * g + 3) = six(4 * g + 3) /\ SextetOf(b, 4 * g + 4) = six(4 * g + 4)
    <2>1. PICK x1 \in 0 .. 63, x2 \in 0 .. 63, x3 \in 0 .. 63, x4 \in 0 .. 63 :
            x1 = six(4 * g + 1) /\ x2 = six(4 * g + 2) /\ x3 = six(4 * g + 3) /\ x4 = six(4 * g + 4)
      <3>1. 4 * g + 1 \in Nat \ {0} /\ 4 * g + 2 \in Nat \ {0} /\ 4 * g + 3 \in Nat \ {0} /\ 4 * g + 4 \in Nat \ {0}
        OBVIOUS
      <3> QED BY <1>9, <3>1, Zenon
    <2>2. PICK y1, y2, y3 :
            y1 = OctetAt(b, 3 * g + 1) /\ y2 = OctetAt(b, 3 * g + 2) /\ y3 = OctetAt(b, 3 * g + 3)
      OBVIOUS
    <2>3. AreBytes(y1, y2, y3, x1, x2, x3, x4)
      BY <1>10, <1>11, <2>1, <2>2, Zenon DEF AreBytes
    <2>4. /\ y1 \in 0 .. 255 /\ y2 \in 0 .. 255 /\ y3 \in 0 .. 255
          /\ AreSextets(x1, x2, x3, x4, y1, y2, y3)
      BY <2>3, FourThroughThree
    <2>5. ThreeIntoFour(b, g)
      BY SextetsOfThree
    <2> QED BY <2>1, <2>2, <2>4, <2>5, Zenon DEF ThreeIntoFour, AreSextets
  <1>12. ASSUME NEW i \in 1 .. m PROVE SextetOf(b, i) = x[i]
    <2>1. PICK g \in Nat : i = 4 * g + 1 \/ i = 4 * g + 2 \/ i = 4 * g + 3 \/ i = 4 * g + 4
      <3>1. i - 1 \in Nat
        OBVIOUS
      <3>2. PICK g \in Nat : i - 1 = 4 * g \/ i - 1 = 4 * g + 1 \/ i - 1 = 4 * g + 2 \/ i - 1 = 4 * g + 3
        BY <3>1, FourPlaces
      <3> QED BY <3>2
    <2>2. 4 * g + 1 <= m
      BY <2>1
    <2>3. /\ SextetOf(b, 4 * g + 1) = six(4 * g + 1) /\ SextetOf(b, 4 * g + 2) = six(4 * g + 2)
          /\ SextetOf(b, 4 * g + 3) = six(4 * g + 3) /\ SextetOf(b, 4 * g + 4) = six(4 * g + 4)
      BY <1>11, <2>2, Zenon
    <2>4. SextetOf(b, i) = six(i)
      BY ONLY <2>1, <2>3, Zenon
    <2>5. i <= m
      OBVIOUS
    <2> QED BY ONLY <2>4, <2>5, Zenon DEF six
  <1>13. b \in Seq(0 .. 255) /\ Len(b) = n
    <2>1. ASSUME NEW j \in 1 .. n PROVE ByteOf(x, j) \in 0 .. 255
      <3>1. PICK g \in Nat : j = 3 * g + 1 \/ j = 3 * g + 2 \/ j = 3 * g + 3
        <4>1. j - 1 \in Nat
          OBVIOUS
        <4>2. PICK g \in Nat : j - 1 = 3 * g \/ j - 1 = 3 * g + 1 \/ j - 1 = 3 * g + 2
          BY <4>1, ThreePlaces
        <4> QED BY <4>2
      <3>2. 4 * g + 1 <= m
        BY <1>1, <3>1
      <3>3. OctetAt(b, j) \in 0 .. 255
        <4>1. /\ OctetAt(b, 3 * g + 1) \in 0 .. 255 /\ OctetAt(b, 3 * g + 2) \in 0 .. 255
              /\ OctetAt(b, 3 * g + 3) \in 0 .. 255
          BY <1>11, <3>2, Zenon
        <4> QED BY ONLY <3>1, <4>1, Zenon
      <3>4. j \in DOMAIN b /\ b[j] = ByteOf(x, j)
        BY <1>3
      <3>5. OctetAt(b, j) = ByteOf(x, j)
        BY ONLY <3>4, Zenon DEF OctetAt
      <3> QED BY ONLY <3>3, <3>5, Zenon
    <2> QED BY <1>3, <2>1
  <1> QED BY <1>2, <1>7, <1>12, <1>13 DEF Whole

\* Bytes come back from the sextets they make, and no bit is left over.
LEMMA BytesComeBack ==
  ASSUME NEW b \in Seq(0 .. 255), NEW m, m = Taken(Len(b)),
         NEW x, x = [i \in 1 .. m |-> SextetOf(b, i)]
  PROVE  /\ m \in 0 .. 4 * ((Len(b) + 2) \div 3) /\ \A i \in 1 .. m : x[i] \in 0 .. 63
         /\ ~(Waiting(m) >= 6) /\ Waits(x, m) = 0 /\ BytesOf(x, m) = b
  <1>1. PICK n \in Nat : n = Len(b) /\ b = [i \in 1 .. n |-> b[i]] /\ DOMAIN b = 1 .. n
    <2>1. DOMAIN b = 1 .. Len(b)
      OBVIOUS
    <2> QED BY <2>1, SequencePlaces
  <1>2. \A k \in Nat : OctetAt(b, k) \in 0 .. 255
    <2>1. \A k \in 1 .. n : b[k] \in 0 .. 255
      BY <1>1, SequencePlaces
    <2>2. 0 \in 0 .. 255
      OBVIOUS
    <2> QED BY <1>1, <2>1, <2>2, Zenon DEF OctetAt
  <1>3. m = (4 * n + 2) \div 3
    BY <1>1 DEF Taken
  <1>4. PICK f \in Nat : n = 3 * f \/ n = 3 * f + 1 \/ n = 3 * f + 2
    BY ThreePlaces
  <1>5. /\ n = 3 * f => m = 4 * f
        /\ n = 3 * f + 1 => m = 4 * f + 2
        /\ n = 3 * f + 2 => m = 4 * f + 3
    BY <1>3
  <1>6. m \in Nat /\ (3 * m) \div 4 = n
    <2>1. RemaindersOf(f)
      BY FourRemainders
    <2>2. m \in Nat
      BY <1>4, <1>5
    <2> QED BY <1>4, <1>5, <2>1, <2>2, Zenon DEF RemaindersOf
  <1>7. m \in 0 .. 4 * ((Len(b) + 2) \div 3)
    <2>1. m <= 4 * ((n + 2) \div 3)
      BY <1>3, SMT
    <2> QED BY <1>1, <1>6, <2>1
  <1>8. ASSUME NEW g \in Nat
        PROVE  /\ SextetOf(b, 4 * g + 1) \in 0 .. 63 /\ SextetOf(b, 4 * g + 2) \in 0 .. 63
               /\ SextetOf(b, 4 * g + 3) \in 0 .. 63 /\ SextetOf(b, 4 * g + 4) \in 0 .. 63
               /\ 4 * SextetOf(b, 4 * g + 1) + (SextetOf(b, 4 * g + 2) \div 16) = OctetAt(b, 3 * g + 1)
               /\ 16 * (SextetOf(b, 4 * g + 2) % 16) + (SextetOf(b, 4 * g + 3) \div 4) = OctetAt(b, 3 * g + 2)
               /\ 64 * (SextetOf(b, 4 * g + 3) % 4) + SextetOf(b, 4 * g + 4) = OctetAt(b, 3 * g + 3)
               /\ SextetOf(b, 4 * g + 2) % 16 = OctetAt(b, 3 * g + 2) \div 16
               /\ SextetOf(b, 4 * g + 3) % 4 = OctetAt(b, 3 * g + 3) \div 64
    <2>1. PICK y1 \in 0 .. 255, y2 \in 0 .. 255, y3 \in 0 .. 255 :
            y1 = OctetAt(b, 3 * g + 1) /\ y2 = OctetAt(b, 3 * g + 2) /\ y3 = OctetAt(b, 3 * g + 3)
      <3>1. 3 * g + 1 \in Nat /\ 3 * g + 2 \in Nat /\ 3 * g + 3 \in Nat
        OBVIOUS
      <3> QED BY <1>2, <3>1, Zenon
    <2>2. PICK x1, x2, x3, x4 : /\ x1 = SextetOf(b, 4 * g + 1) /\ x2 = SextetOf(b, 4 * g + 2)
                                /\ x3 = SextetOf(b, 4 * g + 3) /\ x4 = SextetOf(b, 4 * g + 4)
      OBVIOUS
    <2>3. ThreeIntoFour(b, g)
      BY SextetsOfThree
    <2>4. AreSextets(x1, x2, x3, x4, y1, y2, y3)
      BY <2>1, <2>2, <2>3, Zenon DEF ThreeIntoFour, AreSextets
    <2>5. CarryBytes(x1, x2, x3, x4, y1, y2, y3)
      BY <2>4, ThreeThroughFour
    <2> QED BY <2>1, <2>2, <2>5, Zenon DEF AreBytes, CarryBytes
  <1>9. ASSUME NEW i \in 1 .. m PROVE x[i] \in 0 .. 63
    <2>1. PICK g \in Nat : i = 4 * g + 1 \/ i = 4 * g + 2 \/ i = 4 * g + 3 \/ i = 4 * g + 4
      <3>1. i - 1 \in Nat
        BY <1>6
      <3>2. PICK g \in Nat : i - 1 = 4 * g \/ i - 1 = 4 * g + 1 \/ i - 1 = 4 * g + 2 \/ i - 1 = 4 * g + 3
        BY <3>1, FourPlaces
      <3> QED BY <3>2
    <2> QED BY <1>8, <2>1, Zenon
  <1>10. \A i \in 1 .. m : x[i] = SextetOf(b, i)
    BY Zenon
  <1>11. ASSUME NEW j \in 1 .. n PROVE ByteOf(x, j) = b[j]
    <2>1. PICK g \in Nat : j = 3 * g + 1 \/ j = 3 * g + 2 \/ j = 3 * g + 3
      <3>1. j - 1 \in Nat
        OBVIOUS
      <3>2. PICK g \in Nat : j - 1 = 3 * g \/ j - 1 = 3 * g + 1 \/ j - 1 = 3 * g + 2
        BY <3>1, ThreePlaces
      <3>3. j = 3 * g + 1 \/ j = 3 * g + 2 \/ j = 3 * g + 3
        BY ONLY j \in 1 .. n, n \in Nat, g \in Nat, <3>2
      <3> QED BY <3>3, Zenon
    <2>2. FourIntoThree(x, g)
      BY BytesOfFour
    <2>3. OctetAt(b, j) = b[j]
      BY <1>1, Zenon DEF OctetAt
    <2>4. CASE j = 3 * g + 1
      <3>1. 4 * g + 1 \in 1 .. m /\ 4 * g + 2 \in 1 .. m
        BY <1>3, <2>4
      <3> QED BY <1>8, <1>10, <2>2, <2>3, <2>4, <3>1, Zenon DEF FourIntoThree
    <2>5. CASE j = 3 * g + 2
      <3>1. 4 * g + 2 \in 1 .. m /\ 4 * g + 3 \in 1 .. m
        BY <1>3, <2>5
      <3> QED BY <1>8, <1>10, <2>2, <2>3, <2>5, <3>1, Zenon DEF FourIntoThree
    <2>6. CASE j = 3 * g + 3
      <3>1. 4 * g + 3 \in 1 .. m /\ 4 * g + 4 \in 1 .. m
        BY <1>3, <2>6
      <3> QED BY <1>8, <1>10, <2>2, <2>3, <2>6, <3>1, Zenon DEF FourIntoThree
    <2> QED BY <2>1, <2>4, <2>5, <2>6
  <1>12. BytesOf(x, m) = b
    <2>1. BytesOf(x, m) = [j \in 1 .. n |-> ByteOf(x, j)]
      BY <1>6, Zenon DEF BytesOf
    <2> QED BY ONLY <1>1, <1>11, <2>1, Zenon
  <1>13. RemaindersOf(f)
    BY FourRemainders
  <1>14. ~(Waiting(m) >= 6)
    <2>1. 8 - 2 * 2 = 4 /\ 8 - 2 * 3 = 2 /\ 2 # 0 /\ 3 # 0
      OBVIOUS
    <2>2. Waiting(m) = 0 \/ Waiting(m) = 4 \/ Waiting(m) = 2
      BY <1>4, <1>5, <1>13, <2>1, Zenon DEF Waiting, RemaindersOf
    <2> QED BY <2>2
  <1>15. Waits(x, m) = 0
    <2>1. 2 # 0 /\ 2 # 1 /\ 3 # 0 /\ 3 # 1 /\ 3 # 2 /\ 0 \div 16 = 0 /\ 0 \div 64 = 0
      OBVIOUS
    <2>2. CASE n = 3 * f
      BY <1>5, <1>13, <2>2, Zenon DEF Waits, RemaindersOf
    <2>3. CASE n = 3 * f + 1
      <3>1. m = 4 * f + 2 /\ 4 * f + 2 \in 1 .. m
        BY <1>5, <2>3
      <3>2. 3 * f + 2 \notin 1 .. n
        BY <2>3
      <3>3. OctetAt(b, 3 * f + 2) = 0
        BY <1>1, <3>2, Zenon DEF OctetAt
      <3>4. x[4 * f + 2] % 16 = 0
        BY <1>8, <1>10, <2>1, <3>1, <3>3, Zenon
      <3> QED BY <1>13, <2>1, <3>1, <3>4, Zenon DEF Waits, RemaindersOf
    <2>4. CASE n = 3 * f + 2
      <3>1. m = 4 * f + 3 /\ 4 * f + 3 \in 1 .. m
        BY <1>5, <2>4
      <3>2. 3 * f + 3 \notin 1 .. n
        BY <2>4
      <3>3. OctetAt(b, 3 * f + 3) = 0
        BY <1>1, <3>2, Zenon DEF OctetAt
      <3>4. x[4 * f + 3] % 4 = 0
        BY <1>8, <1>10, <2>1, <3>1, <3>3, Zenon
      <3> QED BY <1>13, <2>1, <3>1, <3>4, Zenon DEF Waits, RemaindersOf
    <2> QED BY <1>4, <2>2, <2>3, <2>4
  <1> QED BY <1>7, <1>9, <1>12, <1>14, <1>15

-----------------------------------------------------------------------------
\* Without its padding, what base64_encode writes is one character for each sextet.
LEMMA PaddingLeaves ==
  ASSUME NEW b \in Seq(0 .. 255), NEW m, m = Taken(Len(b)),
         NEW set, "=" \in set, set \subseteq AsciiSpace \union {"="}
  PROVE  /\ m \in Nat /\ \A i \in 1 .. m : SextetOf(b, i) \in 0 .. 63
         /\ Leaving(Base64Encode(b), set) = [i \in 1 .. m |-> BASE64[1 + SextetOf(b, i)]]
  <1>1. PICK n \in Nat : n = Len(b)
    BY SequencePlaces
  <1>2. PICK x : x = [i \in 1 .. m |-> SextetOf(b, i)]
    OBVIOUS
  <1>3. PICK l \in Nat : l = 4 * ((n + 2) \div 3)
    OBVIOUS
  <1>4. m \in 0 .. l /\ \A i \in 1 .. m : x[i] \in 0 .. 63
    <2>1. m \in 0 .. 4 * ((Len(b) + 2) \div 3) /\ \A i \in 1 .. m : x[i] \in 0 .. 63
      BY <1>2, BytesComeBack
    <2> QED BY <1>1, <1>3, <2>1, Zenon
  <1>5. \A i \in 1 .. m : SextetOf(b, i) \in 0 .. 63
    BY <1>2, <1>4, Zenon
  <1> DEFINE e == [i \in 1 .. l |-> IF i <= m THEN BASE64[1 + SextetOf(b, i)] ELSE "="]
             T == DOMAIN Base64Val \union {"="}
  <1>6. Base64Encode(b) = e
    <2>1. EncodedSo(b, n)
      BY <1>1, EncodedAre
    <2>2. m = Taken(n)
      BY <1>1
    <2> QED BY <1>3, <2>1, <2>2, Zenon DEF EncodedSo
  <1>7. \A i \in 1 .. m : BASE64[1 + SextetOf(b, i)] \in DOMAIN Base64Val
    <2>1. \A k \in 0 .. 63 : 1 + k \in 1 .. 64
      OBVIOUS
    <2> QED BY <1>5, <2>1, Base64Alphabet, Zenon
  <1>8. \A i \in 1 .. l : i <= m => i \in 1 .. m
    BY <1>4
  <1>9. \A i \in 1 .. m : i <= m /\ i \in 1 .. l
    BY <1>4
  <1>10. \A i \in m + 1 .. l : ~(i <= m) /\ i \in 1 .. l
    BY <1>4
  <1>11. e \in Seq(T) /\ Len(e) = l
    <2>1. \A i \in 1 .. l : (IF i <= m THEN BASE64[1 + SextetOf(b, i)] ELSE "=") \in T
      BY <1>7, <1>8, Zenon
    <2> HIDE DEF T
    <2> QED BY <2>1
  <1>12. \A i \in 1 .. m : e[i] = BASE64[1 + SextetOf(b, i)] /\ e[i] \notin set
    <2>1. \A i \in 1 .. m : e[i] = BASE64[1 + SextetOf(b, i)]
      BY <1>9, Zenon
    <2>2. \A c \in DOMAIN Base64Val : c \notin set
      BY Base64Alphabet
    <2> QED BY <1>7, <2>1, <2>2, Zenon
  <1>13. \A i \in m + 1 .. l : e[i] \in set
    BY <1>10, Zenon
  <1> HIDE DEF e, T
  <1>14. Leaving(e, set) = [i \in 1 .. m |-> e[i]]
    <2>1. m \in 0 .. Len(e) /\ \A i \in m + 1 .. Len(e) : e[i] \in set
      BY <1>4, <1>11, <1>13
    <2> QED BY <1>11, <1>12, <2>1, BeginningIsLeft
  <1>15. [i \in 1 .. m |-> e[i]] = [i \in 1 .. m |-> BASE64[1 + SextetOf(b, i)]]
    BY <1>12, Zenon
  <1> QED BY <1>4, <1>5, <1>6, <1>14, <1>15

\* What base64_decode reads of a text is, written again and without padding, the text
\* without white space and padding, in the standard alphabet.
LEMMA Base64IsExact ==
  ASSUME NEW S, NEW s \in Seq(S), Base64Decode(s) # NONE
  PROVE  Leaving(Base64Encode(Base64Decode(s)), {"="}) = Bare64(Leaving(s, AsciiSpace \union {"="}))
  <1>1. PICK t \in Seq(S) : t = Leaving(s, AsciiSpace \union {"="})
    BY LeftIsText
  <1>2. Base64Decode(s) = Sextets(t)
    BY <1>1, Zenon DEF Base64Decode
  <1>3. Range(t) \subseteq DOMAIN Base64Val
    BY <1>2, Zenon DEF Sextets
  <1>4. PICK m \in Nat : m = Len(t) /\ DOMAIN t = 1 .. m
    BY <1>1
  <1>5. PICK x : x = [i \in 1 .. m |-> Base64Val[t[i]]]
    OBVIOUS
  <1>6. /\ \A i \in 1 .. m : x[i] \in 0 .. 63
        /\ Sextets(t) = IF Waiting(m) >= 6 \/ Waits(x, m) # 0 THEN NONE ELSE BytesOf(x, m)
    <2>1. DecodesTo(t, x, m)
      BY <1>1, <1>3, <1>4, <1>5, SextetsAreBytes
    <2> QED BY ONLY <2>1, Zenon DEF DecodesTo
  <1>7. ~(Waiting(m) >= 6) /\ ~(Waits(x, m) # 0) /\ Sextets(t) = BytesOf(x, m)
    BY <1>2, <1>6, Zenon
  <1>8. PICK b : b = BytesOf(x, m) /\ Whole(x, m, b)
    BY <1>6, <1>7, SextetsComeBack
  <1>9. b \in Seq(0 .. 255) /\ m = Taken(Len(b)) /\ \A i \in 1 .. m : SextetOf(b, i) = x[i]
    BY <1>8 DEF Whole
  <1>10. Leaving(Base64Encode(b), {"="}) = [i \in 1 .. m |-> BASE64[1 + SextetOf(b, i)]]
    <2>1. "=" \in {"="} /\ {"="} \subseteq AsciiSpace \union {"="}
      OBVIOUS
    <2> QED BY <1>9, <2>1, PaddingLeaves
  <1>11. ASSUME NEW i \in 1 .. m
         PROVE  BASE64[1 + SextetOf(b, i)] =
                  CASE t[i] = "-" -> "+" [] t[i] = "_" -> "/" [] OTHER -> t[i]
    <2>1. t[i] \in DOMAIN Base64Val
      BY <1>3, <1>4, Zenon DEF Range
    <2>2. SextetOf(b, i) = Base64Val[t[i]]
      BY <1>5, <1>9, Zenon
    <2>3. PICK k \in 0 .. 63 : k = Base64Val[t[i]]
      BY <2>1, Base64Alphabet, Zenon
    <2>4. 1 + k = k + 1
      OBVIOUS
    <2>5. PICK c : c = t[i]
      OBVIOUS
    <2>6. BASE64[Base64Val[c] + 1] = CASE c = "-" -> "+" [] c = "_" -> "/" [] OTHER -> c
      BY <2>1, <2>5, Base64Alphabet, Zenon
    <2>7. BASE64[1 + SextetOf(b, i)] = BASE64[Base64Val[c] + 1]
      BY <2>2, <2>3, <2>4, <2>5, Zenon
    <2> QED BY ONLY <2>5, <2>6, <2>7, Zenon
  <1>12. Bare64(t) = [i \in 1 .. m |-> CASE t[i] = "-" -> "+" [] t[i] = "_" -> "/" [] OTHER -> t[i]]
    BY <1>4, Zenon DEF Bare64
  <1>13. Leaving(Base64Encode(b), {"="}) = Bare64(t)
    BY <1>10, <1>11, <1>12, Zenon
  <1> QED BY <1>1, <1>2, <1>7, <1>8, <1>13, Zenon

\* Bytes that are written in Base64 are read back.
LEMMA Base64IsReadBack ==
  ASSUME NEW v \in Seq(0 .. 255)
  PROVE  Base64Decode(Base64Encode(v)) = v
  <1>1. PICK m : m = Taken(Len(v))
    OBVIOUS
  <1>2. PICK x : x = [i \in 1 .. m |-> SextetOf(v, i)]
    OBVIOUS
  <1>3. /\ m \in Nat /\ \A i \in 1 .. m : SextetOf(v, i) \in 0 .. 63
        /\ Leaving(Base64Encode(v), AsciiSpace \union {"="}) = [i \in 1 .. m |-> BASE64[1 + SextetOf(v, i)]]
    <2>1. "=" \in AsciiSpace \union {"="} /\ AsciiSpace \union {"="} \subseteq AsciiSpace \union {"="}
      OBVIOUS
    <2> QED BY <1>1, <2>1, PaddingLeaves
  <1> DEFINE t == [i \in 1 .. m |-> BASE64[1 + SextetOf(v, i)]]
             S == DOMAIN Base64Val
  <1>4. \A i \in 1 .. m : t[i] \in S /\ Base64Val[t[i]] = x[i]
    <2>1. \A k \in 0 .. 63 : 1 + k \in 1 .. 64 /\ (1 + k) - 1 = k
      OBVIOUS
    <2>2. \A i \in 1 .. m : t[i] = BASE64[1 + SextetOf(v, i)] /\ x[i] = SextetOf(v, i)
      BY <1>2, Zenon
    <2>3. \A k \in 1 .. 64 : BASE64[k] \in S /\ Base64Val[BASE64[k]] = k - 1
      BY Base64Alphabet, Zenon
    <2> HIDE DEF t, S
    <2> SUFFICES ASSUME NEW i \in 1 .. m PROVE t[i] \in S /\ Base64Val[t[i]] = x[i]
      OBVIOUS
    <2>4. PICK k \in 0 .. 63 : k = SextetOf(v, i)
      BY <1>3, Zenon
    <2>5. BASE64[1 + k] \in S /\ Base64Val[BASE64[1 + k]] = k
      BY ONLY k \in 0 .. 63, <2>1, <2>3, Zenon
    <2> QED BY <2>2, <2>4, <2>5, Zenon
  <1>5. t \in Seq(S) /\ Len(t) = m /\ DOMAIN t = 1 .. m
    <2>1. \A i \in 1 .. m : BASE64[1 + SextetOf(v, i)] \in S
      BY <1>4, Zenon
    <2> HIDE DEF S
    <2> QED BY <1>3, <2>1
  <1> HIDE DEF t, S
  <1>6. Range(t) \subseteq DOMAIN Base64Val
    BY <1>4, <1>5 DEF Range, S
  <1>7. x = [i \in 1 .. m |-> Base64Val[t[i]]]
    BY <1>2, <1>4, Zenon
  <1>8. Sextets(t) = IF Waiting(m) >= 6 \/ Waits(x, m) # 0 THEN NONE ELSE BytesOf(x, m)
    <2>1. m \in Nat /\ m = Len(t)
      BY <1>3, <1>5
    <2>2. DecodesTo(t, x, m)
      BY <1>5, <1>6, <1>7, <2>1, SextetsAreBytes
    <2> QED BY ONLY <2>2, Zenon DEF DecodesTo
  <1>9. ~(Waiting(m) >= 6) /\ Waits(x, m) = 0 /\ BytesOf(x, m) = v
    BY <1>1, <1>2, BytesComeBack
  <1>10. Base64Decode(Base64Encode(v)) = Sextets(t)
    BY <1>3, Zenon DEF Base64Decode, t
  <1> QED BY <1>8, <1>9, <1>10, Zenon

-----------------------------------------------------------------------------
\* What a question about an encoding is answered with.
DecodedAs(k, s) == IF k = "hex" THEN HexDecode(s) ELSE Base64Decode(s)
EncodedAs(k, b) == IF k = "hex" THEN HexEncodeUpper(b) ELSE Base64Encode(b)

\* A text is decoded and what was read is written; bytes are written, and that is decoded.
AboutBytes == About("hex") \/ About("base64")
Decoding ==
  /\ asked = NONE => turn = "first"
  /\ turn \in {"first", "second", "done"}
  /\ AboutBytes =>
       /\ asked \in Questions
       /\ IsGiven("text") /\ turn # "first" => answer = DecodedAs(asked.kind, asked.text)
       /\ IsGiven("text") /\ turn = "done" => answer # NONE /\ written = EncodedAs(asked.kind, answer)
       /\ ~IsGiven("text") /\ turn # "first" => written = EncodedAs(asked.kind, asked.value)
       /\ ~IsGiven("text") /\ turn = "done" => answer = DecodedAs(asked.kind, written)

\* In such states what is decoded is exact.
LEMMA DecodingShows ==
  ASSUME Decoding
  PROVE  DecodingIsExact
  <1> SUFFICES ASSUME AboutBytes, turn = "done" PROVE DecodingIsExact
    BY Zenon DEF DecodingIsExact, AboutBytes
  <1>1. /\ asked \in Questions /\ asked.kind \in {"hex", "base64"} /\ turn # "first"
        /\ (About("hex") => asked.kind = "hex") /\ (About("base64") => asked.kind = "base64")
        /\ "base64" # "hex"
    <2>1. "done" # "first" /\ "base64" # "hex" /\ "hex" \in {"hex", "base64"} /\ "base64" \in {"hex", "base64"}
      OBVIOUS
    <2> QED BY <2>1, Zenon DEF Decoding, AboutBytes, About
  <1>2. CASE IsGiven("text")
    <2>1. PICK s : s = asked.text /\ s \in Seq(Range(s)) /\ asked = [kind |-> asked.kind, text |-> s]
      BY <1>1, <1>2, EncodingsAssumption, Zenon DEF IsGiven
    <2>2. ~IsGiven("value")
      BY <2>1 DEF IsGiven
    <2>3. answer = DecodedAs(asked.kind, s) /\ answer # NONE /\ written = EncodedAs(asked.kind, answer)
      BY <1>1, <1>2, <2>1, Zenon DEF Decoding
    <2>4. About("base64") => Leaving(written, {"="}) = Bare64(Leaving(asked.text, AsciiSpace \union {"="}))
      <3> SUFFICES ASSUME About("base64")
                   PROVE  Leaving(written, {"="}) = Bare64(Leaving(s, AsciiSpace \union {"="}))
        BY <2>1, Zenon
      <3>1. answer = Base64Decode(s) /\ written = Base64Encode(answer)
        BY <1>1, <2>3, Zenon DEF DecodedAs, EncodedAs
      <3>2. Leaving(Base64Encode(Base64Decode(s)), {"="}) = Bare64(Leaving(s, AsciiSpace \union {"="}))
        BY <2>1, <2>3, <3>1, Base64IsExact
      <3> QED BY <3>1, <3>2, Zenon
    <2>5. About("hex") =>
            LET kept == Leaving(asked.text, AsciiSpace)
            IN  written = UpperCase(IF {"x", "X"} \intersect Range(kept) # {} THEN SubSeq(kept, 3, Len(kept)) ELSE kept)
      <3> SUFFICES ASSUME About("hex"), NEW kept, kept = Leaving(s, AsciiSpace)
                   PROVE  written = UpperCase(IF {"x", "X"} \intersect Range(kept) # {}
                                              THEN SubSeq(kept, 3, Len(kept)) ELSE kept)
        BY <2>1, Zenon
      <3>1. answer = HexDecode(s) /\ written = HexEncodeUpper(answer)
        BY <1>1, <2>3, Zenon DEF DecodedAs, EncodedAs
      <3>2. HexEncodeUpper(HexDecode(s)) = UpperCase(IF {"x", "X"} \intersect Range(kept) # {}
                                                     THEN SubSeq(kept, 3, Len(kept)) ELSE kept)
        BY <2>1, <2>3, <3>1, HexIsExact
      <3> QED BY <3>1, <3>2, Zenon
    <2> QED BY <2>2, <2>4, <2>5, Zenon DEF DecodingIsExact
  <1>3. CASE ~IsGiven("text")
    <2>1. PICK v \in Seq(0 .. 255) : v = asked.value
      BY <1>1, <1>3, EncodingsAssumption, Zenon DEF IsGiven
    <2>2. written = EncodedAs(asked.kind, v) /\ answer = DecodedAs(asked.kind, written)
      BY <1>1, <1>3, <2>1, Zenon DEF Decoding
    <2>3. HexDecode(HexEncodeUpper(v)) = v
      BY HexIsReadBack
    <2>4. Base64Decode(Base64Encode(v)) = v
      BY Base64IsReadBack
    <2>5. answer = v
      BY <1>1, <2>2, <2>3, <2>4, Zenon DEF DecodedAs, EncodedAs
    <2> QED BY <1>3, <2>1, <2>5, Zenon DEF DecodingIsExact
  <1> QED BY <1>2, <1>3

\* What is not about an encoding says nothing of one.
LEMMA FormKeepsDecoding ==
  ASSUME Decoding, Form
  PROVE  Decoding'
  <1>1. "first" # "second" /\ "second" # "done" /\ "first" # "done" /\ "hex" # "base64"
    OBVIOUS
  <1>2. turn' = (IF turn = "first" THEN "second" ELSE "done") /\ asked' = asked /\ asked # NONE
    BY Zenon DEF Form, ReadForm, WriteForm, ReadScalars, ReadDer, ReadKey, ReadTime, ReadCode, ReadHex, ReadBase64,
       WriteScalars, WriteDer, WriteKey, WriteTime, PlaceTime, WriteCode, WriteHex, WriteBase64,
       Answer, WriteAs, Turned, Reads, Writes, About
  <1>3. turn' \in {"first", "second", "done"}
    BY <1>2
  <1>4. CASE ReadHex \/ ReadBase64
    <2>1. /\ AboutBytes /\ turn = (IF IsGiven("text") THEN "first" ELSE "second")
          /\ answer' = DecodedAs(asked.kind, Spelling) /\ written' = written
      BY <1>1, <1>4, Zenon DEF ReadHex, ReadBase64, Reads, Answer, About, AboutBytes, DecodedAs
    <2>2. asked \in Questions
      BY <2>1, Zenon DEF Decoding
    <2>3. CASE IsGiven("text")
      <3>1. answer' = DecodedAs(asked.kind, asked.text) /\ turn' = "second"
        BY <1>2, <2>1, <2>3, Zenon DEF Spelling
      <3> QED BY <1>1, <1>2, <1>3, <2>1, <2>2, <2>3, <3>1, Zenon DEF Decoding, AboutBytes, About, IsGiven
    <2>4. CASE ~IsGiven("text")
      <3>1. answer' = DecodedAs(asked.kind, written) /\ turn' = "done" /\ turn # "first"
        BY <1>1, <1>2, <2>1, <2>4, Zenon DEF Spelling
      <3>2. written = EncodedAs(asked.kind, asked.value)
        BY <2>1, <2>4, <3>1, Zenon DEF Decoding
      <3> QED BY <1>1, <1>2, <1>3, <2>1, <2>2, <2>4, <3>1, <3>2, Zenon DEF Decoding, AboutBytes, About, IsGiven
    <2> QED BY <2>3, <2>4
  <1>5. CASE WriteHex \/ WriteBase64
    <2>1. /\ AboutBytes /\ turn = (IF IsGiven("text") THEN "second" ELSE "first") /\ Content # NONE
          /\ written' = EncodedAs(asked.kind, Content) /\ answer' = answer
      BY <1>1, <1>5, Zenon DEF WriteHex, WriteBase64, Writes, WriteAs, About, AboutBytes, EncodedAs
    <2>2. asked \in Questions
      BY <2>1, Zenon DEF Decoding
    <2>3. CASE IsGiven("text")
      <3>1. turn' = "done" /\ turn # "first" /\ answer # NONE /\ written' = EncodedAs(asked.kind, answer)
        BY <1>1, <1>2, <2>1, <2>3, Zenon DEF Content
      <3>2. answer = DecodedAs(asked.kind, asked.text)
        BY <2>1, <2>3, <3>1, Zenon DEF Decoding
      <3> QED BY <1>1, <1>2, <1>3, <2>1, <2>2, <2>3, <3>1, <3>2, Zenon DEF Decoding, AboutBytes, About, IsGiven
    <2>4. CASE ~IsGiven("text")
      <3>1. written' = EncodedAs(asked.kind, asked.value) /\ turn' = "second"
        BY <1>1, <1>2, <2>1, <2>4, Zenon DEF Content
      <3> QED BY <1>1, <1>2, <1>3, <2>1, <2>2, <2>4, <3>1, Zenon DEF Decoding, AboutBytes, About, IsGiven
    <2> QED BY <2>3, <2>4
  <1>6. ASSUME NEW k, k # "hex", k # "base64", Reads(k) \/ Writes(k)
        PROVE  Decoding'
    <2>1. asked' # NONE /\ ~(asked'.kind = "hex") /\ ~(asked'.kind = "base64")
      BY <1>2, <1>6 DEF Reads, Writes, About
    <2> QED BY <1>3, <2>1, Zenon DEF Decoding, AboutBytes, About
  <1>7. CASE (ReadForm \/ WriteForm) /\ ~(ReadHex \/ ReadBase64) /\ ~(WriteHex \/ WriteBase64)
    <2>1. \E k \in {"scalars", "der", "date", "key", "time", "obis"} : Reads(k) \/ Writes(k)
      BY <1>7, Zenon DEF ReadForm, WriteForm, ReadScalars, ReadDer, ReadKey, ReadTime, ReadCode,
         WriteScalars, WriteDer, WriteKey, WriteTime, PlaceTime, WriteCode
    <2>2. \A k \in {"scalars", "der", "date", "key", "time", "obis"} : k # "hex" /\ k # "base64"
      OBVIOUS
    <2> QED BY <1>6, <2>1, <2>2
  <1> QED BY <1>4, <1>5, <1>7 DEF Form

\* Whatever text is decoded as hexadecimal or Base64, it is refused or, written again, is
\* what was there but for white space, prefix, padding, case and the alphabet of URLs;
\* and bytes of any number come back from what is written of them (encoding.rs).
THEOREM DecodingIsAlwaysExact == Spec => []DecodingIsExact
  <1>1. Init => Decoding
    BY Zenon DEF Init, NothingAsked, Decoding, About, AboutBytes
  <1>2. Decoding /\ [Next]_vars => Decoding'
    <2> SUFFICES ASSUME Decoding, [Next]_vars PROVE Decoding'
      OBVIOUS
    <2>1. CASE UNCHANGED forms
      BY <2>1 DEF forms, Decoding, About, AboutBytes, IsGiven
    <2>2. CASE CallForm
      <3>1. PICK q \in Questions : Ask(q)
        BY <2>2 DEF CallForm
      <3>2. asked' = q /\ turn' = "first"
        BY <3>1 DEF Ask, Decoding
      <3>3. "first" # "done" /\ "first" # "second" /\ "first" \in {"first", "second", "done"}
        OBVIOUS
      <3> QED BY <3>2, <3>3, Zenon DEF Decoding, About, AboutBytes
    <2>3. CASE Forming
      BY <2>3, FormKeepsDecoding DEF Forming
    <2>4. CASE CallRead \/ CallSign \/ CallTool \/ ReadOnly \/ Building \/ Tool \/ UNCHANGED vars
      BY <2>1, <2>4 DEF CallRead, CallSign, CallTool, ReadOnly, Building, Tool, vars
    <2> QED BY <2>2, <2>3, <2>4 DEF Next
  <1>3. Decoding => DecodingIsExact
    BY DecodingShows
  <1> QED BY <1>1, <1>2, <1>3, PTL DEF Spec

=============================================================================
