---------------------------- MODULE HttpDateProofs ----------------------------
(***************************************************************************)
(* Theorems about HttpDate, for every set of headers: the loops of         *)
(* timestamp_from_components compute the Gregorian calendar, and the       *)
(* comparison of two timestamps is the order of the dates that were        *)
(* written.                                                                *)
(***************************************************************************)
EXTENDS HttpDate, TLAPS

-----------------------------------------------------------------------------
(* The calendar.                                                           *)

(* The leap year rule of the code gives the years their lengths.           *)
LEMMA YearLength ==
    ASSUME NEW year \in Nat, year >= 1
    PROVE  /\ DaysBeforeYear(year) \in Nat
           /\ DaysBeforeYear(year + 1) - DaysBeforeYear(year)
                = IF IsLeap(year) THEN 366 ELSE 365
<1>1. DaysBeforeYear(year) \in Nat
  BY SMTT(30) DEF DaysBeforeYear
<1>2. year \div 4 - (year - 1) \div 4 = IF year % 4 = 0 THEN 1 ELSE 0
  BY SMTT(30)
<1>3. year \div 100 - (year - 1) \div 100 = IF year % 100 = 0 THEN 1 ELSE 0
  BY SMTT(30)
<1>4. year \div 400 - (year - 1) \div 400 = IF year % 400 = 0 THEN 1 ELSE 0
  BY SMTT(30)
<1>5. /\ year % 400 = 0 => year % 100 = 0
      /\ year % 100 = 0 => year % 4 = 0
  BY SMTT(30)
<1>6. QED
  BY <1>1, <1>2, <1>3, <1>4, <1>5, SMTT(30) DEF DaysBeforeYear, IsLeap

(* Its table gives the months theirs.                                      *)
LEMMA MonthTable ==
    ASSUME NEW year \in Nat, year >= 1, NEW month \in 1 .. 12
    PROVE  /\ MonthLength(year, month) = MaxDay(year, month)
           /\ MaxDay(year, month) \in 28 .. 31
           /\ DaysBeforeMonth(year, month) \in Nat
           /\ DaysBeforeMonth(year, 1) = 0
           /\ month < 12 =>
                DaysBeforeMonth(year, month + 1)
                  = DaysBeforeMonth(year, month) + DaysInMonth[month]
                      + (IF month = 2 /\ IsLeap(year) THEN 1 ELSE 0)
<1> DEFINE extra == 367 - (DaysBeforeYear(year + 1) - DaysBeforeYear(year))
<1>1. extra = IF IsLeap(year) THEN 1 ELSE 2
  <2>1. DaysBeforeYear(year) \in Nat /\ DaysBeforeYear(year + 1) \in Nat
    BY YearLength
  <2>2. QED
    BY <2>1, YearLength
<1>2. \A k \in 1 .. 12 : DaysBeforeMonth(year, k)
         = (367 * k - 362) \div 12 - (IF k <= 2 THEN 0 ELSE extra)
  BY DEF DaysBeforeMonth
<1> HIDE DEF extra
<1>3. \/ month = 1 \/ month = 2 \/ month = 3 \/ month = 4 \/ month = 5
      \/ month = 6 \/ month = 7 \/ month = 8 \/ month = 9 \/ month = 10
      \/ month = 11 \/ month = 12
  OBVIOUS
<1>4. DaysBeforeMonth(year, 1) = 0
  BY <1>2
<1>5. /\ DaysInMonth[1] = 31 /\ DaysInMonth[2] = 28 /\ DaysInMonth[3] = 31
      /\ DaysInMonth[4] = 30 /\ DaysInMonth[5] = 31 /\ DaysInMonth[6] = 30
      /\ DaysInMonth[7] = 31 /\ DaysInMonth[8] = 31 /\ DaysInMonth[9] = 30
      /\ DaysInMonth[10] = 31 /\ DaysInMonth[11] = 30 /\ DaysInMonth[12] = 31
  BY DEF DaysInMonth
<1>6. DaysBeforeMonth(year, month) \in Nat
  BY <1>1, <1>2, <1>3, SMTT(30)
<1>7. month < 12 =>
        DaysBeforeMonth(year, month + 1)
          = DaysBeforeMonth(year, month) + DaysInMonth[month]
              + (IF month = 2 /\ IsLeap(year) THEN 1 ELSE 0)
  <2>1. SUFFICES ASSUME month < 12
                 PROVE  DaysBeforeMonth(year, month + 1)
                          = DaysBeforeMonth(year, month) + DaysInMonth[month]
                              + (IF month = 2 /\ IsLeap(year) THEN 1 ELSE 0)
    OBVIOUS
  <2>2. /\ DaysBeforeMonth(year, month)
             = (367 * month - 362) \div 12
                 - (IF month <= 2 THEN 0 ELSE extra)
        /\ DaysBeforeMonth(year, month + 1)
             = (367 * (month + 1) - 362) \div 12
                 - (IF month + 1 <= 2 THEN 0 ELSE extra)
    BY <1>2, <2>1
  <2>3. CASE month <= 3
    BY <1>1, <1>3, <1>5, <2>2, <2>3, SMTT(30)
  <2>4. CASE month > 3
    BY <1>1, <1>3, <1>5, <2>1, <2>2, <2>4, SMTT(30)
  <2>5. QED
    BY <2>3, <2>4
<1>8. MaxDay(year, month) = DaysInMonth[month]
                              + (IF month = 2 /\ IsLeap(year) THEN 1 ELSE 0)
  BY <1>5 DEF MaxDay
<1>9. MonthLength(year, month) = MaxDay(year, month)
  <2>1. CASE month = 12
    BY <2>1, <1>5, <1>8 DEF MonthLength
  <2>2. CASE month # 12
    <3>1. month < 12 /\ DaysBeforeMonth(year, month + 1) \in Int
      BY <2>2, <1>6, <1>7, <1>3, <1>5
    <3>2. DaysInMonth[month] \in Nat
      BY <1>3, <1>5
    <3>3. QED
      BY <2>2, <3>1, <3>2, <1>6, <1>7, <1>8 DEF MonthLength
  <2>3. QED
    BY <2>1, <2>2
<1>10. MaxDay(year, month) \in 28 .. 31
  BY <1>3, <1>5, <1>8
<1>11. QED
  BY <1>4, <1>6, <1>7, <1>9, <1>10

(* The instants that the code takes headers to name, and their order.      *)
Instant(d) ==
    /\ Readable(d)
    /\ FullYear(d) \in 1970 .. 2100
    /\ d.day \in 1 .. MonthLength(FullYear(d), d.month)
    /\ TimeInRange(d)

Earlier(d, e) ==
    \/ FullYear(d) < FullYear(e)
    \/ /\ FullYear(d) = FullYear(e)
       /\ \/ d.month < e.month
          \/ d.month = e.month /\ d.day < e.day
          \/ /\ d.month = e.month /\ d.day = e.day
             /\ SecondsOf(d) < SecondsOf(e)

LEMMA FullYearType ==
    ASSUME NEW d \in HeaderDate
    PROVE  FullYear(d) \in Int
BY ConstantsAssumption DEF HeaderDate, FullYear

(* They are the ones that the headers name, if the year is meant at all.   *)
LEMMA Century ==
    ASSUME NEW d \in HeaderDate, YearIsMeant(d)
    PROVE  YearMeant(d) = FullYear(d)
<1>1. CASE d.format = "rfc850"
  <2>1. d.year \in 0 .. 99
    BY <1>1 DEF YearIsMeant
  <2>2. FullYear(d) \in 1970 .. 2069 /\ FullYear(d) % 100 = d.year
    BY <1>1, <2>1, SMTT(30) DEF FullYear
  <2>3. \A a, b \in 1970 .. 2069 : a % 100 = b % 100 => a = b
    BY SMTT(30)
  <2> DEFINE Ends(year) == year % 100 = d.year
  <2>4. YearMeant(d) = CHOOSE year \in 1970 .. 2069 : Ends(year)
    BY <1>1 DEF YearMeant
  <2>5. \E year \in 1970 .. 2069 : Ends(year)
    BY <2>2
  <2> HIDE DEF Ends
  <2>6. YearMeant(d) \in 1970 .. 2069 /\ Ends(YearMeant(d))
    BY <2>4, <2>5
  <2>7. QED
    BY <2>2, <2>3, <2>6 DEF Ends
<1>2. CASE d.format # "rfc850"
  BY <1>2 DEF YearMeant, FullYear
<1>3. QED
  BY <1>1, <1>2

LEMMA InstantIsNamed ==
    ASSUME NEW d \in HeaderDate, YearIsMeant(d)
    PROVE  Instant(d) <=> NamesInstant(d)
BY Century DEF Instant, NamesInstant

LEMMA EarlierIsBefore ==
    ASSUME NEW d \in HeaderDate, YearIsMeant(d),
           NEW e \in HeaderDate, YearIsMeant(e)
    PROVE  Earlier(d, e) <=> Before(d, e)
BY Century DEF Earlier, Before

(* The code accepts exactly the instants there are.                        *)
LEMMA ParsesIffInstant ==
    ASSUME NEW d \in HeaderDate
    PROVE  Parses(d) <=> Instant(d)
<1> DEFINE year == FullYear(d)
<1>1. year \in Int
  BY FullYearType
<1>2. CASE Readable(d) /\ year \in 1970 .. 2100
  <2>1. d.month \in 1 .. 12 /\ d.day \in Nat
    BY <1>2 DEF HeaderDate, Readable
  <2>2. /\ MonthLength(year, d.month) = MaxDay(year, d.month)
        /\ MaxDay(year, d.month) \in 28 .. 31
    <3>1. year \in Nat /\ year >= 1
      BY <1>2
    <3> HIDE DEF year
    <3>2. QED
      BY <2>1, <3>1, MonthTable
  <2>3. ~YearOverflows(d)
    BY <1>2, ConstantsAssumption DEF YearOverflows
  <2>4. d.day \in 1 .. MonthLength(year, d.month)
          <=> d.day \in 1 .. 31 /\ d.day <= MaxDay(year, d.month)
    BY <2>1, <2>2
  <2>5. QED
    BY <1>1, <1>2, <2>3, <2>4 DEF Parses, Instant, DateInRange
<1>3. CASE ~(Readable(d) /\ year \in 1970 .. 2100)
  BY <1>1, <1>3 DEF Parses, Instant, DateInRange
<1>4. QED
  BY <1>2, <1>3

(* Years do not overlap, nor do the months of one.                         *)
LEMMA YearOrder ==
    ASSUME NEW y1 \in Nat, NEW y2 \in Nat, y1 >= 1, y1 < y2
    PROVE  DaysBeforeYear(y1 + 1) <= DaysBeforeYear(y2)
<1> DEFINE a == y1 + 1 - 1
           b == y2 - 1
<1>1. a \in Nat /\ b \in Nat /\ a <= b
  OBVIOUS
<1>2. DaysBeforeYear(y1 + 1) = 365 * a + a \div 4 - a \div 100 + a \div 400
  BY DEF DaysBeforeYear
<1>3. DaysBeforeYear(y2) = 365 * b + b \div 4 - b \div 100 + b \div 400
  BY DEF DaysBeforeYear
<1> HIDE DEF a, b
<1>4. QED
  BY <1>1, <1>2, <1>3, SMTT(60)

LEMMA MonthOrder ==
    ASSUME NEW year \in Nat, year >= 1, NEW m1 \in 1 .. 12, NEW m2 \in 1 .. 12,
           m1 < m2
    PROVE  DaysBeforeMonth(year, m1) + MonthLength(year, m1)
             <= DaysBeforeMonth(year, m2)
<1> DEFINE extra == 367 - (DaysBeforeYear(year + 1) - DaysBeforeYear(year))
<1>1. extra \in 1 .. 2
  <2>1. DaysBeforeYear(year) \in Nat /\ DaysBeforeYear(year + 1) \in Nat
    BY YearLength
  <2>2. QED
    BY <2>1, YearLength
<1>2. \A k \in 1 .. 12 : DaysBeforeMonth(year, k)
         = (367 * k - 362) \div 12 - (IF k <= 2 THEN 0 ELSE extra)
  BY DEF DaysBeforeMonth
<1> HIDE DEF extra
<1>3. /\ m1 + 1 \in 1 .. 12 /\ m1 + 1 <= m2
      /\ \A k \in 1 .. 12 : DaysBeforeMonth(year, k) \in Nat
  BY MonthTable
<1>4. DaysBeforeMonth(year, m1) + MonthLength(year, m1)
        = DaysBeforeMonth(year, m1 + 1)
  BY <1>3 DEF MonthLength
<1>5. DaysBeforeMonth(year, m1 + 1) <= DaysBeforeMonth(year, m2)
  BY <1>1, <1>2, <1>3, SMTT(60)
<1>6. QED
  BY <1>4, <1>5

LEMMA MonthsFitYear ==
    ASSUME NEW year \in Nat, year >= 1, NEW month \in 1 .. 12
    PROVE  DaysBeforeMonth(year, month) + MonthLength(year, month)
             <= DaysBeforeYear(year + 1) - DaysBeforeYear(year)
<1> DEFINE length == DaysBeforeYear(year + 1) - DaysBeforeYear(year)
<1>1. length \in 365 .. 366
  <2>1. DaysBeforeYear(year) \in Nat /\ DaysBeforeYear(year + 1) \in Nat
    BY YearLength
  <2>2. QED
    BY <2>1, YearLength
<1>2. DaysBeforeMonth(year, 12) = (367 * 12 - 362) \div 12 - (367 - length)
  BY DEF DaysBeforeMonth
<1> HIDE DEF length
<1>3. DaysBeforeMonth(year, 12) + 31 = length
  BY <1>1, <1>2, SMTT(30)
<1>4. MonthLength(year, 12) = 31
  BY DEF MonthLength
<1>5. CASE month = 12
  BY <1>3, <1>4, <1>5, <1>1 DEF length
<1>6. CASE month # 12
  <2>1. DaysBeforeMonth(year, month) + MonthLength(year, month)
          <= DaysBeforeMonth(year, 12)
    BY <1>6, MonthOrder
  <2>2. /\ DaysBeforeMonth(year, month) \in Nat
        /\ DaysBeforeMonth(year, 12) \in Nat
        /\ MonthLength(year, month) \in Nat
    BY MonthTable
  <2>3. QED
    BY <1>1, <1>3, <2>1, <2>2 DEF length
<1>7. QED
  BY <1>5, <1>6

(* Dates in their order have day numbers in that order.                    *)
RealDay(year, month, day) ==
    /\ year \in 1970 .. 2100
    /\ month \in 1 .. 12
    /\ day \in 1 .. MonthLength(year, month)

LEMMA DayOrder ==
    ASSUME NEW y1, NEW m1, NEW d1, RealDay(y1, m1, d1),
           NEW y2, NEW m2, NEW d2, RealDay(y2, m2, d2),
           \/ y1 < y2
           \/ y1 = y2 /\ m1 < m2
           \/ y1 = y2 /\ m1 = m2 /\ d1 < d2
    PROVE  DayNumber(y1, m1, d1) < DayNumber(y2, m2, d2)
<1>1. /\ y1 \in Nat /\ y1 >= 1 /\ y2 \in Nat /\ y2 >= 1
      /\ y1 + 1 \in Nat /\ y1 + 1 >= 1
      /\ 1970 \in Nat /\ 1970 >= 1
      /\ m1 \in 1 .. 12 /\ d1 \in 1 .. MonthLength(y1, m1)
      /\ m2 \in 1 .. 12 /\ d2 \in 1 .. MonthLength(y2, m2)
  BY DEF RealDay
<1>2. /\ DaysBeforeMonth(y1, m1) \in Nat /\ DaysBeforeMonth(y2, m2) \in Nat
      /\ MonthLength(y1, m1) \in Nat /\ MonthLength(y2, m2) \in Nat
  <2>1. /\ DaysBeforeMonth(y1, m1) \in Nat
        /\ MonthLength(y1, m1) = MaxDay(y1, m1) /\ MaxDay(y1, m1) \in 28 .. 31
    BY <1>1, MonthTable
  <2>2. /\ DaysBeforeMonth(y2, m2) \in Nat
        /\ MonthLength(y2, m2) = MaxDay(y2, m2) /\ MaxDay(y2, m2) \in 28 .. 31
    BY <1>1, MonthTable
  <2>3. QED
    BY <2>1, <2>2
<1>3. /\ DaysBeforeYear(y1) \in Nat /\ DaysBeforeYear(y2) \in Nat
      /\ DaysBeforeYear(y1 + 1) \in Nat /\ DaysBeforeYear(1970) \in Nat
  BY <1>1, YearLength
<1>4. d1 \in Nat /\ d2 \in Nat /\ d1 <= MonthLength(y1, m1) /\ d2 >= 1
  BY <1>1, <1>2
<1>5. CASE y1 < y2
  <2>1. DaysBeforeYear(y1 + 1) <= DaysBeforeYear(y2)
    BY <1>1, <1>5, YearOrder
  <2>2. DaysBeforeMonth(y1, m1) + MonthLength(y1, m1)
          <= DaysBeforeYear(y1 + 1) - DaysBeforeYear(y1)
    BY <1>1, MonthsFitYear
  <2>3. QED
    BY <1>2, <1>3, <1>4, <2>1, <2>2 DEF DayNumber
<1>6. CASE y1 = y2 /\ m1 < m2
  <2>1. DaysBeforeMonth(y1, m1) + MonthLength(y1, m1)
          <= DaysBeforeMonth(y1, m2)
    BY <1>1, <1>6, MonthOrder
  <2>2. QED
    BY <1>2, <1>3, <1>4, <1>6, <2>1 DEF DayNumber
<1>7. CASE y1 = y2 /\ m1 = m2 /\ d1 < d2
  BY <1>2, <1>3, <1>4, <1>7 DEF DayNumber
<1>8. QED
  BY <1>5, <1>6, <1>7
-----------------------------------------------------------------------------
(* The loops.                                                              *)

Header(s) == IF s = "stored" THEN stored ELSE client

Day(d) == DayNumber(FullYear(d), d.month, d.day)

(* The timestamp that a header ought to have.                              *)
Reference(d) == IF SecondsOf(d) = SecondsPerDay
                THEN <<Day(d) + 1, 0>> ELSE <<Day(d), SecondsOf(d)>>

(* The same by the year that is meant.                                     *)
Expected(d) ==
    LET day == DayNumber(YearMeant(d), d.month, d.day)
    IN  IF SecondsOf(d) = SecondsPerDay
        THEN <<day + 1, 0>> ELSE <<day, SecondsOf(d)>>

(* What the two loops have added up so far.                                *)
YearsInv ==
    pc = "years" =>
        /\ Parses(date)
        /\ m = 1
        /\ y <= FullYear(date)
        /\ days = DaysBeforeYear(y) - DaysBeforeYear(1970)

MonthsInv ==
    pc = "months" =>
        /\ Parses(date)
        /\ y = FullYear(date)
        /\ m <= date.month
        /\ days = DaysBeforeYear(y) + DaysBeforeMonth(y, m)
                    - DaysBeforeYear(1970)

TimestampInv ==
    \A s \in Sides :
        ts[s] # None => Parses(Header(s)) /\ ts[s] = Reference(Header(s))

(* Where the call stands says which timestamps it has.                     *)
OrderInv ==
    /\ at = "client" => ts["stored"] # None
    /\ pc = "compare" => at = "client" /\ ts["client"] # None
    /\ answer # None => pc = "done"
    /\ answer = TRUE =>
         /\ ts["stored"] # None /\ ts["client"] # None
         /\ NotAfter(ts["stored"], ts["client"])
    /\ answer = FALSE =>
         \/ ~Parses(stored) \/ ~Parses(client)
         \/ /\ ts["stored"] # None /\ ts["client"] # None
            /\ ~NotAfter(ts["stored"], ts["client"])

Inv == TypeOK /\ YearsInv /\ MonthsInv /\ TimestampInv /\ OrderInv

LEMMA InstantsInRange ==
    ASSUME NEW d \in HeaderDate, Parses(d)
    PROVE  /\ FullYear(d) \in 1970 .. 2100
           /\ d.month \in 1 .. 12
           /\ d.day \in 1 .. MonthLength(FullYear(d), d.month)
           /\ SecondsOf(d) \in Nat /\ SecondsOf(d) <= SecondsPerDay
           /\ Instant(d)
<1>1. Instant(d)
  BY ParsesIffInstant
<1>2. d.month \in 1 .. 12
  BY <1>1 DEF Instant, Readable, HeaderDate
<1>3. d.hour \in 0 .. 23 /\ d.min \in 0 .. 59 /\ d.sec \in 0 .. 60
  BY <1>1 DEF Instant, TimeInRange, HeaderDate
<1>4. SecondsOf(d) \in Nat /\ SecondsOf(d) <= SecondsPerDay
  <2> DEFINE h == d.hour
             mi == d.min
             se == d.sec
  <2>1. SecondsOf(d) = h * 3600 + mi * 60 + se
    BY SMT DEF SecondsOf
  <2>2. h \in 0 .. 23 /\ mi \in 0 .. 59 /\ se \in 0 .. 60
    BY <1>3
  <2> HIDE DEF h, mi, se
  <2>3. /\ h * 3600 + mi * 60 + se \in Nat
        /\ h * 3600 + mi * 60 + se <= SecondsPerDay
    BY <2>2, SMT DEF SecondsPerDay
  <2>4. QED
    BY <2>1, <2>3, SMT
<1>5. /\ FullYear(d) \in 1970 .. 2100
      /\ d.day \in 1 .. MonthLength(FullYear(d), d.month)
  BY <1>1 DEF Instant
<1>6. QED
  BY <1>1, <1>2, <1>4, <1>5, SMT

LEMMA ReferenceType ==
    ASSUME NEW d \in HeaderDate, Parses(d)
    PROVE  /\ Day(d) \in Nat
           /\ Day(d) = DaysBeforeYear(FullYear(d))
                        + DaysBeforeMonth(FullYear(d), d.month)
                        - DaysBeforeYear(1970) + (d.day - 1)
           /\ Reference(d) \in Timestamp
           /\ Reference(d) # None
<1> DEFINE year == FullYear(d)
<1> SecondsPerDay \in Nat /\ SecondsPerDay > 0
  BY SMT DEF SecondsPerDay
<1>1. /\ year \in 1970 .. 2100 /\ FullYear(d) = year /\ d.month \in 1 .. 12
      /\ SecondsOf(d) \in Nat /\ SecondsOf(d) <= SecondsPerDay
      /\ Instant(d)
  BY InstantsInRange, SMT
<1>2. d.day \in Nat /\ d.day >= 1
  BY <1>1, SMT DEF HeaderDate, Instant
<1> HIDE DEF year
<1>3. /\ DaysBeforeYear(year) \in Nat /\ DaysBeforeYear(1970) \in Nat
      /\ DaysBeforeMonth(year, d.month) \in Nat
  <2>1. year \in Nat /\ year >= 1 /\ 1970 \in Nat /\ 1970 >= 1
    BY <1>1, SMT
  <2>2. QED
    BY <1>1, <2>1, YearLength, MonthTable
<1>4. DaysBeforeYear(1970) <= DaysBeforeYear(year)
  <2>1. CASE year = 1970
    BY <1>3, <2>1
  <2>2. CASE year > 1970
    <3>1. /\ 1970 \in Nat /\ year \in Nat /\ 1970 < year /\ 1970 >= 1
          /\ 1970 + 1 = 1971 /\ 1971 \in Nat
      BY <1>1, <2>2, SMT
    <3>2. DaysBeforeYear(1971) <= DaysBeforeYear(year)
      BY <3>1, YearOrder
    <3>3. DaysBeforeYear(1970) <= DaysBeforeYear(1971)
      BY SMTT(20) DEF DaysBeforeYear
    <3>4. DaysBeforeYear(1971) \in Nat
      BY <3>1, YearLength
    <3>5. QED
      BY <1>3, <3>2, <3>3, <3>4
  <2>3. QED
    BY <1>1, <2>1, <2>2
<1>5. Day(d) = DaysBeforeYear(year) + DaysBeforeMonth(year, d.month)
                 - DaysBeforeYear(1970) + (d.day - 1)
  BY <1>1, <1>2, <1>3, SMT DEF Day, DayNumber
<1>6. Day(d) \in Nat
  BY <1>2, <1>3, <1>4, <1>5, SMT
<1>7. Reference(d) \in Timestamp
  <2>1. /\ Day(d) + 1 \in Nat /\ 0 \in 0 .. SecondsPerDay - 1
        /\ SecondsOf(d) # SecondsPerDay => SecondsOf(d) \in 0 .. SecondsPerDay - 1
    BY <1>1, <1>6, SMT
  <2>2. CASE SecondsOf(d) = SecondsPerDay
    BY <2>1, <2>2, SMT DEF Reference, Timestamp
  <2>3. CASE SecondsOf(d) # SecondsPerDay
    BY <1>6, <2>1, <2>3, SMT DEF Reference, Timestamp
  <2>4. QED
    BY <2>2, <2>3, SMT
<1>8. Reference(d) # None
  <2>1. Reference(d) \in Nat \X Nat
    BY <1>1, <1>6, SMT DEF Reference
  <2>2. None \notin Nat \X Nat
    BY ConstantsAssumption, SMT
  <2>3. QED
    BY <2>1, <2>2
<1>9. QED
  BY <1>5, <1>6, <1>7, <1>8, SMT DEF year

LEMMA InitInv == Init => Inv
<1> SUFFICES ASSUME Init PROVE Inv
  OBVIOUS
<1>1. None # TRUE /\ None # FALSE
  <2>1. None \notin BOOLEAN
    BY ConstantsAssumption
  <2>2. QED
    BY <2>1, Zenon
<1>2. TypeOK
  BY DEF Init, TypeOK, Sides
<1>3. YearsInv /\ MonthsInv /\ TimestampInv
  BY DEF Init, YearsInv, MonthsInv, TimestampInv
<1>4. OrderInv
  BY <1>1 DEF Init, OrderInv
<1>5. QED
  BY <1>2, <1>3, <1>4 DEF Inv

LEMMA NextInv == Inv /\ [Next]_vars => Inv'
<1> SUFFICES ASSUME Inv, [Next]_vars PROVE Inv'
  OBVIOUS
<1>1. TypeOK /\ YearsInv /\ MonthsInv /\ TimestampInv /\ OrderInv
  BY DEF Inv
<1>2. date \in HeaderDate /\ stored \in HeaderDate /\ client \in HeaderDate
  BY <1>1, ConstantsAssumption DEF TypeOK, date
<1>3. CASE Parse
  <2>1. /\ pc' = "years" /\ y' = 1970 /\ m' = 1 /\ days' = 0
        /\ UNCHANGED <<stored, client, at, ts, answer>> /\ pc = "parse"
        /\ Parses(date)
    BY <1>3 DEF Parse
  <2>2. TypeOK'
    <3>1. y' \in 1970 .. 2100 /\ m' \in 1 .. 12 /\ days' \in Nat
      BY <2>1
    <3>2. QED
      BY <1>1, <2>1, <3>1 DEF TypeOK
  <2>3. YearsInv'
    <3>1. Parses(date)' /\ FullYear(date)' = FullYear(date)
      BY <2>1 DEF date
    <3>2. FullYear(date) \in 1970 .. 2100
      BY <1>2, <2>1, InstantsInRange, SMT
    <3>3. DaysBeforeYear(1970) \in Nat
      BY YearLength, SMT
    <3>4. QED
      BY <2>1, <3>1, <3>2, <3>3, SMT DEF YearsInv
  <2>4. QED
    BY <1>1, <2>1, <2>2, <2>3
       DEF Inv, MonthsInv, TimestampInv, OrderInv, Header
<1>4. CASE ParseFails
  <2>1. /\ pc' = "done" /\ answer' = FALSE /\ pc = "parse"
        /\ UNCHANGED <<stored, client, at, y, m, days, ts>> /\ ~Parses(date)
    BY <1>4 DEF ParseFails
  <2>2. TypeOK'
    <3>1. answer' \in BOOLEAN /\ pc' = "done"
      BY <2>1
    <3>2. QED
      BY <1>1, <2>1, <3>1 DEF TypeOK
  <2>3. ~Parses(stored) \/ ~Parses(client)
    BY <2>1 DEF date
  <2>4. OrderInv'
    <3>1. FALSE # TRUE
      OBVIOUS
    <3>2. QED
      BY <1>1, <2>1, <2>3, <3>1 DEF OrderInv
  <2>5. QED
    BY <1>1, <2>1, <2>2, <2>4
       DEF Inv, YearsInv, MonthsInv, TimestampInv, Header
<1>5. CASE YearPanics
  <2>1. /\ pc' = "panic" /\ pc = "parse"
        /\ UNCHANGED <<stored, client, at, y, m, days, ts, answer>>
    BY <1>5 DEF YearPanics
  <2>2. TypeOK'
    BY <1>1, <2>1, SMT DEF TypeOK
  <2>3. QED
    BY <1>1, <2>1, <2>2
       DEF Inv, YearsInv, MonthsInv, TimestampInv, OrderInv, Header
<1>6. CASE AddYear
  <2>1. /\ pc = "years" /\ y < FullYear(date) /\ y' = y + 1
        /\ days' = days + (IF IsLeap(y) THEN 366 ELSE 365)
        /\ UNCHANGED <<stored, client, pc, at, m, ts, answer>>
    BY <1>6 DEF AddYear
  <2>2. /\ Parses(date) /\ m = 1
        /\ days = DaysBeforeYear(y) - DaysBeforeYear(1970)
    BY <1>1, <2>1 DEF YearsInv
  <2>3. FullYear(date) \in 1970 .. 2100 /\ y \in 1970 .. 2100 /\ days \in Nat
    BY <1>1, <1>2, <2>2, InstantsInRange, SMT DEF TypeOK
  <2>4. TypeOK'
    BY <1>1, <2>1, <2>3, SMT DEF TypeOK
  <2>5. YearsInv'
    <3>1. Parses(date)' /\ FullYear(date)' = FullYear(date)
      BY <2>1, <2>2 DEF date
    <3>2. /\ DaysBeforeYear(1970) \in Nat /\ DaysBeforeYear(y) \in Nat
          /\ DaysBeforeYear(y + 1) \in Nat
          /\ DaysBeforeYear(y + 1) - DaysBeforeYear(y)
               = IF IsLeap(y) THEN 366 ELSE 365
      BY <2>3, YearLength, SMT
    <3>3. days' = DaysBeforeYear(y + 1) - DaysBeforeYear(1970)
      BY <2>1, <2>2, <3>2, SMT
    <3>4. QED
      BY <2>1, <2>2, <2>3, <3>1, <3>3, SMT DEF YearsInv
  <2>6. QED
    BY <1>1, <2>1, <2>4, <2>5
       DEF Inv, MonthsInv, TimestampInv, OrderInv, Header
<1>7. CASE YearsDone
  <2>1. /\ pc = "years" /\ y = FullYear(date) /\ pc' = "months"
        /\ UNCHANGED <<stored, client, at, y, m, days, ts, answer>>
    BY <1>7 DEF YearsDone
  <2>2. /\ Parses(date) /\ m = 1
        /\ days = DaysBeforeYear(y) - DaysBeforeYear(1970)
    BY <1>1, <2>1 DEF YearsInv
  <2>3. TypeOK'
    BY <1>1, <2>1, SMT DEF TypeOK
  <2>4. MonthsInv'
    <3>1. Parses(date)' /\ date' = date /\ FullYear(date)' = FullYear(date)
      BY <2>1, <2>2 DEF date
    <3>2. y \in Nat /\ y >= 1 /\ date.month \in 1 .. 12
      BY <1>1, <1>2, <2>2, InstantsInRange, SMT DEF TypeOK
    <3>3. DaysBeforeMonth(y, 1) = 0 /\ DaysBeforeYear(y) \in Nat
      BY <3>2, MonthTable, YearLength, SMT
    <3>4. DaysBeforeYear(1970) \in Nat
      BY YearLength, SMT
    <3>5. QED
      BY <2>1, <2>2, <3>1, <3>2, <3>3, <3>4, SMT DEF MonthsInv
  <2>5. QED
    BY <1>1, <2>1, <2>3, <2>4
       DEF Inv, YearsInv, TimestampInv, OrderInv, Header
<1>8. CASE AddMonth
  <2>1. /\ pc = "months" /\ m < date.month /\ m' = m + 1
        /\ days' = days + DaysInMonth[m]
                      + (IF m = 2 /\ IsLeap(y) THEN 1 ELSE 0)
        /\ UNCHANGED <<stored, client, pc, at, y, ts, answer>>
    BY <1>8 DEF AddMonth
  <2>2. /\ Parses(date) /\ y = FullYear(date)
        /\ days = DaysBeforeYear(y) + DaysBeforeMonth(y, m)
                    - DaysBeforeYear(1970)
    BY <1>1, <2>1 DEF MonthsInv
  <2>3. /\ date.month \in 1 .. 12 /\ m \in 1 .. 12 /\ days \in Nat
        /\ y \in Nat /\ y >= 1
    BY <1>1, <1>2, <2>2, InstantsInRange, SMT DEF TypeOK
  <2>4. m < 12 /\ m + 1 \in 1 .. 12
    BY <2>1, <2>3
  <2>5. DaysInMonth[m] \in Nat
    BY <2>3, SMT DEF DaysInMonth
  <2>6. TypeOK'
    BY <1>1, <2>1, <2>3, <2>4, <2>5, SMT DEF TypeOK
  <2>7. MonthsInv'
    <3>1. Parses(date)' /\ date' = date /\ FullYear(date)' = FullYear(date)
      BY <2>1, <2>2 DEF date
    <3>2. DaysBeforeMonth(y, m + 1) = DaysBeforeMonth(y, m) + DaysInMonth[m]
            + (IF m = 2 /\ IsLeap(y) THEN 1 ELSE 0)
      BY <2>3, <2>4, MonthTable
    <3>3. /\ DaysBeforeYear(1970) \in Nat /\ DaysBeforeYear(y) \in Nat
          /\ DaysBeforeMonth(y, m) \in Nat
      BY <2>3, YearLength, MonthTable, SMT
    <3>4. days' = DaysBeforeYear(y) + DaysBeforeMonth(y, m + 1)
                    - DaysBeforeYear(1970)
      BY <2>1, <2>2, <2>5, <3>2, <3>3, SMT
    <3>5. QED
      BY <2>1, <2>2, <2>3, <3>1, <3>4, SMT DEF MonthsInv
  <2>8. QED
    BY <1>1, <2>1, <2>6, <2>7
       DEF Inv, YearsInv, TimestampInv, OrderInv, Header
<1>9. CASE AddDay
  <2>1. /\ pc = "months" /\ m = date.month
        /\ ts' = [ts EXCEPT ![at] =
                    <<days + (date.day - 1) + SecondsOf(date) \div SecondsPerDay,
                      SecondsOf(date) % SecondsPerDay>>]
        /\ UNCHANGED <<stored, client, y, m, days, answer>>
        /\ \/ at = "stored" /\ at' = "client" /\ pc' = "parse"
           \/ at # "stored" /\ at' = at /\ pc' = "compare"
    BY <1>9, SMT DEF AddDay
  <2>2. /\ Parses(date) /\ y = FullYear(date)
        /\ days = DaysBeforeYear(y) + DaysBeforeMonth(y, date.month)
                    - DaysBeforeYear(1970)
    BY <1>1, <2>1 DEF MonthsInv
  <2>3. /\ Reference(date) \in Timestamp /\ Reference(date) # None
        /\ Day(date) = days + (date.day - 1) /\ Day(date) \in Nat
    BY <1>2, <2>2, ReferenceType
  <2>4. <<days + (date.day - 1) + SecondsOf(date) \div SecondsPerDay,
          SecondsOf(date) % SecondsPerDay>> = Reference(date)
    <3>1. SecondsOf(date) \in Nat /\ SecondsOf(date) <= SecondsPerDay
      BY <1>2, <2>2, InstantsInRange
    <3>2. \A sec \in Nat :
            /\ sec = SecondsPerDay =>
                 sec \div SecondsPerDay = 1 /\ sec % SecondsPerDay = 0
            /\ sec < SecondsPerDay =>
                 sec \div SecondsPerDay = 0 /\ sec % SecondsPerDay = sec
      BY SMT DEF SecondsPerDay
    <3> SecondsPerDay \in Nat
      BY SMT DEF SecondsPerDay
    <3>3. CASE SecondsOf(date) = SecondsPerDay
      BY <2>3, <3>1, <3>2, <3>3, SMT DEF Reference
    <3>4. CASE SecondsOf(date) # SecondsPerDay
      <4>1. SecondsOf(date) \div SecondsPerDay = 0
              /\ SecondsOf(date) % SecondsPerDay = SecondsOf(date)
        BY <3>1, <3>2, <3>4, SMT
      <4>2. QED
        BY <2>3, <3>4, <4>1, SMT DEF Reference
    <3>5. QED
      BY <3>3, <3>4, SMT
  <2>5. ts' = [ts EXCEPT ![at] = Reference(date)]
    BY <2>1, <2>4
  <2>6. at \in Sides /\ ts \in [Sides -> Timestamp \cup {None}]
    BY <1>1, SMT DEF TypeOK
  <2>7. TypeOK'
    <3>1. ts' \in [Sides -> Timestamp \cup {None}]
      BY <2>3, <2>5, <2>6
    <3>2. at' \in Sides
      BY <2>1, <2>6 DEF Sides
    <3>3. QED
      BY <1>1, <2>1, <3>1, <3>2 DEF TypeOK
  <2>8. TimestampInv'
    <3>1. date = Header(at)
      BY DEF date, Header
    <3>2. \A s \in Sides : Header(s)' = Header(s)
      BY <2>1 DEF Header
    <3>3. \A s \in Sides :
             ts'[s] # None => Parses(Header(s)) /\ ts'[s] = Reference(Header(s))
      BY <1>1, <2>2, <2>5, <2>6, <3>1 DEF TimestampInv
    <3>4. QED
      BY <3>2, <3>3 DEF TimestampInv
  <2>9. OrderInv'
    <3>1. /\ ts'[at] = Reference(date)
          /\ at = "client" => ts'["stored"] = ts["stored"]
      BY <2>5, <2>6 DEF Sides
    <3>2. answer = None
      BY <1>1, <2>1 DEF OrderInv
    <3>3. None # TRUE /\ None # FALSE
      <4>1. None \notin BOOLEAN
        BY ConstantsAssumption, SMT
      <4>2. QED
        BY <4>1, Zenon
    <3>4. at = "stored" \/ at = "client"
      BY <2>6 DEF Sides
    <3>5. QED
      BY <1>1, <2>1, <2>3, <3>1, <3>2, <3>3, <3>4 DEF OrderInv
  <2>10. QED
    BY <2>1, <2>7, <2>8, <2>9 DEF Inv, YearsInv, MonthsInv
<1>10. CASE Compare
  <2>1. /\ pc = "compare" /\ pc' = "done"
        /\ answer' = NotAfter(ts["stored"], ts["client"])
        /\ UNCHANGED <<stored, client, at, y, m, days, ts>>
    BY <1>10 DEF Compare
  <2>2. ts["stored"] # None /\ ts["client"] # None
    BY <1>1, <2>1 DEF OrderInv
  <2>3. answer' \in BOOLEAN
    BY <2>1, Zenon DEF NotAfter
  <2>4. TypeOK'
    BY <1>1, <2>1, <2>3 DEF TypeOK
  <2>5. OrderInv'
    BY <1>1, <2>1, <2>2 DEF OrderInv
  <2>6. QED
    BY <1>1, <2>1, <2>4, <2>5
       DEF Inv, YearsInv, MonthsInv, TimestampInv, Header
<1>11. CASE UNCHANGED vars
  BY <1>1, <1>11
     DEF vars, Inv, TypeOK, YearsInv, MonthsInv, TimestampInv, OrderInv,
         Header, date, NotAfter
<1>12. QED
  BY <1>3, <1>4, <1>5, <1>6, <1>7, <1>8, <1>9, <1>10, <1>11 DEF Next

THEOREM Invariance == Spec => []Inv
BY InitInv, NextInv, PTL DEF Spec

(* The state of a comparison has its type, for any headers; days and       *)
(* timestamps in particular never become negative.                         *)
THEOREM TypeCorrect == Spec => []TypeOK
BY Invariance, PTL DEF Inv

(* The timestamp of a header lies on the day that the Gregorian calendar   *)
(* gives the date it names.                                                *)
THEOREM LoopsComputeCalendar == Spec => []TimestampsFollowCalendar
<1>1. Inv => TimestampsFollowCalendar
  <2> SUFFICES ASSUME Inv, NEW s \in Sides, ts[s] # None,
                      YearIsMeant(Header(s))
               PROVE  /\ NamesInstant(Header(s))
                      /\ ts[s] = Expected(Header(s))
    BY DEF TimestampsFollowCalendar, Header, Expected
  <2>1. Header(s) \in HeaderDate
    BY ConstantsAssumption DEF Inv, TypeOK, Header
  <2>2. Parses(Header(s)) /\ ts[s] = Reference(Header(s))
    BY DEF Inv, TimestampInv
  <2>3. NamesInstant(Header(s))
    BY <2>1, <2>2, ParsesIffInstant, InstantIsNamed
  <2>4. Reference(Header(s)) = Expected(Header(s))
    BY <2>1, Century DEF Reference, Expected, Day
  <2>5. QED
    BY <2>2, <2>3, <2>4
<1>2. QED
  BY <1>1, Invariance, PTL

LEMMA EarlierOrdersDays ==
    ASSUME NEW d \in HeaderDate, Parses(d), NEW e \in HeaderDate, Parses(e)
    PROVE  /\ Earlier(d, e) => \/ Day(d) < Day(e)
                               \/ /\ Day(d) = Day(e)
                                  /\ SecondsOf(d) < SecondsOf(e)
           /\ Earlier(d, e) \/ Earlier(e, d)
                \/ (Day(d) = Day(e) /\ SecondsOf(d) = SecondsOf(e))
<1>1. /\ FullYear(d) \in 1970 .. 2100 /\ d.month \in 1 .. 12
      /\ d.day \in 1 .. MonthLength(FullYear(d), d.month)
      /\ SecondsOf(d) \in Nat
  BY InstantsInRange
<1>2. /\ FullYear(e) \in 1970 .. 2100 /\ e.month \in 1 .. 12
      /\ e.day \in 1 .. MonthLength(FullYear(e), e.month)
      /\ SecondsOf(e) \in Nat
  BY InstantsInRange
<1>3. d.day \in Int /\ e.day \in Int
  BY <1>1, <1>2
<1>4. Earlier(d, e) => \/ Day(d) < Day(e)
                       \/ Day(d) = Day(e) /\ SecondsOf(d) < SecondsOf(e)
  <2>1. CASE \/ FullYear(d) < FullYear(e)
             \/ FullYear(d) = FullYear(e) /\ d.month < e.month
             \/ /\ FullYear(d) = FullYear(e) /\ d.month = e.month
                /\ d.day < e.day
    <3> DEFINE yd == FullYear(d)
               ye == FullYear(e)
               md == d.month
               me == e.month
               nd == d.day
               ne == e.day
    <3>1. Day(d) = DayNumber(yd, md, nd)
            /\ Day(e) = DayNumber(ye, me, ne)
      BY DEF Day
    <3>2. /\ RealDay(yd, md, nd) /\ RealDay(ye, me, ne)
          /\ \/ yd < ye
             \/ yd = ye /\ md < me
             \/ yd = ye /\ md = me /\ nd < ne
      BY <1>1, <1>2, <2>1 DEF RealDay
    <3> HIDE DEF yd, ye, md, me, nd, ne
    <3>3. DayNumber(yd, md, nd) < DayNumber(ye, me, ne)
      BY <3>2, DayOrder
    <3>4. QED
      BY <3>1, <3>3
  <2>2. CASE /\ FullYear(d) = FullYear(e) /\ d.month = e.month
             /\ d.day = e.day /\ SecondsOf(d) < SecondsOf(e)
    BY <2>2 DEF Day
  <2>3. QED
    BY <2>1, <2>2 DEF Earlier
<1>5. Earlier(d, e) \/ Earlier(e, d)
        \/ (Day(d) = Day(e) /\ SecondsOf(d) = SecondsOf(e))
  <2>1. CASE /\ FullYear(d) = FullYear(e) /\ d.month = e.month
             /\ d.day = e.day
    BY <1>1, <1>2, <2>1 DEF Earlier, Day
  <2>2. CASE ~(/\ FullYear(d) = FullYear(e) /\ d.month = e.month
               /\ d.day = e.day)
    BY <1>1, <1>2, <1>3, <2>2 DEF Earlier
  <2>3. QED
    BY <2>1, <2>2
<1>6. QED
  BY <1>4, <1>5

(* The answer about two headers is the order of the dates they name,       *)
(* whatever the formats they are written in.                               *)
THEOREM ComparisonIsCalendarOrder == Spec => []NotModifiedIffNotLater
<1>1. Inv => NotModifiedIffNotLater
  <2> SUFFICES ASSUME Inv, YearIsMeant(stored), YearIsMeant(client)
               PROVE  NotModifiedIffNotLater
    BY DEF NotModifiedIffNotLater
  <2>1. /\ stored \in HeaderDate /\ client \in HeaderDate
        /\ TimestampInv /\ OrderInv
    BY ConstantsAssumption DEF Inv, TypeOK
  <2>2. Before(client, stored) <=> Earlier(client, stored)
    BY <2>1, EarlierIsBefore
  <2>3. /\ Parses(stored) <=> NamesInstant(stored)
        /\ Parses(client) <=> NamesInstant(client)
    BY <2>1, ParsesIffInstant, InstantIsNamed
  <2>4. CASE /\ ts["stored"] # None /\ ts["client"] # None
    <3>1. /\ Parses(stored) /\ ts["stored"] = Reference(stored)
          /\ Parses(client) /\ ts["client"] = Reference(client)
      BY <2>1, <2>4 DEF TimestampInv, Sides, Header
    <3> DEFINE ds == Day(stored)
               dc == Day(client)
               ss == SecondsOf(stored)
               sc == SecondsOf(client)
    <3>2. /\ ds \in Nat /\ dc \in Nat
          /\ ss \in Nat /\ sc \in Nat
          /\ ss <= SecondsPerDay /\ sc <= SecondsPerDay
      BY <2>1, <3>1, ReferenceType, InstantsInRange
    <3>3. /\ ts["stored"] = IF ss = SecondsPerDay
                            THEN <<ds + 1, 0>> ELSE <<ds, ss>>
          /\ ts["client"] = IF sc = SecondsPerDay
                            THEN <<dc + 1, 0>> ELSE <<dc, sc>>
      BY <3>1 DEF Reference
    <3>4. /\ Earlier(client, stored) => dc < ds \/ (dc = ds /\ sc < ss)
          /\ Earlier(stored, client) => ds < dc \/ (ds = dc /\ ss < sc)
          /\ Earlier(client, stored) \/ Earlier(stored, client)
               \/ (dc = ds /\ sc = ss)
      BY <2>1, <3>1, EarlierOrdersDays
    <3>5. SecondsPerDay \in Nat /\ SecondsPerDay > 0
      BY SMT DEF SecondsPerDay
    <3> HIDE DEF ds, dc, ss, sc
    <3>6. /\ NotAfter(ts["stored"], ts["client"]) /\ sc # SecondsPerDay
               => ~Earlier(client, stored)
          /\ ~NotAfter(ts["stored"], ts["client"]) /\ ss # SecondsPerDay
               => Earlier(client, stored)
      BY <3>2, <3>3, <3>4, <3>5, SMT DEF NotAfter
    <3>7. QED
      BY <2>1, <2>4, <2>2, <2>3, <3>1, <3>6
         DEF OrderInv, NotModifiedIffNotLater, ss, sc
  <2>5. CASE ~(ts["stored"] # None /\ ts["client"] # None)
    BY <2>1, <2>5, <2>3 DEF OrderInv, NotModifiedIffNotLater
  <2>6. QED
    BY <2>4, <2>5
<1>2. QED
  BY <1>1, Invariance, PTL
=============================================================================
