------------------------------- MODULE HttpDate -------------------------------
(***************************************************************************)
(* If-Modified-Since (matches_if_modified_since of src/src/proxy.rs): the  *)
(* stored Last-Modified and the client's date are each parsed, turned into *)
(* a Unix timestamp by adding up years, months and days, and compared.     *)
(*                                                                         *)
(* A date arrives in one of three formats, which the number of its words   *)
(* tells apart.  A field that is no number is a number out of range here:  *)
(* both give None.  The two loops of timestamp_from_components are         *)
(* actions, one step per iteration.                                        *)
(***************************************************************************)
EXTENDS Integers

CONSTANTS
    Dates,  \* the header values that are compared
    None,   \* Rust's None
    I32Max  \* i32::MAX

Formats == {"imf", "rfc850", "asctime", "other"}

(* gmt: does it end in GMT?  long: is it longer than 64 bytes?  month 0    *)
(* stands for a word that names no month, year is the year as written.     *)
HeaderDate == [format : Formats, gmt : BOOLEAN, long : BOOLEAN,
               year : -I32Max .. I32Max, month : 0 .. 12, day : Nat,
               hour : Nat, min : Nat, sec : Nat]

ASSUME ConstantsAssumption ==
    /\ I32Max \in Nat /\ I32Max > 2100
    /\ Dates \subseteq HeaderDate
    /\ None \notin Nat \cup BOOLEAN \cup (Nat \X Nat)

VARIABLES
    stored,  \* Last-Modified of the cached response
    client,  \* If-Modified-Since of the request
    pc,
    at,      \* which of the two is being parsed
    y, m,    \* loop variables of timestamp_from_components
    days,    \* its accumulator
    ts,      \* stored_ts and client_ts: the timestamps so far, None if absent
    answer   \* of matches_if_modified_since

vars == <<stored, client, pc, at, y, m, days, ts, answer>>

Sides == {"stored", "client"}

date == IF at = "stored" THEN stored ELSE client

SecondsPerDay == 86400

(* A timestamp is days * 86400 + seconds.  It is kept as the pair of its   *)
(* quotient and remainder by 86400, as TLC's integers have 32 bits.        *)
Timestamp == Nat \X (0 .. SecondsPerDay - 1)

TypeOK ==
    /\ stored \in Dates /\ client \in Dates
    /\ pc \in {"parse", "years", "months", "compare", "done", "panic"}
    /\ at \in Sides
    /\ y \in 1970 .. 2100
    /\ m \in 1 .. 12
    /\ days \in Nat
    /\ ts \in [Sides -> Timestamp \cup {None}]
    /\ answer \in BOOLEAN \cup {None}

Init ==
    /\ stored \in Dates /\ client \in Dates
    /\ pc = "parse"
    /\ at = "stored"
    /\ y = 1970 /\ m = 1 /\ days = 0
    /\ ts = [s \in Sides |-> None]
    /\ answer = None
-----------------------------------------------------------------------------
(* Parsing.                                                                *)

(* parse_rfc850_date gives a year of two digits its century.               *)
FullYear(d) ==
    IF d.format # "rfc850" THEN d.year
    ELSE IF d.year >= 70 THEN 1900 + d.year ELSE 2000 + d.year

(* What parse_http_date demands of a date before its time and its range    *)
(* are looked at.                                                          *)
Readable(d) ==
    /\ ~d.long
    /\ d.format # "other"
    /\ d.format \in {"imf", "rfc850"} => d.gmt
    /\ d.month # 0

(* parse_time; a leap second is let through.                               *)
TimeInRange(d) == d.hour <= 23 /\ d.min <= 59 /\ d.sec <= 60

(* Mutant of IsLeap: the Julian rule.                                      *)
IsLeapJulian(year) == year % 4 = 0

IsLeap(year) == (year % 4 = 0 /\ year % 100 # 0) \/ year % 400 = 0

DaysInMonth == <<31, 28, 31, 30, 31, 30, 31, 31, 30, 31, 30, 31>>

MaxDay(year, month) ==
    IF month = 2 /\ IsLeap(year) THEN 29 ELSE DaysInMonth[month]

(* Mutant of DateInRange: a day 0 is let through.                          *)
DateInRangeFromZero(d) ==
    /\ FullYear(d) \in 1970 .. 2100
    /\ d.day <= MaxDay(FullYear(d), d.month)

(* The checks of timestamp_from_components.                                *)
DateInRange(d) ==
    /\ FullYear(d) \in 1970 .. 2100
    /\ d.day \in 1 .. 31
    /\ d.day <= MaxDay(FullYear(d), d.month)

(* 1900 + year_short or 2000 + year_short leaves i32.                      *)
YearOverflows(d) == Readable(d) /\ FullYear(d) > I32Max

Parses(d) == Readable(d) /\ ~YearOverflows(d) /\ TimeInRange(d) /\ DateInRange(d)
-----------------------------------------------------------------------------
(* matches_if_modified_since                                               *)

(* The date is read, and the loop over the years begins.                   *)
Parse ==
    /\ pc = "parse"
    /\ Parses(date)
    /\ pc' = "years"
    /\ y' = 1970 /\ m' = 1 /\ days' = 0
    /\ UNCHANGED <<stored, client, at, ts, answer>>

(* No timestamp, no match.  An overflown year has wrapped around, below    *)
(* 1970, in a build without overflow checks ...                            *)
ParseFails ==
    /\ pc = "parse"
    /\ ~Parses(date)
    /\ pc' = "done"
    /\ answer' = FALSE
    /\ UNCHANGED <<stored, client, at, y, m, days, ts>>

(* ... and panics in one with them.                                        *)
YearPanics ==
    /\ pc = "parse"
    /\ YearOverflows(date)
    /\ pc' = "panic"
    /\ UNCHANGED <<stored, client, at, y, m, days, ts, answer>>

AddYear ==
    /\ pc = "years"
    /\ y < FullYear(date)
    /\ days' = days + (IF IsLeap(y) THEN 366 ELSE 365)
    /\ y' = y + 1
    /\ UNCHANGED <<stored, client, pc, at, m, ts, answer>>

YearsDone ==
    /\ pc = "years"
    /\ y = FullYear(date)
    /\ pc' = "months"
    /\ UNCHANGED <<stored, client, at, y, m, days, ts, answer>>

AddMonth ==
    /\ pc = "months"
    /\ m < date.month
    /\ days' = days + DaysInMonth[m] + (IF m = 2 /\ IsLeap(y) THEN 1 ELSE 0)
    /\ m' = m + 1
    /\ UNCHANGED <<stored, client, pc, at, y, ts, answer>>

SecondsOf(d) == d.hour * 3600 + d.min * 60 + d.sec

(* The days of the month and the time of day complete the timestamp; the   *)
(* client's date is next, or the comparison.                               *)
AddDay ==
    LET seconds == SecondsOf(date) IN
    /\ pc = "months"
    /\ m = date.month
    /\ ts' = [ts EXCEPT ![at] =
                 <<days + (date.day - 1) + seconds \div SecondsPerDay,
                   seconds % SecondsPerDay>>]
    /\ IF at = "stored"
       THEN at' = "client" /\ pc' = "parse"
       ELSE at' = at /\ pc' = "compare"
    /\ UNCHANGED <<stored, client, y, m, days, answer>>

NotAfter(s, t) == s[1] < t[1] \/ (s[1] = t[1] /\ s[2] <= t[2])

(* Mutant of Compare: the two dates are swapped.                           *)
CompareSwapped ==
    /\ pc = "compare"
    /\ pc' = "done"
    /\ answer' = NotAfter(ts["client"], ts["stored"])
    /\ UNCHANGED <<stored, client, at, y, m, days, ts>>

Compare ==
    /\ pc = "compare"
    /\ pc' = "done"
    /\ answer' = NotAfter(ts["stored"], ts["client"])
    /\ UNCHANGED <<stored, client, at, y, m, days, ts>>

Next == \/ Parse \/ ParseFails \/ YearPanics \/ AddYear \/ YearsDone
        \/ AddMonth \/ AddDay \/ Compare

Spec == Init /\ [][Next]_vars
-----------------------------------------------------------------------------
(* The Gregorian calendar in closed form, by which the code is judged: the *)
(* days before a year and before a month of it, with no table and no leap  *)
(* year rule.                                                              *)

DaysBeforeYear(year) ==
    365 * (year - 1) + (year - 1) \div 4 - (year - 1) \div 100
        + (year - 1) \div 400

DaysBeforeMonth(year, month) ==
    (367 * month - 362) \div 12
        - (IF month <= 2 THEN 0
           ELSE 367 - (DaysBeforeYear(year + 1) - DaysBeforeYear(year)))

MonthLength(year, month) ==
    IF month = 12
    THEN 31
    ELSE DaysBeforeMonth(year, month + 1) - DaysBeforeMonth(year, month)

DayNumber(year, month, day) ==
    DaysBeforeYear(year) + DaysBeforeMonth(year, month) + day
        - (DaysBeforeYear(1970) + 1)

(* Two digits of RFC 850 mean the one year from 1970 to 2069 that ends in  *)
(* them (the comment at proxy.rs:562).  What another number means there is *)
(* said nowhere: the code takes 170 for 2070, and nothing is asked of it.  *)
YearIsMeant(d) == d.format = "rfc850" => d.year \in 0 .. 99

YearMeant(d) ==
    IF d.format = "rfc850"
    THEN CHOOSE year \in 1970 .. 2069 : year % 100 = d.year
    ELSE d.year

(* The header names a time of a day that the calendar has, in the years    *)
(* supported.                                                              *)
NamesInstant(d) ==
    /\ Readable(d)
    /\ YearMeant(d) \in 1970 .. 2100
    /\ d.day \in 1 .. MonthLength(YearMeant(d), d.month)
    /\ TimeInRange(d)

(* d comes before e, field by field.                                       *)
Before(d, e) ==
    \/ YearMeant(d) < YearMeant(e)
    \/ /\ YearMeant(d) = YearMeant(e)
       /\ \/ d.month < e.month
          \/ d.month = e.month /\ d.day < e.day
          \/ /\ d.month = e.month /\ d.day = e.day
             /\ SecondsOf(d) < SecondsOf(e)
-----------------------------------------------------------------------------
(* Properties.                                                             *)

(* The day a timestamp falls on is the day the header names, in every      *)
(* format; a leap second is the second after it.                           *)
TimestampsFollowCalendar ==
    \A s \in Sides :
        LET d == IF s = "stored" THEN stored ELSE client
            day == DayNumber(YearMeant(d), d.month, d.day)
        IN
        ts[s] # None /\ YearIsMeant(d) =>
            /\ NamesInstant(d)
            /\ ts[s] = IF SecondsOf(d) = SecondsPerDay
                       THEN <<day + 1, 0>> ELSE <<day, SecondsOf(d)>>

(* "Not modified" is the answer exactly when both headers name an instant  *)
(* and the stored one is, field by field, not later than the client's,     *)
(* whatever the two formats.  (A leap second before midnight counts as     *)
(* midnight; a year of RFC 850 that is not of two digits may count as any.)*)
NotModifiedIffNotLater ==
    YearIsMeant(stored) /\ YearIsMeant(client) =>
        /\ answer = TRUE =>
             /\ NamesInstant(stored) /\ NamesInstant(client)
             /\ SecondsOf(client) # SecondsPerDay => ~Before(client, stored)
        /\ answer = FALSE =>
             \/ ~NamesInstant(stored) \/ ~NamesInstant(client)
             \/ SecondsOf(stored) = SecondsPerDay \/ Before(client, stored)
=============================================================================
