------------------------------ MODULE DateTime ------------------------------
(***************************************************************************)
(* datetime.rs: W3CDTF dates read as instants.  A text is given by the     *)
(* fields its separators cut it into.  A field is its digits: how many     *)
(* there are and the number they make, Junk standing for a field that is   *)
(* not all digits.  Beside the reader walks a calendar, one day at a time: *)
(* what the integer conversion has to agree with.                          *)
(*                                                                         *)
(* An instant is kept as days and seconds of the day, which is the i64 of  *)
(* the code divided with remainder: TLC counts in 32 bits.                 *)
(***************************************************************************)
EXTENDS Integers, Sequences

CONSTANTS
    Starts,      \* where the calendar is entered: [year, days] of a 1 January
    WalkYears    \* bound: how many years are walked from there

Junk == [width |-> 1, value |-> -1]
Digits(width, value) == [width |-> width, value |-> value]
None == <<>>

\* Days from the epoch to the first of a year: those of the years before it,
\* and their leap days.
NewYear(year) ==
    365 * (year - 1) + (year - 1) \div 4 - (year - 1) \div 100 + (year - 1) \div 400 - 719162

ASSUME DateAssumption ==
    /\ Starts \subseteq [year : 1..9999, days : Int]
    /\ \A s \in Starts : s.days = NewYear(s.year)
    /\ WalkYears \in Nat \ {0}

VARIABLES date, days   \* the day the walk is at, and its number since the epoch

dateVars == <<date, days>>

-----------------------------------------------------------------------------
(* The reader.                                                             *)

Leap(year) == year % 4 = 0 /\ (year % 100 # 0 \/ year % 400 = 0)

DaysInMonth(year, month) ==
    CASE month \in {1, 3, 5, 7, 8, 10, 12} -> 31
      [] month \in {4, 6, 9, 11} -> 30
      [] month = 2 -> IF Leap(year) THEN 29 ELSE 28
      [] OTHER -> 0

\* Mutant: January and February stay in their own year.
DaysFromCivil_NoShift(year, month, day) ==
    LET era == year \div 400
        yearOfEra == year - era * 400
        dayOfYear == (153 * (IF month > 2 THEN month - 3 ELSE month + 9) + 2) \div 5 + day - 1
    IN  era * 146097 + yearOfEra * 365 + yearOfEra \div 4 - yearOfEra \div 100 + dayOfYear - 719468

\* Days since the epoch; the year starts in March, so that the leap day is last.
DaysFromCivil(year, month, day) ==
    LET shifted == IF month <= 2 THEN year - 1 ELSE year
        era == shifted \div 400
        yearOfEra == shifted - era * 400
        dayOfYear == (153 * (IF month > 2 THEN month - 3 ELSE month + 9) + 2) \div 5 + day - 1
    IN  era * 146097 + yearOfEra * 365 + yearOfEra \div 4 - yearOfEra \div 100 + dayOfYear - 719468

\* A one or two digit field, the default when it was truncated away; -1 is None.
TwoDigits(fields, i, default) ==
    IF i > Len(fields) THEN default
    ELSE IF fields[i].width \in 1..2 THEN fields[i].value
    ELSE -1

DateParts(fields) ==
    LET year == fields[1]
        month == TwoDigits(fields, 2, 1)
        day == TwoDigits(fields, 3, 1)
    IN  IF /\ Len(fields) \in 1..3
           /\ year.width = 4 /\ year.value >= 1
           /\ month \in 1..12
           /\ day \in 1..DaysInMonth(year.value, month)
        THEN <<year.value, month, day>> ELSE None

\* A fraction's first nine digits; the rest is cut off, never rounded.
Nanoseconds(fraction) ==
    LET Read[i \in 0..9] ==
            IF i = 0 THEN 0
            ELSE Read[i - 1] * 10 + (IF i <= Len(fraction) THEN fraction[i] ELSE 0)
    IN  Read[9]

\* split_offset: minutes east of UTC; the fields after a sign are hours and
\* minutes, whether or not a colon keeps them apart.  None when they are none.
SplitOffset(zone) ==
    LET hours == TwoDigits(zone.fields, 1, 0)
        minutes == TwoDigits(zone.fields, 2, 0)
    IN  CASE zone.kind \in {"utc", "none"} -> <<0>>
          [] zone.kind = "sign" ->
                IF hours \in 0..23 /\ minutes \in 0..59
                THEN <<zone.sign * (hours * 60 + minutes)>> ELSE None

\* hh:mm[:ss[.fraction]] and the offset; a fraction is one of a second.
ClockParts(clock) ==
    LET hour == TwoDigits(clock.fields, 1, 0)
        minute == TwoDigits(clock.fields, 2, 0)
        second == TwoDigits(clock.fields, 3, 0)
        offset == SplitOffset(clock.zone)
    IN  IF /\ offset # None
           /\ Len(clock.fields) \in 1..3
           /\ clock.fraction # <<>> => Len(clock.fields) = 3
           /\ \A i \in DOMAIN clock.fraction : clock.fraction[i] \in 0..9
           /\ hour \in 0..23 /\ minute \in 0..59 /\ second \in 0..59
        THEN <<hour, minute, second, Nanoseconds(clock.fraction), offset[1]>> ELSE None

\* Mutant: the offset is added.
Parse_OffsetAdded(text) ==
    LET ymd == DateParts(text.date)
        hms == IF text.clock = None THEN <<0, 0, 0, 0, 0>> ELSE ClockParts(text.clock)
        seconds == hms[1] * 3600 + hms[2] * 60 + hms[3] + hms[5] * 60
    IN  IF ymd = None \/ hms = None THEN None
        ELSE <<DaysFromCivil(ymd[1], ymd[2], ymd[3]) + seconds \div 86400, seconds % 86400, hms[4]>>

\* parse: days, seconds of the day and nanoseconds, or None.
Parse(text) ==
    LET ymd == DateParts(text.date)
        hms == IF text.clock = None THEN <<0, 0, 0, 0, 0>> ELSE ClockParts(text.clock)
        seconds == hms[1] * 3600 + hms[2] * 60 + hms[3] - hms[5] * 60
    IN  IF ymd = None \/ hms = None THEN None
        ELSE <<DaysFromCivil(ymd[1], ymd[2], ymd[3]) + seconds \div 86400, seconds % 86400, hms[4]>>

-----------------------------------------------------------------------------
(* The calendar, by its rules: months of their lengths, and a leap day     *)
(* every fourth year but in centuries not divisible by 400.                *)

MonthLengths(year) ==
    <<31, IF Leap(year) THEN 29 ELSE 28, 31, 30, 31, 30, 31, 31, 30, 31, 30, 31>>

DateInit ==
    \E s \in Starts : date = <<s.year, 1, 1>> /\ days = s.days

Following(d) ==
    IF d[3] < MonthLengths(d[1])[d[2]] THEN <<d[1], d[2], d[3] + 1>>
    ELSE IF d[2] < 12 THEN <<d[1], d[2] + 1, 1>>
    ELSE <<d[1] + 1, 1, 1>>

NextDay ==
    /\ date' = Following(date)
    /\ date'[1] <= 9999
    /\ \E s \in Starts : date'[1] \in s.year..(s.year + WalkYears - 1)
    /\ days' = days + 1

-----------------------------------------------------------------------------
(* Properties, of every day of the walk.                                   *)

Written(d) == <<Digits(4, d[1]), Digits(2, d[2]), Digits(2, d[3])>>
At(hour, minute, zone) ==
    [fields |-> <<Digits(2, hour), Digits(2, minute)>>, fraction |-> <<>>, zone |-> zone]
Utc == [kind |-> "utc", sign |-> 1, fields |-> <<>>]
East(sign, hours, minutes) ==
    [kind |-> "sign", sign |-> sign, fields |-> <<Digits(2, hours), Digits(2, minutes)>>]

\* A date is the number of days the calendar counts to it, a truncated one the
\* first day it can name: datetime::parse agrees with the calendar.
CalendarAgrees ==
    /\ Parse([date |-> Written(date), clock |-> None]) = <<days, 0, 0>>
    /\ date[3] = 1 =>
         Parse([date |-> SubSeq(Written(date), 1, 2), clock |-> None]) = <<days, 0, 0>>
    /\ date[2] = 1 /\ date[3] = 1 =>
         Parse([date |-> SubSeq(Written(date), 1, 1), clock |-> None]) = <<days, 0, 0>>

\* One instant is one value however it is written: at an offset that puts it
\* in the next day, month or year, and in UTC.
OffsetsAgree ==
    \A minutes \in {1, 30, 59}, hours \in {0, 5, 23} :
        LET late == 1440 - (hours * 60 + minutes)
            utc == [date |-> Written(date), clock |-> At(late \div 60, late % 60, Utc)]
            ahead == [date |-> Written(Following(date)), clock |-> At(0, 0, East(1, hours, minutes))]
            early == [date |-> Written(Following(date)), clock |-> At(0, 0, Utc)]
            behind == [date |-> Written(date), clock |-> At(late \div 60, late % 60, East(-1, hours, minutes))]
        IN  Following(date)[1] <= 9999 =>
                /\ Parse(ahead) = Parse(utc)
                /\ Parse(behind) = Parse(early)

\* What the calendar does not have is refused and not carried over: the day
\* after the last of a month, the thirteenth month, the sixtieth minute, the
\* twenty-fourth hour, a field that is no number, a fraction of a minute, and a
\* field too many.
OnlyRealDates ==
    LET last == date[3] = MonthLengths(date[1])[date[2]]
        beyond == <<Digits(4, date[1]), Digits(2, date[2]), Digits(2, date[3] + 1)>>
        spoiled == {At(24, 0, Utc), At(0, 60, Utc), At(0, 0, East(1, 24, 0)), At(0, 0, East(-1, 0, 60)),
                    [At(0, 0, Utc) EXCEPT !.fields = <<Junk, Digits(2, 0)>>],
                    [At(0, 0, Utc) EXCEPT !.fraction = <<5>>],
                    [At(0, 0, Utc) EXCEPT !.fields = Append(@, Digits(2, 0)), !.fraction = <<5, -1>>],
                    [At(0, 0, Utc) EXCEPT !.fields = @ \o <<Digits(2, 60)>>],
                    [At(0, 0, Utc) EXCEPT !.fields = @ \o <<Digits(2, 0), Digits(2, 0)>>]}
    IN  /\ last <=> Parse([date |-> beyond, clock |-> None]) = None
        /\ Parse([date |-> <<Digits(4, date[1]), Digits(2, 13)>>, clock |-> None]) = None
        /\ Parse([date |-> Append(Written(date), Digits(1, 1)), clock |-> None]) = None
        /\ Parse([date |-> <<Digits(5, date[1])>>, clock |-> None]) = None
        /\ \A clock \in spoiled : Parse([date |-> Written(date), clock |-> clock]) = None
=============================================================================
