-------------------------------- MODULE Times --------------------------------
(* Dates and durations as the protocol writes them (model/time.rs): the     *)
(* arithmetic between calendar and day count, and the texts of xs:dateTime  *)
(* and xs:duration as the parts they are made of. A calendar that is turned *)
(* one day at a time is the reference.                                      *)
EXTENDS Integers, Sequences

CONSTANTS
    Starts,      \* days the calendar is turned from: [date, days since 1970-01-01]
    Turns,       \* bound: how many days it is turned
    MAX_SECONDS  \* the largest number of seconds a duration holds

None == [none |-> TRUE]
Some(value) == [none |-> FALSE, value |-> value]

VARIABLES date, days, turns

tmvars == <<date, days, turns>>

-----------------------------------------------------------------------------
(* The calendar. Rust's division and remainder round towards zero.          *)

Quotient(a, b) == IF a >= 0 THEN a \div b ELSE -((-a) \div b)
Remainder(a, b) == a - b * Quotient(a, b)

IsLeapYear(year) ==
    Remainder(year, 4) = 0 /\ (Remainder(year, 100) # 0 \/ Remainder(year, 400) = 0)
DaysInMonth(year, month) ==
    IF month \in {1, 3, 5, 7, 8, 10, 12} THEN 31
    ELSE IF month \in {4, 6, 9, 11} THEN 30
    ELSE IF IsLeapYear(year) THEN 29 ELSE 28

\* Mutant: years before the first era are counted from the wrong end.
DaysFromCivilUnsigned(year, month, day) ==
    LET y == IF month <= 2 THEN year - 1 ELSE year
        era == Quotient(y, 400)
        yoe == y - era * 400
        doy == (153 * (IF month > 2 THEN month - 3 ELSE month + 9) + 2) \div 5 + day - 1
    IN  era * 146097 + (yoe * 365 + Quotient(yoe, 4) - Quotient(yoe, 100) + doy) - 719468

DaysFromCivil(year, month, day) ==
    LET y == IF month <= 2 THEN year - 1 ELSE year
        era == Quotient(IF y >= 0 THEN y ELSE y - 399, 400)
        yoe == y - era * 400
        doy == (153 * (IF month > 2 THEN month - 3 ELSE month + 9) + 2) \div 5 + day - 1
        doe == yoe * 365 + yoe \div 4 - yoe \div 100 + doy
    IN  era * 146097 + doe - 719468

\* The day of an era is of a year that begins in March, and so is the day of that year.
YearOfEra(doe) == (doe - doe \div 1460 + doe \div 36524 - doe \div 146096) \div 365
FromMarch(year, doy) ==
    LET mp == (5 * doy + 2) \div 153
        m == IF mp < 10 THEN mp + 3 ELSE mp - 9
    IN  [ year |-> year + (IF m <= 2 THEN 1 ELSE 0), month |-> m,
          day |-> doy - (153 * mp + 2) \div 5 + 1 ]

CivilFromDays(count) ==
    LET z == count + 719468
        era == Quotient(IF z >= 0 THEN z ELSE z - 146096, 146097)
        doe == z - era * 146097
        yoe == YearOfEra(doe)
    IN  FromMarch(yoe + era * 400, doe - (365 * yoe + yoe \div 4 - yoe \div 100))

-----------------------------------------------------------------------------
(* Instants. An offset of None is a local time.                             *)

DateTime(d, second, nanos, offset) ==
    [ year |-> d.year, month |-> d.month, day |-> d.day, hour |-> second \div 3600,
      minute |-> (second % 3600) \div 60, second |-> second % 60,
      nanosecond |-> nanos, offset |-> offset ]

UnixSecondsAt(t, offset) ==
    DaysFromCivil(t.year, t.month, t.day) * 86400
      + t.hour * 3600 + t.minute * 60 + t.second
      - 60 * (IF t.offset.none THEN offset ELSE t.offset.value)

FromUnixSeconds(seconds) ==
    LET rem == Remainder(seconds, 86400)
        whole == Quotient(seconds, 86400)
    IN  IF rem < 0 THEN DateTime(CivilFromDays(whole - 1), rem + 86400, 0, Some(0))
        ELSE DateTime(CivilFromDays(whole), rem, 0, Some(0))

(* The text of a dateTime: its fields, with the width the year is written   *)
(* in; four digits or, for a longer year, as many as it takes.              *)
Width(n) == IF n < 10000 THEN 4 ELSE 5
Magnitude(n) == IF n < 0 THEN -n ELSE n
Display(t) ==
    [ negative |-> t.year < 0, year |-> Magnitude(t.year), width |-> Width(Magnitude(t.year)),
      month |-> t.month, day |-> t.day, hour |-> t.hour, minute |-> t.minute,
      second |-> t.second, nanosecond |-> t.nanosecond, offset |-> t.offset ]

(* Midnight may be written as hour 24 of the day before.                    *)
ParseXsDateTime(s) ==
    LET year == IF s.negative THEN -s.year ELSE s.year
        tomorrow == CivilFromDays(DaysFromCivil(year, s.month, s.day) + 1)
        at(d, hour) == [ year |-> d.year, month |-> d.month, day |-> d.day, hour |-> hour,
                         minute |-> s.minute, second |-> s.second,
                         nanosecond |-> s.nanosecond, offset |-> s.offset ]
    IN  IF \/ s.width < 4 \/ (s.width > 4 /\ s.year < 10000)
           \/ ~s.offset.none /\ Magnitude(s.offset.value) > 14 * 60
           \/ s.month \notin 1 .. 12 \/ s.day < 1
           \/ s.day > DaysInMonth(year, s.month)
           \/ s.minute > 59 \/ s.second > 59
        THEN None
        ELSE IF s.hour <= 23
        THEN Some(at([year |-> year, month |-> s.month, day |-> s.day], s.hour))
        ELSE IF s.hour = 24 /\ s.minute = 0 /\ s.second = 0 /\ s.nanosecond = 0
        THEN Some(at(tomorrow, 0))
        ELSE None

-----------------------------------------------------------------------------
(* Durations: components <<number, designator>>, nanoseconds with the       *)
(* seconds; years and months depend on a calendar and are refused.          *)

Seconds == [W |-> 604800, D |-> 86400, H |-> 3600, M |-> 60, S |-> 1]
Component(n, unit) == IF n > 0 THEN <<[n |-> n, unit |-> unit, nanos |-> 0]>> ELSE <<>>

Format(total, nanos) ==
    LET hours == (total % 86400) \div 3600
        minutes == (total % 3600) \div 60
        seconds == total % 60
    IN  [ negative |-> FALSE,
          date |-> Component(total \div 86400, "D"),
          time |-> Component(hours, "H") \o Component(minutes, "M")
            \o (IF seconds > 0 \/ nanos > 0 \/ total = 0
                THEN <<[n |-> seconds, unit |-> "S", nanos |-> nanos]>> ELSE <<>>) ]

Sum(parts) ==
    LET upTo[i \in 0 .. Len(parts)] ==
          IF i = 0 THEN 0 ELSE parts[i].n * Seconds[parts[i].unit] + upTo[i - 1]
    IN  upTo[Len(parts)]
Nanos(parts) ==
    IF \E i \in DOMAIN parts : parts[i].unit = "S"
    THEN (CHOOSE p \in {parts[i] : i \in DOMAIN parts} : p.unit = "S").nanos ELSE 0

\* A time that lies in the past is the present.
Parse(text) ==
    LET total == Sum(text.date) + Sum(text.time)
    IN  IF \/ text.date = <<>> /\ text.time = <<>>
           \/ \E i \in DOMAIN text.date : text.date[i].unit \notin {"W", "D"}
           \/ \E i \in DOMAIN text.time : text.time[i].unit \notin {"H", "M", "S"}
           \/ total > MAX_SECONDS
        THEN None
        ELSE IF text.negative THEN Some(<<0, 0>>)
        ELSE Some(<<total, Nanos(text.time)>>)

-----------------------------------------------------------------------------
(* The reference: tomorrow, as a calendar on a wall has it.                 *)

MonthLength == <<31, 28, 31, 30, 31, 30, 31, 31, 30, 31, 30, 31>>
Length(d) ==
    IF d.month = 2 /\ (d.year % 400 = 0 \/ (d.year % 4 = 0 /\ d.year % 100 # 0))
    THEN 29 ELSE MonthLength[d.month]
Tomorrow(d) ==
    IF d.day < Length(d) THEN [d EXCEPT !.day = @ + 1]
    ELSE IF d.month < 12 THEN [d EXCEPT !.day = 1, !.month = @ + 1]
    ELSE [year |-> d.year + 1, month |-> 1, day |-> 1]

TmInit == \E s \in Starts : date = s.date /\ days = s.days /\ turns = 0
TmNext ==
    /\ turns < Turns
    /\ turns' = turns + 1 /\ days' = days + 1 /\ date' = Tomorrow(date)

-----------------------------------------------------------------------------
(* Calendar and day count agree in both directions, before and after the    *)
(* year 0 and 1970, with leap years and centuries; the seconds of a day     *)
(* come back as the day and the time they were.                             *)
(* (days_from_civil, civil_from_days, from_unix_seconds, unix_seconds_at)   *)
Near == days \in -24000 .. 24000
CalendarIsRight ==
    /\ DaysFromCivil(date.year, date.month, date.day) = days
    /\ CivilFromDays(days) = date
    /\ Near => \A s \in {0, 3599, 86399} :
         LET t == DateTime(date, s, 0, Some(0))
         IN  /\ FromUnixSeconds(days * 86400 + s) = t
             /\ UnixSecondsAt(t, 60) = days * 86400 + s
             /\ UnixSecondsAt([t EXCEPT !.offset = None], 60) = days * 86400 + s - 3600

(* What is written is read back as it was: every date with any time and     *)
(* offset, hour 24 as the midnight it is, and every duration.               *)
(* (Display, parse_xs_date_time; format and parse_iso8601_duration)         *)
TextRoundTrips ==
    /\ \A offset \in {None, Some(0), Some(-330), Some(840)}, nanos \in {0, 5} :
         LET t == DateTime(date, ((Magnitude(days) % 1000) * 7919) % 86400, nanos, offset)
         IN  ParseXsDateTime(Display(t)) = Some(t)
    /\ LET midnight == [Display(DateTime(date, 0, 0, None)) EXCEPT !.hour = 24]
       IN  ParseXsDateTime(midnight) = Some(DateTime(Tomorrow(date), 0, 0, None))
    /\ \A nanos \in {0, 5}, total \in {Magnitude(days) * 37, Magnitude(days) % 120} :
         Parse(Format(total, nanos)) = Some(<<total, nanos>>)
=============================================================================
