---------------------------- MODULE CronSchedule ----------------------------
(* When a CronJob runs next (backend/pkg/cronsched/cronsched.go): Next's search,
   one jump at a time, and the interval form.

   The calendar is the real one, in a zone without clock changes; an hour has
   MinutesPerHour minutes and a day HoursPerDay hours.  A time is counted in
   minutes.  A schedule is what Parse makes of one: an interval (`every`, 0 of a
   cron expression), the values of each field, and which of the two day fields
   were written as a star.                                                     *)
EXTENDS Integers

CONSTANTS
    HoursPerDay,
    MinutesPerHour,
    YearLimit,
    Schedules,
    Starts,       \* the times Next is asked from
    Lasts         \* how long before that the CronJob last ran; 0 if never

PerDay == HoursPerDay * MinutesPerHour

ASSUME CronBounds == HoursPerDay \in Nat \ {0} /\ MinutesPerHour \in Nat \ {0}
ASSUME CronTimes == /\ \A x \in Starts : x \in Nat /\ x >= PerDay
                    /\ Lasts \subseteq Nat
ASSUME CronForms ==
    \A s \in Schedules : s.every \in Nat /\ s.domStar \in BOOLEAN /\ s.dowStar \in BOOLEAN

VARIABLES
    spec,     \* the schedule
    after,
    last,
    t,        \* the candidate
    answer    \* "searching", "found" or "never"

cronVars == <<spec, after, last, t, answer>>

-----------------------------------------------------------------------------
(* The calendar.  Day 1 is the first of January of year 1, a Monday. *)

Leap(y) == y % 4 = 0 /\ (y % 100 # 0 \/ y % 400 = 0)
MonthDays(y, m) == IF m = 2 THEN (IF Leap(y) THEN 29 ELSE 28)
                   ELSE IF m \in {4, 6, 9, 11} THEN 30 ELSE 31
DaysBefore(y, m) ==
    <<0, 31, 59, 90, 120, 151, 181, 212, 243, 273, 304, 334>>[m]
        + (IF m > 2 /\ Leap(y) THEN 1 ELSE 0)
YearBefore(y) ==
    365 * (y - 1) + ((y - 1) \div 4) - ((y - 1) \div 100) + ((y - 1) \div 400)
DayNumber(y, m, d) == YearBefore(y) + DaysBefore(y, m) + d

At(y, m, d, minute) == DayNumber(y, m, d) * PerDay + minute
DayOf(x) == x \div PerDay
YearOf(x) ==
    LET guess == (DayOf(x) * 400) \div 146097
    IN  CHOOSE y \in guess..(guess + 2) : YearBefore(y) < DayOf(x) /\ DayOf(x) <= YearBefore(y + 1)
MonthOf(x) ==
    LET y == YearOf(x)
        n == DayOf(x) - YearBefore(y)
    IN  CHOOSE m \in 1..12 : DaysBefore(y, m) < n /\ n <= DaysBefore(y, m) + MonthDays(y, m)
DateOf(x) == DayOf(x) - YearBefore(YearOf(x)) - DaysBefore(YearOf(x), MonthOf(x))
Weekday(x) == DayOf(x) % 7
HourOf(x) == (x % PerDay) \div MinutesPerHour
MinuteOf(x) == x % MinutesPerHour

-----------------------------------------------------------------------------
(* A term of a field, low-high/step, and what a field is made of; `*` is min-max. *)

RangeBits(low, high, step) == {v \in low..high : (v - low) % step = 0}
\* `5/10`: from 5 to the end of the range.
FromBits(low, b, step) == RangeBits(low, b.max, step)

\* Mutant: the wart is left out.
MatchDayBoth(s, x) == DateOf(x) \in s.dom /\ Weekday(x) \in s.dow

\* matchDay: of two restricted day fields either will do.
MatchDay(s, x) ==
    LET domHit == DateOf(x) \in s.dom
        dowHit == Weekday(x) \in s.dow
    IN  IF s.domStar \/ s.dowStar THEN domHit /\ dowHit ELSE domHit \/ dowHit

\* When the schedule fires, by its grammar alone.
Fires(s, x) ==
    /\ MonthOf(x) \in s.month /\ HourOf(x) \in s.hour /\ MinuteOf(x) \in s.minute
    /\ \/ DateOf(x) \in s.dom /\ Weekday(x) \in s.dow
       \/ ~s.domStar /\ ~s.dowStar /\ (DateOf(x) \in s.dom \/ Weekday(x) \in s.dow)

-----------------------------------------------------------------------------
(* Next. *)

Searching == answer = "searching" /\ spec.every = 0

\* The search starts at the next minute.
CronInit ==
    /\ spec \in Schedules /\ after \in Starts /\ t = after + 1
    /\ \E ago \in Lasts : last = (IF ago = 0 \/ spec.every = 0 THEN 0 ELSE after - ago)
    /\ answer = "searching"

Jump(x) == t' = x /\ UNCHANGED <<spec, after, last, answer>>
Answer(label) == answer' = label /\ UNCHANGED <<spec, after, last, t>>

OverLimit == YearOf(t) > YearOf(after + 1) + YearLimit
GiveUp == Searching /\ OverLimit /\ Answer("never")
InMonth == Searching /\ ~OverLimit /\ MonthOf(t) \in spec.month
InDay == InMonth /\ MatchDay(spec, t)
InHour == InDay /\ HourOf(t) \in spec.hour

\* AddDate(0, 1, 0) keeps the day of the month, which overflows into the month
\* after a shorter one; then the first of whatever month that is.
NextMonth(x) ==
    LET FirstAfter(y, m) == At(y + (m \div 12), (m % 12) + 1, 1, 0)
        y == YearOf(x) + (MonthOf(x) \div 12)
        m == (MonthOf(x) % 12) + 1
    IN  IF DateOf(x) > MonthDays(y, m) THEN FirstAfter(y, m)
        ELSE FirstAfter(YearOf(x), MonthOf(x))
JumpMonth == Searching /\ ~OverLimit /\ MonthOf(t) \notin spec.month /\ Jump(NextMonth(t))

JumpDay == InMonth /\ ~MatchDay(spec, t) /\ Jump((DayOf(t) + 1) * PerDay)

JumpHour ==
    /\ InDay /\ HourOf(t) \notin spec.hour
    /\ Jump(((t \div MinutesPerHour) + 1) * MinutesPerHour)

JumpMinute == InHour /\ MinuteOf(t) \notin spec.minute /\ Jump(t + 1)

Found == InHour /\ MinuteOf(t) \in spec.minute /\ Answer("found")

\* The interval form, from the last firing if there was one.
NextEvery ==
    LET base == IF last = 0 THEN after ELSE last
        missed == (after - base) \div spec.every
    IN  /\ answer = "searching" /\ spec.every > 0
        /\ t' = IF base + spec.every > after THEN base + spec.every
                ELSE base + (missed + 1) * spec.every
        /\ answer' = "found" /\ UNCHANGED <<spec, after, last>>

CronNext ==
    \/ GiveUp \/ JumpMonth \/ JumpDay \/ JumpHour \/ JumpMinute \/ Found
    \/ NextEvery

CronSpec == CronInit /\ [][CronNext]_cronVars

-----------------------------------------------------------------------------
(* What is checked. *)

\* What is found is a firing, and not one of the past.
FoundFires ==
    answer = "found" /\ spec.every = 0 => t > after /\ Fires(spec, t)

\* The search of a month's first 28 days jumps over no firing: what it finds is
\* "the first firing at or after `after`" (cronsched.go:253), and what it does not
\* find there is not.
NoFiring(x, y) == \A z \in x..(y - 1) : ~Fires(spec, z)
NothingSkipped ==
    [][Searching /\ DateOf(after + 1) <= 28 => NoFiring(t, t')]_cronVars

\* The strong form: nor does one that starts on the 29th, 30th or 31st.
NothingSkippedEver == [][Searching => NoFiring(t, t')]_cronVars

\* Of an interval the answer is the first time after `after` that is a number of
\* intervals, at least one, from the last firing.
EveryOnGrid ==
    answer = "found" /\ spec.every > 0 =>
        LET base == IF last = 0 THEN after ELSE last
        IN  /\ t > after /\ t > base /\ (t - base) % spec.every = 0
            /\ (t - spec.every <= after \/ t - spec.every = base)

\* The next firing is a firing, of either form, and none comes before it.
NextIsFirst == [](FoundFires /\ EveryOnGrid) /\ NothingSkipped
=============================================================================
