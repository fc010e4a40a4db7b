------------------------------ MODULE Calendar ------------------------------
(***************************************************************************)
(* The calendar capabilities of the corpus. A date is a day number, day 0  *)
(* a Monday; a clock reading and an instant are numbers of hours. A zone   *)
(* is its offset at first and its transitions, [at, offset] in order of    *)
(* their instants; what a zone answers is the standard library's.          *)
(***************************************************************************)
EXTENDS Integers, Sequences, FiniteSets, FiniteSetsExt, SequencesExt

-----------------------------------------------------------------------------
(* business_days. A calendar is [weekend, holidays, observe].              *)

Weekday(day) == day % 7

\* observed: back for the first weekday number of the weekend, else forward.
Observed(holiday, weekend) ==
  IF Weekday(holiday) \notin weekend THEN holiday
  ELSE IF Weekday(holiday) = Min(weekend)
       THEN Max({d \in (holiday - 7)..holiday : Weekday(d) \notin weekend})
       ELSE Min({d \in holiday..(holiday + 7) : Weekday(d) \notin weekend})

Closed(calendar) ==
  {IF calendar.observe THEN Observed(h, calendar.weekend) ELSE h : h \in calendar.holidays}

IsBusiness(calendar, day) == Weekday(day) \notin calendar.weekend /\ day \notin Closed(calendar)

BusinessIn(calendar, low, high) == {d \in low..high : IsBusiness(calendar, d)}

\* The first open day from here on, in one direction.
Reach == 30
Roll(calendar, day, step) ==
  IF step = 1 THEN Min(BusinessIn(calendar, day, day + Reach))
              ELSE Max(BusinessIn(calendar, day - Reach, day))

\* add_business_days: rolled to an open day first, even to add none.
AddBusinessDays(calendar, from, days) ==
  LET step == IF days >= 0 THEN 1 ELSE -1
      abs == IF days >= 0 THEN days ELSE -days
  IN  FoldLeft(LAMBDA cursor, i : Roll(calendar, cursor + step, step),
               Roll(calendar, from, step), [i \in 1..abs |-> i])

\* count_business_days: both ends count, in either order.
CountBusinessDays(calendar, from, to) ==
  Cardinality(BusinessIn(calendar, Min({from, to}), Max({from, to})))

\* nth_business_day and last_business_day of the month [first, last]; no
\* answer is the empty set.
NthBusinessDay(calendar, month, n) ==
  {d \in BusinessIn(calendar, month.first, month.last) : CountBusinessDays(calendar, month.first, d) = n}
LastBusinessDay(calendar, month) ==
  {d \in BusinessIn(calendar, month.first, month.last) : BusinessIn(calendar, d + 1, month.last) = {}}

-----------------------------------------------------------------------------
(* Zones, as zoneinfo answers.                                             *)

\* The offset after the last of the transitions that are past.
LastOf(zone, past) == IF past = {} THEN zone.offset ELSE zone.changes[Max(past)].offset
OffsetBefore(zone, i) == IF i = 1 THEN zone.offset ELSE zone.changes[i - 1].offset

\* The offset at an instant, and of a clock reading: in a repeated hour that
\* of the first pass for fold 0, in a skipped one that of before for fold 0.
OffsetAt(zone, utc) == LastOf(zone, {i \in DOMAIN zone.changes : zone.changes[i].at <= utc})
UtcOffset(zone, clock, fold) ==
  LastOf(zone, {i \in DOMAIN zone.changes :
    LET both == {OffsetBefore(zone, i), zone.changes[i].offset}
    IN  zone.changes[i].at + (IF fold = 0 THEN Max(both) ELSE Min(both)) <= clock})

ToUtc(zone, clock, fold) == clock - UtcOffset(zone, clock, fold)
ToLocal(zone, utc) == utc + OffsetAt(zone, utc)

\* is_nonexistent, is_ambiguous and gap.
IsNonexistent(zone, clock) == ToLocal(zone, ToUtc(zone, clock, 0)) # clock
IsAmbiguous(zone, clock) ==
  UtcOffset(zone, clock, 0) # UtcOffset(zone, clock, 1) /\ ~IsNonexistent(zone, clock)
Gap(zone, clock) == UtcOffset(zone, clock, 1) - UtcOffset(zone, clock, 0)

\* localize: a skipped reading moves forward, a repeated one is the first.
Localize(zone, clock) ==
  LET moved == IF IsNonexistent(zone, clock) THEN clock + Gap(zone, clock) ELSE clock
  IN  [local |-> moved, utc |-> ToUtc(zone, moved, 0), nonexistent |-> IsNonexistent(zone, clock)]

\* dst_shift: the wall clock moves and is asked what it means, ...
ShiftWall(zone, start, delta) == Localize(zone, start + delta)

\* Variant: the clock the instant shows is localized again.
ShiftRelocalized(zone, start, delta) ==
  Localize(zone, ToLocal(zone, Localize(zone, start).utc + delta))

\* ... or the instant moves, and is only described.
ShiftAbsolute(zone, start, delta) ==
  LET utc == Localize(zone, start).utc + delta
  IN  [local |-> ToLocal(zone, utc), utc |-> utc, nonexistent |-> FALSE]

-----------------------------------------------------------------------------
(* recurrence_expand. Months need a date: [year, month, day].              *)

DaysIn(year, month) ==
  CASE month = 2 -> IF year % 4 = 0 /\ (year % 100 # 0 \/ year % 400 = 0) THEN 29 ELSE 28
    [] month \in {4, 6, 9, 11} -> 30
    [] OTHER -> 31

\* add_months: clamped to a short month, always from the anchor.
AddMonths(start, months) ==
  LET total == start.year * 12 + (start.month - 1) + months
      year == total \div 12
      month == (total % 12) + 1
  IN  [year |-> year, month |-> month, day |-> Min({start.day, DaysIn(year, month)})]

Occurrences(start, interval, count) == [i \in 1..count |-> AddMonths(start, interval * (i - 1))]

\* By days: local readings first, instants afterwards; shifted where the offset
\* is not that of the occurrence before.
Expand(zone, start, days, count) ==
  LET at(i) == Localize(zone, start + 24 * days * (i - 1))
      offset(i) == at(i).local - at(i).utc
  IN  [i \in 1..count |-> [local |-> at(i).local, utc |-> at(i).utc, nonexistent |-> at(i).nonexistent,
                           shifted |-> i > 1 /\ offset(i) # offset(i - 1)]]

-----------------------------------------------------------------------------
(* date_parse, of what is not ISO 8601: a form and three numbers, year      *)
(* first ("ymd"), year last ("numeric") or with the name of the month in    *)
(* the middle ("textual", 0 for no month's name); whether the year has two  *)
(* digits at most; and the rest of the value: nothing, a time of day, one   *)
(* beyond any day, or anything else. A date of none is <<>>.                *)

\* expand_year: the POSIX pivot.
ExpandYear(year, short) ==
  CASE ~short -> year
    [] short /\ year >= 69 -> 1900 + year
    [] short /\ year < 69 -> 2000 + year

\* build: a day there was, or nothing.
Build(year, month, day) ==
  IF year \in 1..9999 /\ month \in 1..12 /\ day \in 1..31 /\ day <= DaysIn(year, month)
  THEN <<year, month, day>> ELSE <<>>

\* A reading that names no day is not one.
IfRead(reading) == IF reading.date = <<>> THEN <<>> ELSE <<reading>>

\* numeric_readings: the orders that name a day, once for each day.
NumericReadings(value) ==
  LET year == ExpandYear(value.c, value.short)
      dmy == [order |-> "dmy", date |-> Build(year, value.b, value.a)]
      mdy == [order |-> "mdy", date |-> Build(year, value.a, value.b)]
  IN  IF value.form = "ymd" THEN IfRead([order |-> "ymd", date |-> Build(value.a, value.b, value.c)])
      ELSE IF dmy.date = mdy.date THEN IfRead([dmy EXCEPT !.order = "either"])
      ELSE IfRead(dmy) \o IfRead(mdy)

\* textual_readings: one, or none.
TextualReadings(value) ==
  IfRead([order |-> "textual", date |-> Build(value.c, value.b, value.a)])

\* A value with anything else behind its date is none of either.
ReadingsOf(value) ==
  CASE value.rest = "other" -> <<>>
    [] value.rest # "other" /\ value.form = "textual" -> TextualReadings(value)
    [] value.rest # "other" /\ value.form # "textual" -> NumericReadings(value)

\* interpret: one reading is the date, two are one only if one is preferred;
\* a time beyond any day is dropped.
Interpret(value, prefer) ==
  LET readings == ReadingsOf(value)
      preferred == {reading \in Range(readings) : reading.order = prefer}
      answer(iso, ambiguous) == [iso |-> iso, ambiguous |-> ambiguous,
                                 timed |-> readings # <<>> /\ value.rest = "time"]
  IN  CASE readings = <<>> -> answer(<<>>, FALSE)
        [] Len(readings) = 1 -> answer(readings[1].date, FALSE)
        [] Len(readings) = 2 /\ preferred # {} -> answer((CHOOSE reading \in preferred : TRUE).date, FALSE)
        [] Len(readings) = 2 /\ preferred = {} -> answer(<<>>, TRUE)

-----------------------------------------------------------------------------
(* Properties.                                                             *)

\* Adding business days and counting them agree, both ways along the calendar
\* and from a closed day: the answer is open, n steps from where the walk
\* started, and within a month it is the day the month's own count gives.
AddsWhatItCounts(calendar, from, n) ==
  LET start == Roll(calendar, from, IF n >= 0 THEN 1 ELSE -1)
      answer == AddBusinessDays(calendar, from, n)
      month == [first |-> from, last |-> from + 13]
  IN  /\ IsBusiness(calendar, answer)
      /\ CountBusinessDays(calendar, start, answer) = 1 + (IF n >= 0 THEN n ELSE -n)
      /\ AddBusinessDays(calendar, answer, -n) = start
      /\ n >= 0 => NthBusinessDay(calendar, month, n + 1) = {answer} \cap (month.first..month.last)
      /\ NthBusinessDay(calendar, month, CountBusinessDays(calendar, month.first, month.last))
           = LastBusinessDay(calendar, month)

\* A clock that is shown exists and shows its instant; elapsed time that was
\* asked for elapses, from any start, over any change; a clock that was moved
\* shows what it was moved to, unless that hour was skipped, when it shows the
\* instant the hour would have been at without the change.
ClocksTellTheTime(zone, start, delta) ==
  LET origin == Localize(zone, start)
      wall == ShiftWall(zone, start, delta)
      absolute == ShiftAbsolute(zone, start, delta)
  IN  /\ \A shown \in {origin, wall, absolute} :
           ToLocal(zone, shown.utc) = shown.local /\ ~IsNonexistent(zone, shown.local)
      /\ absolute.utc - origin.utc = delta
      /\ IF wall.nonexistent THEN wall.utc = ToUtc(zone, start + delta, 0) ELSE wall.local = start + delta
      /\ IsAmbiguous(zone, wall.local) => wall.utc < ToUtc(zone, wall.local, 1)

\* The day of the month survives a short month, and the dates go forward.
AnchorSurvives(start, interval, count) ==
  LET dates == Occurrences(start, interval, count)
      order(d) == (d.year * 12 + d.month) * 31 + d.day
  IN  \A i \in 2..count :
        /\ order(dates[i - 1]) < order(dates[i])
        /\ dates[i].day = start.day \/ dates[i].day = DaysIn(dates[i].year, dates[i].month)
        /\ dates[i].day <= start.day

\* A daily appointment stays at its hour of the local day, except on a day that
\* skips it; its instants go forward, and move off whole days just where the
\* answer says so. This is of zones whose clocks never differ by a day: where a
\* whole day was skipped, the appointment of that day is also the next one's.
AppointmentsKeepTheirTime(zone, start, days, count) ==
  LET all == Expand(zone, start, days, count)
  IN  /\ \A i \in 1..count : all[i].nonexistent \/ all[i].local % 24 = start % 24
      /\ \A i \in 2..count :
           /\ all[i - 1].utc < all[i].utc
           /\ ~all[i - 1].nonexistent /\ ~all[i].nonexistent =>
                (all[i].shifted <=> all[i].utc - all[i - 1].utc # 24 * days)

\* A date is not guessed: without a preference one is given just when every
\* reading that names a real day names that day, a preference decides only
\* between two, and what it decides is what the other preference decides of
\* the date written the other way round. A reading is alone only because a
\* number exceeds twelve.
DatesAreNotGuessed(value) ==
  LET answer == Interpret(value, "none")
      mirrored == [value EXCEPT !.a = value.b, !.b = value.a]
      year == ExpandYear(value.c, value.short)
      days == CASE value.form = "ymd" -> {Build(value.a, value.b, value.c)}
                [] value.form = "numeric" -> {Build(year, value.a, value.b), Build(year, value.b, value.a)}
                [] value.form = "textual" -> {Build(value.c, value.b, value.a)}
      named == IF value.rest = "other" THEN {} ELSE days \ {<<>>}
  IN  /\ IF Cardinality(named) = 1 THEN {answer.iso} = named ELSE answer.iso = <<>>
      /\ answer.ambiguous <=> Cardinality(named) = 2
      /\ ~answer.ambiguous => \A prefer \in {"dmy", "mdy"} : Interpret(value, prefer) = answer
      /\ answer.ambiguous =>
           /\ {Interpret(value, prefer).iso : prefer \in {"dmy", "mdy"}} = named
           /\ Interpret(value, "dmy") = Interpret(mirrored, "mdy")
      /\ answer.timed => named # {}
      /\ \A i \in DOMAIN ReadingsOf(value) :
           LET order == ReadingsOf(value)[i].order
           IN  Len(ReadingsOf(value)) = 1 /\ order \in {"dmy", "mdy"} =>
                 (IF order = "dmy" THEN value.a ELSE value.b) > 12

=============================================================================
