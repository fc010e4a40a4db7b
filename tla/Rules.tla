-------------------------------- MODULE Rules -------------------------------
(***************************************************************************)
(* The rules of the system that answer from what they are given. Each      *)
(* state is one question put to one of them; the constants say which       *)
(* questions there are, the assumption what a question may be.             *)
(***************************************************************************)
EXTENDS Recall, Lineage, Verdicts, Calendar, Money

CONSTANTS
  Queries,       \* [query, seen]: a query, and the registry when each of its parts reads it
  Tasks,         \* the words of a task
  Lookups,       \* [graph, other, root, depth]: a walk, and the graph as it may be elsewhere
  Trials,        \* [run, declared]: how a run ended, and the verifier it is declared to pass
  Alliances,     \* [organizations, exact, prefixed, another]: who proved something, and one more
  WrittenDates,  \* values of a column of dates
  Deadlines,     \* [calendar, from, n]: so many business days from a day
  Shifts,        \* [zone, start, delta]: so many hours from an hour
  Appointments,  \* [zone, start, days, count]: an hour, every so many days
  Cycles,        \* [start, interval, count]: a day, every so many months
  Divisions,     \* [weights, units]: an amount, divided in proportion
  Advices,       \* the lines of a remittance advice
  WrittenAmounts \* values of a column of amounts

VARIABLE question

-----------------------------------------------------------------------------
(* What may be asked.                                                      *)

\* What is counted of a version's runs, with no age and no median if it has none.
Stats == [good : Nat, bad : Nat, orgs : Nat, level : {"unverified", "claimed", "proven"},
          age : Nat \cup {-1}, median : Nat \cup {-1}]

\* A row of the registry, as a query sees it.
IsVersion(row) ==
  /\ row.stat \in Stats /\ row.lexical \in Nat /\ row.cosine \in 0..100 /\ IsFiniteSet(row.capabilities)
  /\ row.visibility \in {"public", "organization", "private"}

\* The registry at three moments: n versions, whose owners and visibility are
\* what they were.
IsRegistry(seen, n) ==
  /\ \A m \in 1..3 : DOMAIN seen[m] = 1..n /\ \A i \in 1..n : IsVersion(seen[m][i])
  /\ \A m \in 1..3, i \in 1..n : /\ seen[m][i].visibility = seen[3][i].visibility
                                /\ seen[m][i].org = seen[3][i].org /\ seen[m][i].author = seen[3][i].author

\* What is walked from, and what an edge may name: every target is some text.
IsGraph(graph, E, T) == E \subseteq T /\ graph.visible \subseteq E /\ \A e \in E : graph.edges[e] \in Seq(T)

\* However a run ends, whatever it leaves, and whatever is declared of it.
AnyRun == [end: {"exit", "timeout", "error"}, code: Nat, file: {"absent", "binary", "garbage", "other", "right"}]
AnyDeclaration == [verifier: STRING, expected: Nat, file: BOOLEAN, schema: BOOLEAN, digest: BOOLEAN]

\* What date_parse has of a value it reads, and a day of the calendar.
IsDate(value) ==
  /\ value = [form |-> value.form, a |-> value.a, b |-> value.b, c |-> value.c,
              short |-> value.short, rest |-> value.rest]
  /\ value.form \in {"ymd", "numeric", "textual"} /\ value.short \in BOOLEAN
  /\ value.a \in Nat /\ value.b \in Nat /\ value.c \in Nat
IsDay(date) == date.year \in Nat /\ date.month \in 1..12 /\ date.day \in 1..31

\* A calendar with an open weekday, and with open days not far before and after
\* each day that is near a holiday: others have one within the week.
HasOpenDays(calendar) ==
  LET closed == Closed(calendar)
      open(d) == Weekday(d) \notin calendar.weekend /\ d \notin closed
  IN  /\ \E weekday \in 0..6 : weekday \notin calendar.weekend
      /\ closed \subseteq Int
      /\ \A c \in closed : \A d \in (c - Reach)..(c + Reach) :
           (\E e \in d..(d + Reach) : open(e)) /\ (\E e \in (d - Reach)..d : open(e))

\* The offset after so many of the transitions, and by how much one moves it.
OffsetAfter(zone, k) == IF k = 0 THEN zone.offset ELSE zone.changes[k].offset
Jump(zone, i) == Magnitude(OffsetAfter(zone, i) - OffsetAfter(zone, i - 1))

\* A zone: two transitions in a row are further apart than both move the clock.
IsZone(zone, n) ==
  /\ n \in Nat /\ DOMAIN zone.changes = 1..n /\ zone.offset \in Int
  /\ \A i \in 1..n : zone.changes[i].at \in Int /\ zone.changes[i].offset \in Int
  /\ \A i \in 1..(n - 1) : zone.changes[i].at + Jump(zone, i) + Jump(zone, i + 1) < zone.changes[i + 1].at

\* A zone whose clocks never differ by a day.
IsSteady(zone, n) == \A j, k \in 0..n : OffsetAfter(zone, j) - OffsetAfter(zone, k) < 24

\* The lines of an advice.
IsAdvice(lines, n) ==
  /\ DOMAIN lines = 1..n
  /\ \A i \in 1..n : /\ lines[i] = [kind |-> lines[i].kind, tenths |-> lines[i].tenths,
                                    credit |-> lines[i].credit, status |-> lines[i].status]
                     /\ lines[i].tenths \in Nat /\ lines[i].credit \in BOOLEAN

\* What an amount is written with.
Chars == {"0", ".", ","}

ASSUME RulesAssumption ==
  /\ \A q \in Queries : /\ Len(q.seen[3]) \in Nat /\ IsRegistry(q.seen, Len(q.seen[3]))
                        /\ q.query.limit \in Nat \ {0}
  /\ Tasks \subseteq Seq(STRING)
  /\ \A q \in Lookups : /\ IsGraph(q.graph, DOMAIN q.graph.edges, STRING)
                        /\ q.root \in DOMAIN q.graph.edges /\ q.depth \in Nat
  /\ \A q \in Trials : q.run \in AnyRun /\ q.declared \in AnyDeclaration
  /\ \A q \in Alliances : IsFiniteSet(q.organizations)
  /\ \A value \in WrittenDates : IsDate(value)
  /\ \A q \in Deadlines : HasOpenDays(q.calendar) /\ q.from \in Int /\ q.n \in Int
  /\ \A q \in Shifts : IsZone(q.zone, Len(q.zone.changes)) /\ q.start \in Int /\ q.delta \in Int
  /\ \A q \in Appointments : /\ IsZone(q.zone, Len(q.zone.changes)) /\ IsSteady(q.zone, Len(q.zone.changes))
                             /\ q.start \in Int /\ q.days \in Nat \ {0} /\ q.count \in Nat
  /\ \A q \in Cycles : IsDay(q.start) /\ q.interval \in Nat \ {0} /\ q.count \in Nat
  /\ \A q \in Divisions : q.weights \in Seq(Int) /\ q.units \in Int
  /\ \A lines \in Advices : Len(lines) \in Nat /\ IsAdvice(lines, Len(lines))
  /\ WrittenAmounts \subseteq Seq(Chars)

-----------------------------------------------------------------------------

Questions ==
  [recall |-> Queries, intent |-> Tasks, lineage |-> Lookups, verdict |-> Trials, parties |-> Alliances,
   reading |-> WrittenDates, dates |-> Deadlines, clocks |-> Shifts, appointments |-> Appointments,
   months |-> Cycles, shares |-> Divisions, advice |-> Advices, amount |-> WrittenAmounts]

Ask(kind) == question = <<>> /\ \E q \in Questions[kind] : question' = [of |-> kind, asked |-> q]

Recalls == Ask("recall")
Normalizes == Ask("intent")
Walks == Ask("lineage")
Verifies == Ask("verdict")
CountsParties == Ask("parties")
ReadsDates == Ask("reading")
AddsDays == Ask("dates")
ShiftsHours == Ask("clocks")
Repeats == Ask("appointments")
AddsMonths == Ask("months")
Divides == Ask("shares")
Settles == Ask("advice")
ReadsAmounts == Ask("amount")

RulesInit == question = <<>>
RulesNext == \/ Recalls \/ Normalizes \/ Walks \/ Verifies \/ CountsParties \/ ReadsDates \/ AddsDays
             \/ ShiftsHours \/ Repeats \/ AddsMonths \/ Divides \/ Settles \/ ReadsAmounts
RulesSpec == RulesInit /\ [][RulesNext]_question

-----------------------------------------------------------------------------
(* Properties.                                                             *)

Asked(kind) == question # <<>> /\ question.of = kind

\* A recall offers what fits, in an order that no coincidence decides and no
\* evidence turns around, and reports a miss for what it was. The label it
\* compares by is read back as it was written, except that of running tests,
\* and JSON Lines is not taken for JSON where its long name comes first.
RecallIsSound ==
  LET q == question.asked
  IN  /\ Asked("recall") => /\ SameAnswer(q.query, q.seen) /\ OnlyTheFit(q.query, q.seen)
                            /\ RelevanceWins(q.query, q.seen) /\ MissesAreMisses(q.query, q.seen)
      /\ Asked("intent") => FixedButForTests(q) /\ LongestReading(q)

\* A walk of the lineage finds everything within reach by its shortest path,
\* and shows nothing of what the caller may not see.
LineageIsSound ==
  LET q == question.asked
  IN  Asked("lineage") => /\ ByTheShortestPath(q.graph, q.root, q.depth)
                          /\ TellsNothing(q.graph, q.other, q.root, q.depth)

\* What is proven was earned, would be proven again, and is corroborated by
\* somebody who is not the operator.
VerdictsAreEarned ==
  LET q == question.asked
  IN  /\ Asked("verdict") => ProofsAreEarned(q.run, q.declared) /\ VerdictsAreRepeatable(q.run, q.declared)
      /\ Asked("parties") => PartiesAreIndependent(q.organizations, q.exact, q.prefixed, q.another)

\* The capabilities answer what they were asked: business days that are added
\* are counted, hours that were asked to elapse elapse over any change of the
\* clocks, appointments keep their hour and months their day, neither dates nor
\* amounts are guessed, and no unit of a total is lost or made.
CapabilitiesKeepTheirWord ==
  LET q == question.asked
  IN  /\ Asked("dates") => AddsWhatItCounts(q.calendar, q.from, q.n)
      /\ Asked("clocks") => ClocksTellTheTime(q.zone, q.start, q.delta)
      /\ Asked("appointments") => AppointmentsKeepTheirTime(q.zone, q.start, q.days, q.count)
      /\ Asked("months") => AnchorSurvives(q.start, q.interval, q.count)
      /\ Asked("reading") => DatesAreNotGuessed(q)
      /\ Asked("shares") => AllocationsAddUp(q.weights, q.units)
      /\ Asked("advice") => CreditsCancel(q)
      /\ Asked("amount") => AmountsAreNotGuessed(q)

=============================================================================
