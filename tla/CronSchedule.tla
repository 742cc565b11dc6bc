---------------------------- MODULE CronSchedule ----------------------------
(***************************************************************************)
(* getNextCronDate of the worker (smrt-jobs.ts): from the minute after     *)
(* `start`, minute by minute for a common year, to the first one that      *)
(* matches all five fields of a cron expression, or an error.  It gives a  *)
(* maintenance schedule its next run whenever the definition changes.      *)
(*                                                                         *)
(* A minute is a number.  The calendar says what day it falls on: Days is  *)
(* the order of the days until the calendar repeats, leap days among them, *)
(* and the days of the week go round by themselves.  A field is the set    *)
(* of its comma-separated parts.                                           *)
(***************************************************************************)
EXTENDS Naturals, Integers, Sequences, FiniteSets

CONSTANTS
  Bounds,     \* lowest and highest value of each field
  Days,       \* <<day of the month, month>> of each day of the cycle
  Horizon,    \* minutes searched: those of a common year, 525600 in the code
  Starts,     \* the minutes at which a next run is asked for
  Crons,      \* the expressions
  NoStep

Field == {"minute", "hour", "dayOfMonth", "month", "dayOfWeek"}
Sunday7 == Bounds["dayOfWeek"].max + 1

\* "*", "a" or "a-b", with "/step" or without (NoStep)
Part == [kind : {"all", "value", "range"}, from : Nat, to : Nat, step : Nat \cup {NoStep}]
Highest(field) == IF field = "dayOfWeek" THEN Sunday7 ELSE Bounds[field].max

ASSUME CronScheduleAssumption ==
  /\ Bounds \in [Field -> [min : Nat, max : Nat]]
  /\ Bounds["minute"].min = 0 /\ Bounds["hour"].min = 0 /\ Bounds["dayOfWeek"].min = 0
  /\ Days \in Seq(Nat \X Nat) /\ Days # << >>
  /\ Horizon \in Nat /\ Starts \subseteq Nat
  /\ Crons \subseteq [Field -> SUBSET Part]
  /\ \A c \in Crons, field \in Field : \A part \in c[field] :
       part.from <= Highest(field) /\ part.to <= Highest(field)
  /\ NoStep \notin Nat

VARIABLES
  cron,       \* the expression
  start,      \* now
  candidate,  \* the minute looked at
  index,      \* minutes looked at before
  outcome     \* "search", "found" or "error"

searchVars == <<cron, start, candidate, index, outcome>>

SearchTypeOK ==
  /\ cron \in Crons /\ start \in Starts
  /\ candidate \in Nat /\ index \in 0 .. Horizon
  /\ outcome \in {"search", "found", "error"}

-----------------------------------------------------------------------------
PerHour == Bounds["minute"].max + 1
PerDay == PerHour * (Bounds["hour"].max + 1)
Day(t) == t \div PerDay
DateOf(t) == Days[1 + (Day(t) % Len(Days))]

\* what a minute is called in a field
ValueOf(t, field) ==
  CASE field = "minute" -> t % PerHour
    [] field = "hour" -> (t \div PerHour) % (Bounds["hour"].max + 1)
    [] field = "dayOfMonth" -> DateOf(t)[1]
    [] field = "month" -> DateOf(t)[2]
    [] field = "dayOfWeek" -> Day(t) % Sunday7

\* parseCronNumber: Sunday may be written as 7
Number(n, field) == IF field = "dayOfWeek" /\ n = Sunday7 THEN 0 ELSE n

\* parseCronRange
From(part, field) ==
  IF part.kind = "all" THEN Bounds[field].min ELSE Number(part.from, field)
To(part, field) ==
  CASE part.kind = "all" -> Bounds[field].max
    [] part.kind = "value" -> Number(part.from, field)
    [] part.kind = "range" -> Number(part.to, field)

\* Mutant: steps are counted from zero in every field.
StepsFromZero(value, part, field) ==
  /\ part.step # 0
  /\ value \in From(part, field) .. To(part, field)
  /\ part.step # NoStep => value % part.step = 0

\* matchesCronPart: a step of zero matches nothing
MatchesPart(value, part, field) ==
  /\ part.step # 0
  /\ value \in From(part, field) .. To(part, field)
  /\ part.step # NoStep => (value - From(part, field)) % part.step = 0

MatchesField(t, field) ==
  \E part \in cron[field] : MatchesPart(ValueOf(t, field), part, field)

Matches(t) == \A field \in Field : MatchesField(t, field)

-----------------------------------------------------------------------------
SearchInit ==
  /\ cron \in Crons /\ start \in Starts
  /\ candidate = start + 1 /\ index = 0 /\ outcome = "search"

Found ==
  /\ outcome = "search" /\ index < Horizon /\ Matches(candidate)
  /\ outcome' = "found"
  /\ UNCHANGED <<cron, start, candidate, index>>

Advance ==
  /\ outcome = "search" /\ index < Horizon /\ ~Matches(candidate)
  /\ candidate' = candidate + 1 /\ index' = index + 1
  /\ UNCHANGED <<cron, start, outcome>>

\* "Could not find next run date": the worker that is seeding does not come up
NoDate ==
  /\ outcome = "search" /\ index = Horizon
  /\ outcome' = "error"
  /\ UNCHANGED <<cron, start, candidate, index>>

SearchNext == Found \/ Advance \/ NoDate
SearchSpec == SearchInit /\ [][SearchNext]_searchVars

-----------------------------------------------------------------------------
(* Properties                                                              *)

\* What standard cron means by a part: values counted by the step from the
\* start of the range, or of the field; a value with a step runs to the end
\* of the field; a range that ends in 7 ends in Sunday, and one that can only
\* start with Sunday as 0 does.
Denoted(part, field) ==
  LET from == CASE part.kind = "all" -> Bounds[field].min
                [] part.kind = "value" -> part.from
                [] part.kind = "range" ->
                     IF part.from <= part.to THEN part.from ELSE Number(part.from, field)
      to == CASE part.kind = "all" -> Bounds[field].max
              [] part.kind = "value" -> IF part.step = NoStep THEN part.from ELSE Highest(field)
              [] part.kind = "range" -> part.to
      step == IF part.step = NoStep THEN 1 ELSE part.step
  IN {Number(n, field) : n \in {v \in from .. to :
                                  step # 0 /\ \E k \in 0 .. v : v = from + k * step}}

Standard(t, field) == \E part \in cron[field] : ValueOf(t, field) \in Denoted(part, field)
Starred(field) == \E part \in cron[field] : part.kind = "all"

\* Where the days of the month and of the week are both restricted, standard
\* cron runs on either.
StandardDate(t) ==
  /\ \A field \in {"minute", "hour", "month"} : Standard(t, field)
  /\ \/ Standard(t, "dayOfMonth") /\ Standard(t, "dayOfWeek")
     \/ /\ ~Starred("dayOfMonth") /\ ~Starred("dayOfWeek")
        /\ Standard(t, "dayOfMonth") \/ Standard(t, "dayOfWeek")

\* Where the code reads less into an expression than standard cron does.
ReadsLess ==
  \/ ~Starred("dayOfMonth") /\ ~Starred("dayOfWeek")
  \/ \E field \in Field : \E part \in cron[field] :
       \/ part.kind = "value" /\ part.step # NoStep
       \/ part.kind = "range" /\ Number(part.to, field) # part.to

\* The date found is one of standard cron's and the first of them after now,
\* and the search gives up only where a whole common year has none (as it has
\* no 29th of February).  Three kinds of expressions are read as less than
\* standard cron: the date found is still one of its dates.
NextIsStandard ==
  /\ outcome = "found" => candidate > start /\ StandardDate(candidate)
  /\ outcome # "search" /\ ~ReadsLess =>
       \A t \in start + 1 .. start + index : ~StandardDate(t)
  /\ outcome = "error" => index = Horizon

\* No minute between now and the one looked at matches the expression as the
\* code reads it.
NextIsFirst ==
  /\ outcome = "found" => Matches(candidate)
  /\ candidate = start + 1 + index
  /\ \A t \in start + 1 .. start + index : ~Matches(t)
=============================================================================
