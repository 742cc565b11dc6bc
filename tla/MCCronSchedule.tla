--------------------------- MODULE MCCronSchedule ---------------------------
(* A calendar of three months of two, one or two, and three days, in which *)
(* every other year has the leap day, with weeks of three days.            *)
EXTENDS CronSchedule

Limits == [field \in Field |->
  CASE field = "minute" -> [min |-> 0, max |-> 2]
    [] field = "hour" -> [min |-> 0, max |-> 1]
    [] field = "dayOfMonth" -> [min |-> 1, max |-> 3]
    [] field = "month" -> [min |-> 1, max |-> 3]
    [] field = "dayOfWeek" -> [min |-> 0, max |-> 2]]
Common == <<<<1, 1>>, <<2, 1>>, <<1, 2>>, <<1, 3>>, <<2, 3>>, <<3, 3>>>>
Leap == <<<<1, 1>>, <<2, 1>>, <<1, 2>>, <<2, 2>>, <<1, 3>>, <<2, 3>>, <<3, 3>>>>
TwoYears == Common \o Leap
CommonYear == Len(Common) * 6
Cycle == {t \in 0 .. Len(TwoYears) * 6 : t % 5 \in {0, 3}}

All(s) == [kind |-> "all", from |-> 0, to |-> 0, step |-> s]
One(a, s) == [kind |-> "value", from |-> a, to |-> 0, step |-> s]
Span(a, b, s) == [kind |-> "range", from |-> a, to |-> b, step |-> s]
Star == {All(NoStep)}

Expressions ==
  [minute : {Star, {All(2)}}, hour : {Star, {Span(0, 1, NoStep)}, {One(1, NoStep)}},
   dayOfMonth : {Star, {All(2)}, {One(2, NoStep)}, {One(1, 1)}},
   month : {Star, {All(2)}, {One(2, NoStep), All(0)}},
   dayOfWeek : {Star, {One(3, NoStep)}, {Span(1, 3, NoStep)}, {Span(3, 1, NoStep)}, {Span(1, 2, 2)}}]
=============================================================================
