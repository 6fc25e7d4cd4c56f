------------------------------- MODULE Calendar -------------------------------
(***************************************************************************)
(* recurrence.helper and the schedule of one personal subscription: the    *)
(* date arithmetic, the projection of charges onto a month of the          *)
(* cash-flow calendar, and the edits that set the next charge.             *)
(*                                                                         *)
(* A date is a day number; day 0 begins a cycle of four years, the last of *)
(* them a leap year.                                                       *)
(***************************************************************************)
EXTENDS Integers, Sequences, FiniteSets, Functions

CONSTANTS Dates,           \* dates a user enters
          Units,           \* of RecurrenceUnit
          Intervals,       \* recurrenceInterval
          MaxOccurrences,  \* MAX_OCCURRENCES
          Months           \* months looked at

ASSUME CalendarAssumption ==
    /\ Units \subseteq {"DAY", "WEEK", "MONTH", "QUARTER", "SEMESTER", "YEAR"}
    /\ Intervals \subseteq Nat \ {0} /\ Dates \subseteq Int /\ Months \subseteq Int
    \* 1000 in the code: it lets a daily charge fill a month.
    /\ MaxOccurrences \in Nat /\ MaxOccurrences >= 31

VARIABLES subscription   \* user_subscriptions: the columns of the schedule, or NoRow

calendarVars == <<subscription>>
-----------------------------------------------------------------------------
MonthLength(month) ==
    CASE month % 12 = 1 -> IF month % 48 = 37 THEN 29 ELSE 28
      [] month % 12 \in {3, 5, 8, 10} -> 30
      [] OTHER -> 31

DaysBefore == <<0, 31, 59, 90, 120, 151, 181, 212, 243, 273, 304, 334>>

FirstDay(month) == 365 * (month \div 12) + DaysBefore[(month % 12) + 1] + (month + 10) \div 48

LastDay(month) == FirstDay(month + 1) - 1

MonthOf(day) ==
    LET guess == (10000 * day) \div 304375 IN
    CHOOSE m \in guess - 1..guess + 1 : FirstDay(m) <= day /\ day <= LastDay(m)

\* The same day of the month, or the last one of a month that is too short.
AddMonths(day, months) ==
    LET target == MonthOf(day) + months
        inMonth == day - FirstDay(MonthOf(day)) IN
    IF inMonth < MonthLength(target) THEN FirstDay(target) + inMonth ELSE LastDay(target)

MonthsOf == [MONTH |-> 1, QUARTER |-> 3, SEMESTER |-> 6, YEAR |-> 12]

DaysOf == [DAY |-> 1, WEEK |-> 7]

\* addRecurrence and subtractRecurrence: one period on, or back.
Shift(day, recurrence, steps) ==
    IF recurrence.unit \in DOMAIN DaysOf
    THEN day + DaysOf[recurrence.unit] * recurrence.interval * steps
    ELSE AddMonths(day, MonthsOf[recurrence.unit] * recurrence.interval * steps)

\* The months one charge covers, as a fraction; toMonthlyAmount divides the amount by it.
MonthsPerOccurrence(recurrence) ==
    CASE recurrence.unit = "DAY"  -> <<10000 * recurrence.interval, 304375>>
      [] recurrence.unit = "WEEK" -> <<1000000 * recurrence.interval, 4348214>>
      [] OTHER -> <<MonthsOf[recurrence.unit] * recurrence.interval, 1>>

-----------------------------------------------------------------------------
\* A one-time charge is stored as monthly, whatever the client sent.
NormalizeRecurrence(unit, interval, isRecurring) ==
    IF isRecurring THEN [unit |-> unit, interval |-> interval, isRecurring |-> TRUE]
    ELSE [unit |-> "MONTH", interval |-> 1, isRecurring |-> FALSE]

Recurrences == {NormalizeRecurrence(u, i, r) : u \in Units, i \in Intervals, r \in BOOLEAN}

\* The two loops of projectOccurrences, with left periods to go before they give up: back
\* to the first charge of the range, and on through it.
WalkBack[left \in Nat] ==
    [recurrence \in Recurrences |-> [start \in Int |-> [cursor \in Int |->
        LET previous == Shift(cursor, recurrence, -1) IN
        IF cursor <= start \/ left = 0 \/ previous < start THEN cursor
        ELSE WalkBack[left - 1][recurrence][start][previous]]]]

WalkOn[left \in Nat] ==
    [recurrence \in Recurrences |-> [start \in Int |-> [end \in Int |-> [cursor \in Int |->
        IF cursor > end \/ left = 0 THEN <<>>
        ELSE (IF cursor >= start THEN <<cursor>> ELSE <<>>)
             \o WalkOn[left - 1][recurrence][start][end][Shift(cursor, recurrence, 1)]]]]]

\* Mutant: the walk goes on from the next charge, never back to those before it.
ProjectForward(next, recurrence, start, end) ==
    IF recurrence.isRecurring THEN WalkOn[MaxOccurrences][recurrence][start][end][next]
    ELSE IF next >= start /\ next <= end THEN <<next>> ELSE <<>>

ProjectOccurrences(next, recurrence, start, end) ==
    IF recurrence.isRecurring
    THEN LET first == WalkBack[MaxOccurrences][recurrence][start][next]
         IN  WalkOn[MaxOccurrences][recurrence][start][end][first]
    ELSE IF next >= start /\ next <= end THEN <<next>> ELSE <<>>

\* getCashFlowCalendar: the charges of an active subscription in one month.
Shown(month) ==
    IF subscription.status # "ACTIVE" THEN <<>>
    ELSE ProjectOccurrences(subscription.next, subscription.recurrence, FirstDay(month), LastDay(month))

-----------------------------------------------------------------------------
NoRow == [status |-> "none"]

DeriveNext(started, recurrence) ==
    IF recurrence.isRecurring THEN Shift(started, recurrence, 1) ELSE started

CalendarInit == subscription = NoRow

\* The next charge is what the user says, or one period after the start.
Create(started, recurrence) ==
    /\ subscription = NoRow
    /\ \E next \in Dates \union {DeriveNext(started, recurrence)} :
          subscription' = [status |-> "ACTIVE", started |-> started, recurrence |-> recurrence, next |-> next]

\* update: a change of the schedule moves the next charge, unless the user gives it.
Reschedule(started, recurrence) ==
    /\ subscription # NoRow
    /\ \/ started # subscription.started \/ recurrence # subscription.recurrence
    /\ \E next \in Dates \union {DeriveNext(started, recurrence)} :
          subscription' = [subscription EXCEPT !.started = started, !.recurrence = recurrence, !.next = next]

MoveNext(next) ==
    /\ subscription # NoRow /\ subscription' = [subscription EXCEPT !.next = next]

UpdateStatus(status) ==
    /\ subscription # NoRow /\ subscription' = [subscription EXCEPT !.status = status]

RemoveSchedule == subscription # NoRow /\ subscription' = NoRow

CalendarNext ==
    \/ \E d \in Dates, r \in Recurrences : Create(d, r) \/ Reschedule(d, r)
    \/ \E d \in Dates : MoveNext(d)
    \/ \E s \in {"ACTIVE", "PAUSED", "CANCELLED"} : UpdateStatus(s)
    \/ RemoveSchedule

CalendarSpec == CalendarInit /\ [][CalendarNext]_calendarVars
-----------------------------------------------------------------------------
\* Charges that the loops can reach before they give up.
Period(recurrence) ==
    IF recurrence.unit \in DOMAIN DaysOf THEN DaysOf[recurrence.unit] * recurrence.interval
    ELSE 28 * MonthsOf[recurrence.unit] * recurrence.interval

WithinReach(month) ==
    LET r == subscription.recurrence IN
    /\ subscription.next - FirstDay(month) <= MaxOccurrences * Period(r)
    /\ LastDay(month) - subscription.next < MaxOccurrences * Period(r)

\* The days of a month on which charges are to be expected, without walking there.
ChargeDays(month) ==
    {d \in FirstDay(month)..LastDay(month) : (d - subscription.next) % Period(subscription.recurrence) = 0}

\* A month of the cash-flow calendar shows every charge that falls into it and no other:
\* one-time charges on their date, daily and weekly ones on each of their days, the others
\* once in each month they are due, as far before or after the next charge as MaxOccurrences
\* periods reach.
EveryChargeIsShown ==
    subscription.status = "ACTIVE" => \A m \in Months :
        LET r == subscription.recurrence
            charges == Shown(m)
            days == {charges[i] : i \in DOMAIN charges} IN
        /\ days \subseteq FirstDay(m)..LastDay(m) /\ Cardinality(days) = Len(charges)
        /\ ~r.isRecurring => days = IF MonthOf(subscription.next) = m THEN {subscription.next} ELSE {}
        /\ r.isRecurring /\ WithinReach(m) =>
              IF r.unit \in DOMAIN DaysOf THEN days = ChargeDays(m)
              ELSE Cardinality(days) =
                     IF (m - MonthOf(subscription.next)) % (MonthsOf[r.unit] * r.interval) = 0 THEN 1 ELSE 0

ChargesOver(month, n) ==
    SumFunctionOnSet([i \in 0..(n - 1) |-> Len(Shown(month + i))], 0..(n - 1))

\* The summary and the calendar tell the same story: over twelve months the calendar shows
\* what twelve monthly amounts come to, to within one charge.
RunRateMatchesCalendar ==
    subscription.status = "ACTIVE" /\ subscription.recurrence.isRecurring => \A m \in Months :
        (\A i \in 0..11 : WithinReach(m + i)) =>
            LET months == MonthsPerOccurrence(subscription.recurrence)
                excess == ChargesOver(m, 12) * months[1] - 12 * months[2] IN
            excess <= months[1] /\ -excess <= months[1]

\* The calendar shows what is charged, and the summary what the calendar shows.
ChargesAreShown == EveryChargeIsShown /\ RunRateMatchesCalendar
=============================================================================
