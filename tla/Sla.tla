-------------------------------- MODULE Sla --------------------------------
(***************************************************************************)
(* sla/: the deadline of a stage, counted in business hours of the local   *)
(* clock, and the state of the stage that is computed when it is read.     *)
(*                                                                         *)
(* Nothing here waits or writes, so the module chooses an input and says   *)
(* what the code makes of it.  An instant is a number of hours; the local  *)
(* clock is as many hours ahead as the changes of the clock so far say.    *)
(***************************************************************************)
EXTENDS Integers, FiniteSets, Sequences, FiniteSetsExt

CONSTANTS
    DayHours,    \* hours of a day
    WeekDays,    \* days of a week
    Horizon,     \* _MAX_DAYS: the days the calendar looks at
    Starts,      \* instants a stage may start at
    MaxAmount,   \* most business hours a stage may be given
    Changes,     \* instants at which the clock may be changed by an hour
    Instants     \* instants of the deadlines, pauses and readings of a stage

SlaAssumption ==
    /\ DayHours \in Nat \ {0} /\ WeekDays \in Nat \ {0} /\ Horizon \in Nat \ {0}
    /\ Starts \subseteq Nat /\ MaxAmount \in Nat /\ Changes \subseteq Nat /\ Instants \subseteq Nat

VARIABLE input  \* the question asked; {} before there is one

----------------------------------------------------------------------------
\* BusinessCalendar with the zone it is used in: the clock goes forward (by = 1)
\* or back (by = -1) by an hour at one instant.
Calendars ==
    [open : 0 .. DayHours - 1, close : 1 .. DayHours, days : SUBSET (0 .. WeekDays - 1),
     change : Changes, by : {-1, 0, 1}]

\* BusinessCalendar.__post_init__: the other calendars raise.
Valid(c) == c.days # {} /\ c.open < c.close

\* astimezone(tz): what the local clock shows at instant u.
Local(c, u) == IF u < c.change THEN u ELSE u + c.by

\* astimezone(UTC) of a computed local time: an hour that the clock shows twice is
\* read as the first, one it skips as if it had not been changed yet.
Utc(c, l) == IF l < c.change + Max({c.by, 0}) THEN l ELSE l - c.by

BusinessDay(c, d) == d % WeekDays \in c.days

\* _close_of: hour 24 is the next midnight.
CloseOf(c, d) == d * DayHours + c.close

\* segment_start: the cursor stands at start on its own day and at midnight after.
SegmentStart(c, start, d) == Max({start, d * DayHours + c.open})

\* The hours of day d that can be consumed.
Available(c, start, d) ==
    IF BusinessDay(c, d) THEN Max({CloseOf(c, d) - SegmentStart(c, start, d), 0}) ELSE 0

\* Mutant: the hour of closing counts as a window of its own.
DaysThatEnd_zero(c, start, spent, n) ==
    {k \in 0 .. Horizon - 1 :
        BusinessDay(c, start \div DayHours + k) /\ n - spent[k] <= Available(c, start, start \div DayHours + k)}

\* The days on which the loop may return.
DaysThatEnd(c, start, spent, n) ==
    {k \in 0 .. Horizon - 1 :
        LET available == Available(c, start, start \div DayHours + k)
        IN  available > 0 /\ n - spent[k] <= available}

\* add_business_seconds: {} stands for ValueError.
AddBusinessHours(c, u, n) ==
    LET start == Local(c, u)
        first == start \div DayHours
        spent[k \in 0 .. Horizon] == IF k = 0 THEN 0 ELSE spent[k - 1] + Available(c, start, first + k - 1)
        ends  == DaysThatEnd(c, start, spent, n)
        last  == Min(ends)
    IN  IF ~Valid(c) \/ n < 0 \/ ends = {} THEN {}
        ELSE {Utc(c, SegmentStart(c, start, first + last) + n - spent[last])}

----------------------------------------------------------------------------
\* The sla column as far as one stage reads it: its deadline, its start and the
\* pauses, of which one that is not a pair is passed over; garbled are the fields that
\* hold a string which neither fromisoformat nor the cast of the scan can read.
Pauses == {<<>>} \cup (Instants \X Instants)

Columns ==
    [deadline : {{}} \cup {{i} : i \in Instants}, started : {{}} \cup {{i} : i \in Instants},
     paused : {<<>>} \cup {<<p>> : p \in Pauses} \cup {<<p, <<0, 1>>>> : p \in Pauses},
     garbled : SUBSET {"deadline", "started"}]

\* Another row that the scan reads, whose deadline is garbled.
Broken == [deadline |-> {}, started |-> {}, paused |-> <<>>, garbled |-> {"deadline"}]

\* Mutant: a pause that ends before it begins shortens the deadline.
PausedHours_signed(column) ==
    FoldSet(LAMBDA i, sum : sum + (IF Len(column.paused[i]) = 2
                                   THEN column.paused[i][2] - column.paused[i][1] ELSE 0),
            0, DOMAIN column.paused)

\* _paused_seconds.
PausedHours(column) ==
    FoldSet(LAMBDA i, sum : sum + (IF Len(column.paused[i]) = 2
                                   THEN Max({0, column.paused[i][2] - column.paused[i][1]}) ELSE 0),
            0, DOMAIN column.paused)

\* _stage_start: a day before the deadline when nobody noted it.
StageStart(column, deadline) ==
    IF column.started = {} THEN deadline - DayHours ELSE CHOOSE s \in column.started : TRUE

\* SlaPolicy.evaluate; at_risk_fraction is four fifths.  A string that is no instant
\* raises: the deadline at once, the start only while the deadline has not passed.
Evaluate(column, now) ==
    LET deadline  == CHOOSE d \in column.deadline : TRUE
        effective == deadline + PausedHours(column)
        total     == effective - StageStart(column, deadline)
        elapsed   == now - StageStart(column, deadline)
    IN  IF "deadline" \in column.garbled THEN "RAISES"
        ELSE IF column.deadline = {} THEN "ON_TRACK"
        ELSE IF now >= effective THEN "BREACHED"
        ELSE IF "started" \in column.garbled THEN "RAISES"
        ELSE IF total > 0 /\ 5 * elapsed >= 4 * total THEN "AT_RISK"
        ELSE "ON_TRACK"

\* sla_view, for the two stages.
AcceptState(column, accepted, now) == IF accepted THEN "MET" ELSE Evaluate(column, now)
PerformState(column, accepted, done, now) ==
    CASE done                -> "MET"
      [] ~done /\ accepted   -> Evaluate(column, now)
      [] OTHER               -> "ON_TRACK"

\* list_accept_overdue without its limit: the rows the scan for timeouts looks at; {}
\* stands for the error of the cast, which ends the statement whichever row it is of.
Overdue(columns, now) ==
    IF \E c \in columns : "deadline" \in c.garbled THEN {}
    ELSE {{c \in columns : \E d \in c.deadline : d < now}}

----------------------------------------------------------------------------
Questions ==
    [of : {"deadline"}, calendar : Calendars, start : Starts, amount : -1 .. MaxAmount]
      \cup [of : {"stage"}, column : Columns, beside : {{}, {Broken}}]

Init == input = {}
Next == /\ input = {}
        /\ \E q \in Questions : input' = {q}
Spec == Init /\ [][Next]_input
----------------------------------------------------------------------------
\* Reference: the business hours of the local clock, told hour by hour.
BusinessHour(c, l) == BusinessDay(c, l \div DayHours) /\ l % DayHours \in c.open .. c.close - 1

\* What a partner can work between two instants.
Worked(c, from, to) == Cardinality({u \in from .. to - 1 : BusinessHour(c, Local(c, u))})

\* The local hour that a change of the clock skips or shows twice.
ChangedHour(c) == IF c.by = 1 THEN c.change ELSE c.change - 1

\* The business hours within the horizon of the calendar.
Reachable(c, start) ==
    Cardinality({l \in start .. (start \div DayHours + Horizon) * DayHours - 1 : BusinessHour(c, l)})

\* Windows that close at midnight, stages that start outside a window or end with
\* it, weeks with a single day and a clock that is changed on the way: a deadline
\* leaves exactly the business hours promised, and is not later than it must be;
\* only when the changed hour is itself a business hour may it be off, by that hour.
\* There is no deadline only when the horizon has too few hours.
DeadlinesRight ==
    \A q \in input : q.of = "deadline" =>
        LET c == q.calendar
            deadlines == AddBusinessHours(c, q.start, q.amount)
        IN  Valid(c) /\ q.amount >= 0 =>
              /\ deadlines = {} => Reachable(c, Local(c, q.start)) < Max({q.amount, 1})
              /\ \A d \in deadlines :
                   LET worked == Worked(c, q.start, d)
                   IN  IF c.by # 0 /\ BusinessHour(c, ChangedHour(c))
                       THEN worked - q.amount \in -1 .. 1
                       ELSE /\ worked = q.amount /\ d >= q.start
                            /\ IF q.amount > 0 THEN BusinessHour(c, Local(c, d - 1))
                                               ELSE BusinessHour(c, Local(c, d))

Severity == [RAISES |-> -1, ON_TRACK |-> 0, AT_RISK |-> 1, BREACHED |-> 2]

\* A card that shows s now and t later: a stage is done, or it is no better.
NoBetter(s, t) == t = "MET" \/ (s # "MET" /\ Severity[s] <= Severity[t])

\* Columns with pauses, without a start, or garbled: neither waiting nor the progress of
\* the request makes a card better but for a stage that is done, nor unreadable; a pause
\* never makes a stage worse; only a garbled column cannot be read, and its breach can
\* be unless the deadline is what is garbled.  A breach is never hidden from the scan
\* for timeouts for longer than the instant of the deadline, for which SQL and evaluate
\* differ, unless the scan itself ends with the garbled deadline of another row.
StatesSound ==
    \A q \in input : q.of = "stage" =>
        LET column == q.column
            rows   == {column} \cup q.beside
        IN  \A now \in Instants :
              LET state == Evaluate(column, now)
              IN  /\ \A before, after \in BOOLEAN : (before => after) =>
                       NoBetter(AcceptState(column, before, now), AcceptState(column, after, now + 1))
                  /\ \A before, after, done, finished \in BOOLEAN :
                       (before => after) /\ (done => finished) /\ column.garbled = {} =>
                         NoBetter(PerformState(column, before, done, now),
                                  PerformState(column, after, finished, now + 1))
                  /\ Severity[state] <= Severity[Evaluate([column EXCEPT !.paused = <<>>], now)]
                  /\ state = "RAISES" => column.garbled # {}
                  /\ state = "BREACHED" =>
                       IF q.beside # {} THEN Overdue(rows, now + 1) = {}
                       ELSE \E found \in Overdue(rows, now + 1) : column \in found
============================================================================
