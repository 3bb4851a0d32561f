----------------------------- MODULE Schedules -----------------------------
(***************************************************************************)
(* Scheduled work (schedules.ts, cron.ts): rows with a cron expression, a  *)
(* ticker in every worker, and the compare-and-set that lets one of them   *)
(* fire a row.  Time is counted in instants, SubMinute of them a minute,   *)
(* and the calendar is the code's with shorter hours, days and months.     *)
(* A fired row is awaited (an improvement run's creation cuts a branch),   *)
(* so a tick may still be at work when the next one starts.                *)
(***************************************************************************)
EXTENDS Integers, Sequences, SequencesExt, Absent

CONSTANTS Rows,          \* schedules
          Tickers,       \* ticks that may be under way at once, on any workers
          Configured,    \* the rows there are at first
          Expressions,   \* the expressions operators type, as five fields
          QueuedCards,   \* cards waiting in the queue
          Horizon,       \* last instant
          SubMinute,     \* instants in a minute
          Calendar,      \* [hour, day, week |-> lengths, months |-> sequence]
          MaxEdits       \* edits by operators

VARIABLES schedules,     \* [Rows -> row or None]
          instant,       \* the clock
          ticks,         \* [Tickers -> [at, due, running]]
          fired,         \* [Rows -> [minutes -> times fired for that minute]]
          queue,         \* cards in Todo that nobody has started
          edits

schedVars == <<schedules, instant, ticks, fired, queue, edits>>

-----------------------------------------------------------------------------
(* Cron. A field is a set of entries [star, from, to, step].               *)

Fields == {"minute", "hour", "dom", "month", "dow"}
FieldRange == [minute |-> 0..(Calendar.hour - 1), hour |-> 0..(Calendar.day - 1),
               dom |-> 1..Max(Range(Calendar.months)), month |-> 1..Len(Calendar.months),
               dow |-> 0..Calendar.week]

\* parseField: an entry without an end stops at itself, or with a step at the
\* end of the field; anything outside the field's range is refused.
PartValues(entry, f) ==
  LET from == IF entry.star THEN Min(FieldRange[f]) ELSE entry.from
      to == CASE entry.star -> Max(FieldRange[f])
              [] entry.to # None -> entry.to
              [] entry.step = None -> entry.from
              [] OTHER -> Max(FieldRange[f])
      step == IF entry.step = None THEN 1 ELSE entry.step IN
  {v \in from..to : (v - from) % step = 0}

FieldValues(field, f) == UNION {PartValues(entry, f) : entry \in field}
FieldOK(field, f) ==
  \A entry \in field :
    /\ entry.step # None => entry.step >= 1
    /\ ~entry.star => /\ PartValues(entry, f) # {}
                     /\ PartValues(entry, f) \subseteq FieldRange[f]

\* parseCron: the last day of the week is the first as well.
DaysOfWeek(expr) ==
  LET days == FieldValues(expr.dow, "dow") IN
  (days \ {Calendar.week}) \cup (IF Calendar.week \in days THEN {0} ELSE {})

PlainStar == {[star |-> TRUE, from |-> None, to |-> None, step |-> None]}
BothDayFieldsRestricted(expr) == expr.dom # PlainStar /\ expr.dow # PlainStar

\* The Date of a minute: the fields cronMatches asks it for.
DaysBefore[month \in Nat] ==
  IF month <= 1 THEN 0 ELSE DaysBefore[month - 1] + Calendar.months[month - 1]
DayOf(minute) == minute \div (Calendar.hour * Calendar.day)
DayOfYear(minute) == DayOf(minute) % DaysBefore[Len(Calendar.months) + 1]
MonthOf(day) == Cardinality({m \in 1..Len(Calendar.months) : DaysBefore[m] <= day})
DateOf(minute) ==
  LET day == DayOfYear(minute)
      month == MonthOf(day) IN
  [minute |-> minute % Calendar.hour,
   hour |-> (minute \div Calendar.hour) % Calendar.day,
   dom |-> day - DaysBefore[month] + 1,
   month |-> month,
   dow |-> DayOf(minute) % Calendar.week]

CronMatches(expr, minute) ==
  LET date == DateOf(minute)
      dom == date.dom \in FieldValues(expr.dom, "dom")
      dow == date.dow \in DaysOfWeek(expr) IN
  /\ \A f \in {"minute", "hour", "month"} : date[f] \in FieldValues(expr[f], f)
  /\ IF BothDayFieldsRestricted(expr) THEN dom \/ dow ELSE dom /\ dow

YearMinutes == Calendar.hour * Calendar.day * DaysBefore[Len(Calendar.months) + 1]
Minute(i) == i \div SubMinute

\* nextCronFire: a walk by minutes from the first whole one, for a year.
FirstMinute(i) == IF i % SubMinute = 0 THEN Minute(i) ELSE Minute(i) + 1
NextCronFire(expr, i) ==
  LET walk[m \in Nat] == IF m = FirstMinute(i) + YearMinutes THEN None
                         ELSE IF CronMatches(expr, m) THEN m ELSE walk[m + 1]
  IN walk[FirstMinute(i)]

\* Mutant of After: from the last fire's own minute.
AfterLast(expr, t) == IF t = None THEN None ELSE NextCronFire(expr, t * SubMinute)

\* upcomingFires: each of the three is looked for a minute after the last.
After(expr, t) == IF t = None THEN None ELSE NextCronFire(expr, (t + 1) * SubMinute)
Upcoming(expr, i) ==
  LET fires == FoldLeft(LAMBDA seq, n : Append(seq, After(expr, Last(seq))),
                        <<NextCronFire(expr, i)>>, <<2, 3>>)
  IN SelectSeq(fires, LAMBDA t : t # None)

ValidCron(expr) == \A f \in Fields : FieldOK(expr[f], f)

-----------------------------------------------------------------------------
Minutes == 0..Minute(Horizon)
Kinds == {"queue-drain", "improvement-run"}
ScheduleRow == [kind : Kinds, cron : Expressions, enabled : BOOLEAN,
                last : 0..Horizon \cup {None}]
NoTick == [at |-> None, due |-> {}, running |-> None]

SchedTypeOK ==
  /\ schedules \in [Rows -> ScheduleRow \cup {None}]
  /\ instant \in 0..Horizon
  /\ \A k \in Tickers : /\ ticks[k].at \in 0..Horizon \cup {None}
                        /\ ticks[k].running \in Rows \cup {None}
                        /\ ticks[k].due \subseteq [id : Rows, row : ScheduleRow]
  /\ fired \in [Rows -> [Minutes -> Nat]]
  /\ queue \subseteq QueuedCards /\ edits \in 0..MaxEdits

SchedInit ==
  /\ schedules = Configured
  /\ instant = 0
  /\ ticks = [k \in Tickers |-> NoTick]
  /\ fired = [s \in Rows |-> [m \in Minutes |-> 0]]
  /\ queue = QueuedCards /\ edits = 0

\* createSchedule, or updateSchedule of anything but lastFiredAt: validated.
Save(s, kind, expr, enabled) ==
  /\ edits < MaxEdits /\ ValidCron(expr)
  /\ schedules' = [schedules EXCEPT ![s] =
       IF @ = None THEN [kind |-> kind, cron |-> expr, enabled |-> enabled, last |-> None]
       ELSE [@ EXCEPT !.kind = kind, !.cron = expr, !.enabled = enabled]]
  /\ schedules'[s] # schedules[s]
  /\ edits' = edits + 1
  /\ UNCHANGED <<instant, ticks, fired, queue>>

\* Ids are never used again: a deleted row's name stands for no new one here.
Delete(s) ==
  /\ schedules[s] # None /\ edits = MaxEdits
  /\ schedules' = [schedules EXCEPT ![s] = None]
  /\ UNCHANGED <<instant, ticks, fired, queue, edits>>

Passes ==
  /\ instant < Horizon
  /\ instant' = instant + 1
  /\ UNCHANGED <<schedules, ticks, fired, queue, edits>>

MinuteKey(last) == IF last = None THEN None ELSE Minute(last)

Due(s) ==
  /\ schedules[s] # None /\ schedules[s].enabled
  /\ MinuteKey(schedules[s].last) # Minute(instant)
  /\ CronMatches(schedules[s].cron, Minute(instant))

\* fireDueSchedules up to its first claim: the rows due now, as they are now.
Tick(k) ==
  /\ ticks[k].at = None /\ \E s \in Rows : Due(s)
  /\ ticks' = [ticks EXCEPT ![k] = [NoTick EXCEPT !.at = instant,
                 !.due = {[id |-> s, row |-> schedules[s]] : s \in {x \in Rows : Due(x)}}]]
  /\ UNCHANGED <<schedules, instant, fired, queue, edits>>

\* The loop goes on with what is left of the rows it read, in any order.
Done(k, read) ==
  LET left == ticks[k].due \ {read} IN
  ticks' = [ticks EXCEPT ![k] = IF left = {} THEN NoTick
                                ELSE [@ EXCEPT !.due = left, !.running = None]]

\* Mutants of ClaimWins: the claim does not compare, or does not look again.
ClaimWinsAnyway(read) == schedules[read.id] # None /\ schedules[read.id].enabled
ClaimWinsSuspended(read) ==
  schedules[read.id] # None /\ schedules[read.id].last = read.row.last

\* claimScheduleFire: still enabled, and not fired since it was read.
ClaimWins(read) ==
  /\ schedules[read.id] # None /\ schedules[read.id].enabled
  /\ schedules[read.id].last = read.row.last

Fires(k, read) ==
  /\ ticks[k].running = None /\ ClaimWins(read)
  /\ schedules' = [schedules EXCEPT ![read.id].last = ticks[k].at]
  /\ fired' = [fired EXCEPT ![read.id][Minute(ticks[k].at)] = @ + 1]

\* A lost claim: a peer, or a later tick of this worker, has fired the row.
Lose(k, read) ==
  /\ ticks[k].running = None /\ ~ClaimWins(read)
  /\ Done(k, read)
  /\ UNCHANGED <<schedules, instant, fired, queue, edits>>

\* drainQueue starts every card nobody has started, though one refuses. What
\* a firing did is written to the row for display, which is left out.
FireDrain(k, read) ==
  /\ Fires(k, read) /\ read.row.kind = "queue-drain"
  /\ queue' \in SUBSET queue
  /\ Done(k, read)
  /\ UNCHANGED <<instant, edits>>

\* startRun: createImprovementRun is awaited, whatever comes of it.
FireRun(k, read) ==
  /\ Fires(k, read) /\ read.row.kind = "improvement-run"
  /\ ticks' = [ticks EXCEPT ![k].running = read.id]
  /\ UNCHANGED <<instant, queue, edits>>

RunAnswers(k, read) ==
  /\ ticks[k].running = read.id
  /\ Done(k, read)
  /\ UNCHANGED <<schedules, instant, fired, queue, edits>>

\* The worker dies: its ticks are gone, nothing replays them.
TickLost(k) ==
  /\ ticks[k].at # None
  /\ ticks' = [ticks EXCEPT ![k] = NoTick]
  /\ UNCHANGED <<schedules, instant, fired, queue, edits>>

SchedNext ==
  \/ \E s \in Rows : \/ \E kind \in Kinds, expr \in Expressions, on \in BOOLEAN : Save(s, kind, expr, on)
                     \/ Delete(s)
  \/ Passes
  \/ \E k \in Tickers :
       \/ Tick(k) \/ TickLost(k)
       \/ \E read \in ticks[k].due :
            Lose(k, read) \/ FireDrain(k, read) \/ FireRun(k, read) \/ RunAnswers(k, read)

SchedSpec == SchedInit /\ [][SchedNext]_schedVars

-----------------------------------------------------------------------------
(* Properties.                                                             *)

\* However many workers tick, twice in a minute or late behind a slow run, a
\* schedule fires at most once for a minute.
OneFirePerMinute == \A s \in Rows, m \in Minutes : fired[s][m] <= 1

\* No schedule fires once it is suspended or deleted, though a tick read it
\* as due before that and got to it later.
FiresEnabled ==
  \A s \in Rows : fired'[s] # fired[s] => schedules[s] # None /\ schedules[s].enabled
SuspendedStaysQuiet == [][FiresEnabled]_schedVars

\* The times a listing shows are the minutes the ticker fires at: the next
\* three that match, from the minute it is, in order.
ListedIsFired ==
  \A s \in Rows : schedules[s] # None =>
    LET times == Upcoming(schedules[s].cron, instant)
        year == FirstMinute(instant)..(FirstMinute(instant) + YearMinutes - 1)
        matching == {m \in year : CronMatches(schedules[s].cron, m)} IN
    /\ times = <<>> <=> matching = {}
    /\ \A i \in DOMAIN times : CronMatches(schedules[s].cron, times[i])
    /\ \A m \in matching : Cardinality({n \in matching : n < m}) < 3 =>
         m = times[Cardinality({n \in matching : n < m}) + 1]
=============================================================================
