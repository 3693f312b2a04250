------------------------------- MODULE Schedule -------------------------------
(***************************************************************************)
(* Asking Vanessa to post something later (pipeline/schedule, applied in   *)
(* pipeline/stages/retrieve_schedule.py): the cron of a post and its next  *)
(* due, the frequency rule, and the turns that add, list and cancel the    *)
(* posts of one chat.  A turn reads the list and changes the table in two   *)
(* sessions; a turn that dies is delivered again, and the planner may word *)
(* the same request differently.  Reminders models the worker that posts.  *)
(*                                                                         *)
(* Time is counted in slots of a day; a month has MonthLen days and months *)
(* are all alike, so the month field of a cron is left out.                *)
(***************************************************************************)
EXTENDS Integers, Sequences, FiniteSets, SequencesExt, FiniteSetsExt, Ordering

CONSTANTS Agents,     \* agent processes
          Requests,   \* what a turn may ask, in the words the planner found for it
          Begins,     \* <<l, m>>: the link l is the beginning of the link m
          DaySlots, WeekLen, MonthLen,
          SearchDays, \* days the next run is looked for in
          Horizon,    \* slots ahead the frequency is checked
          Samples,    \* runs that are looked at in it
          MinGap,     \* slots between two runs of a post
          MaxAhead,   \* a one-shot post is not later than this
          MaxPosts,   \* posts of a chat
          LastNow,    \* bound: the last moment
          LastId      \* bound: the last row id

ASSUME ScheduleAssumption ==
    /\ {DaySlots, WeekLen, MonthLen, SearchDays, Horizon, Samples, MinGap, MaxAhead,
        MaxPosts, LastNow, LastId} \subseteq Nat
    /\ DaySlots > 0 /\ WeekLen > 0 /\ MonthLen > 0
    /\ IsFiniteSet(Agents) /\ Agents # {}
    \* parse_cron takes no moment that a day does not have.
    /\ \A r \in Requests : r.at \in Nat /\ r.cron.slots \subseteq 0 .. DaySlots - 1

Once == [slots |-> {}, days |-> {}, weekdays |-> {}, anyDay |-> TRUE, anyWeekday |-> TRUE]
Never == -1
NoWish == [action |-> "none"]

VARIABLES clock,      \* the moment
          stored,      \* the rows of the chat in the order of their ids
          ids,        \* ids given out
          does,       \* where each agent's turn is
          wish,       \* what it adds
          due,        \* the first run it worked out
          gone,       \* the ids it picked to cancel
          since       \* ghost: the last id there was when it read the list

scheduleVars == <<clock, stored, ids, does, wish, due, gone, since>>

-----------------------------------------------------------------------------
(* Cron *)

Day(m) == m \div DaySlots

\* As in classic cron, when both the day and the weekday are restricted either
\* one is enough.
DayMatches(c, d) ==
    LET byDay == d % MonthLen \in c.days
        byWeekday == d % WeekLen \in c.weekdays
    IN  IF c.anyDay \/ c.anyWeekday THEN byDay /\ byWeekday ELSE byDay \/ byWeekday

OnDay(c, d, after) == {m \in {d * DaySlots + s : s \in c.slots} : m > after}

\* next_local_run: the first moment of the first day that has one.
NextMatch(c, after) ==
    LET days == {d \in Day(after) .. Day(after) + SearchDays - 1 :
                    DayMatches(c, d) /\ OnDay(c, d, after) # {}}
    IN  IF after = Never \/ days = {} THEN Never ELSE Min(OnDay(c, Min(days), after))

\* upcoming_runs and min_gap: the first run always counts, later ones only
\* within the horizon.
TooFrequent(c) ==
    LET runs[k \in 0 .. Samples] ==
            IF k = 0 THEN clock ELSE NextMatch(c, runs[k-1])
        Counts(k) == runs[k] # Never /\ (k = 1 \/ runs[k] - clock <= Horizon)
    IN  \E k \in 2 .. Samples : Counts(k) /\ runs[k] - runs[k-1] < MinGap

\* first_run: Never when the request is refused.
FirstRun(r) ==
    IF r.cron # Once
    THEN IF TooFrequent(r.cron) THEN Never ELSE NextMatch(r.cron, clock)
    ELSE IF clock < r.at /\ r.at - clock <= MaxAhead THEN r.at ELSE Never

-----------------------------------------------------------------------------
(* The posts of the chat *)

\* keep_urls: a link counts as kept when the text has its letters in a row.
Holds(links, l) == \E m \in links : m = l \/ <<l, m>> \in Begins
KeepLinks(r) == r.links \cup {l \in r.source : ~Holds(r.links, l)}

\* Mutant: a post is told by its words alone.
SameWords(row, r) == row.words = r.words

SamePost(row, r) ==
    LET links == KeepLinks(r)
    IN  IF links # {} THEN row.links = links ELSE row.links = {} /\ row.words = r.words

\* find_duplicate.
Same(row, r, at) ==
    /\ row.cron = r.cron
    /\ r.cron = Once => row.next = at
    /\ SamePost(row, r)

\* source and since are history: the links of the message, and the last id
\* there was when the turn that adds the row read the list.
RowOf(r, id, at, last) ==
    [id |-> id, cron |-> r.cron, next |-> at, words |-> r.words, links |-> KeepLinks(r),
     source |-> r.source, since |-> last]

\* match_reminders: by position in the list as it is now, by words, all of
\* them, or the only one.  "unclear" asks which.
Picked(rows, r) ==
    CASE r.target = "none" -> IF Len(rows) = 1 THEN {1} ELSE {}
      [] r.target = "all"  -> DOMAIN rows
      [] r.target = "words" -> {i \in DOMAIN rows : rows[i].words = r.words}
      [] OTHER -> {i \in DOMAIN rows : i \in r.numbers}

-----------------------------------------------------------------------------
ScheduleInit ==
    /\ clock = 0
    /\ stored = <<>> /\ ids = 0
    /\ does = [a \in Agents |-> "idle"]
    /\ wish = [a \in Agents |-> NoWish]
    /\ due = [a \in Agents |-> Never]
    /\ gone = [a \in Agents |-> {}]
    /\ since = [a \in Agents |-> 0]

TurnGoes(a, to, r, time, picked, last) ==
    /\ does' = [does EXCEPT ![a] = to]
    /\ wish' = [wish EXCEPT ![a] = r]
    /\ due' = [due EXCEPT ![a] = time]
    /\ gone' = [gone EXCEPT ![a] = picked]
    /\ since' = [since EXCEPT ![a] = last]

TurnEnds(a) == TurnGoes(a, "idle", NoWish, Never, {}, 0)

\* _add: the rules of time, the list in a session of its own, no duplicate,
\* the limit.  A request that is refused, or there already, changes nothing.
ReadToAdd(a) ==
    /\ does[a] = "idle"
    /\ \E r \in Requests :
          LET run == FirstRun(r)
          IN  /\ r.action = "add" /\ run # Never
              /\ \A i \in DOMAIN stored : ~Same(stored[i], r, run)
              /\ Len(stored) < MaxPosts
              /\ TurnGoes(a, "adds", r, run, {}, ids)
    /\ UNCHANGED <<clock, stored, ids>>

\* _cancel: with nothing picked she shows the list and changes nothing.
ReadToCancel(a) ==
    /\ does[a] = "idle"
    /\ \E r \in Requests :
          LET picked == Picked(stored, r)
          IN  /\ r.action = "cancel" /\ picked # {}
              /\ TurnGoes(a, "cancels", NoWish, Never, {stored[i].id : i \in picked}, 0)
    /\ UNCHANGED <<clock, stored, ids>>

\* The row, or the rows' absence, in a session of its own.
Insert(a) ==
    /\ does[a] = "adds"
    /\ ids < LastId
    /\ ids' = ids + 1
    /\ stored' = Append(stored, RowOf(wish[a], ids', due[a], since[a]))
    /\ TurnEnds(a)
    /\ UNCHANGED clock

Delete(a) ==
    /\ does[a] = "cancels"
    /\ stored' = Select(stored, LAMBDA row : row.id \notin gone[a])
    /\ TurnEnds(a)
    /\ UNCHANGED <<clock, ids>>

\* The process dies in the turn.  Its message is delivered again, whether or
\* not the change was made, and the planner words it anew: a further turn with
\* the same request or another wording of it.
TurnDies(a) ==
    /\ does[a] # "idle"
    /\ TurnEnds(a)
    /\ UNCHANGED <<clock, stored, ids>>

\* The worker posts what is due: a one-shot row is deleted, another moves on.
PostDue ==
    /\ \E i \in DOMAIN stored :
          /\ stored[i].next <= clock
          /\ LET next == IF stored[i].cron = Once THEN Never
                         ELSE NextMatch(stored[i].cron, clock)
             IN  stored' = IF next = Never THEN RemoveAt(stored, i)
                          ELSE [stored EXCEPT ![i].next = next]
    /\ UNCHANGED <<clock, ids, does, wish, due, gone, since>>

Later ==
    /\ clock < LastNow
    /\ clock' = clock + 1
    /\ UNCHANGED <<stored, ids, does, wish, due, gone, since>>

ScheduleNext ==
    \/ \E a \in Agents : ReadToAdd(a) \/ ReadToCancel(a) \/ Insert(a) \/ Delete(a) \/ TurnDies(a)
    \/ PostDue
    \/ Later

ScheduleSpec == ScheduleInit /\ [][ScheduleNext]_scheduleVars

-----------------------------------------------------------------------------
ScheduleTypeOK ==
    /\ clock \in 0 .. LastNow
    /\ ids \in 0 .. LastId
    /\ \A i \in DOMAIN stored : stored[i].id \in 1 .. ids /\ stored[i].next \in Nat
    /\ \A i, j \in DOMAIN stored : i < j => stored[i].id < stored[j].id
    /\ does \in [Agents -> {"idle", "adds", "cancels"}]
    /\ wish \in [Agents -> Requests \cup {NoWish}]
    /\ due \in [Agents -> Nat \cup {Never}]
    /\ gone \in [Agents -> SUBSET (1 .. ids)]
    /\ since \in [Agents -> 0 .. ids]

\* The runs of a cron, by its definition.
RunsOf(c, from, to) ==
    {m \in from .. to : m % DaySlots \in c.slots /\ DayMatches(c, Day(m))}

\* A recurring post is due at a run of its cron, and none is skipped before it.
NextIsNext ==
    \A i \in DOMAIN stored : stored[i].cron # Once =>
        /\ stored[i].next \in RunsOf(stored[i].cron, stored[i].next, stored[i].next)
        /\ RunsOf(stored[i].cron, clock + 1, stored[i].next - 1) = {}

\* However often a request is delivered, and in whatever words it comes back,
\* posts with links are there once on a schedule.  The check and the insert are
\* in sessions of their own: two of them are there only when the turn of the
\* later row had read the list before the earlier row was in it.
LinksPostedOnce ==
    \A i, j \in DOMAIN stored :
        i < j /\ stored[i].links # {} /\ stored[i].cron = stored[j].cron
        /\ (stored[i].cron = Once => stored[i].next = stored[j].next)
        /\ stored[i].links = stored[j].links
            => stored[j].since < stored[i].id

\* For the same reason each other agent may put one post on top of the limit
\* of the chat; none puts two, and one agent alone keeps it.
LimitIsKept == Len(stored) <= MaxPosts + Cardinality(Agents) - 1

\* Every link of the message is in the text of the post, at least as the
\* beginning of another.
LinksAreKept ==
    \A i \in DOMAIN stored : \A l \in stored[i].source : Holds(stored[i].links, l)

\* Scheduling, with as many agents as there are: the next run is right, the
\* limit of a chat is passed by turns that overlap and by no others, a request
\* that is delivered twice adds one post unless both turns are at it at once,
\* and links are not lost
\* (pipeline/schedule/cron.py, actions.py, duplicates.py, urls.py).
ScheduleHolds ==
    NextIsNext /\ LinksPostedOnce /\ LinksAreKept /\ LimitIsKept

\* "чаще раза в {min_minutes} минут ты не постишь": no post comes more often
\* than once in MinGap (config/behavior/schedule/schedule.yaml:70).
PostsAreSpaced ==
    \A i \in DOMAIN stored :
        LET runs == RunsOf(stored[i].cron, stored[i].next, stored[i].next + SearchDays * DaySlots)
        IN  \A m, n \in runs : m < n => n - m >= MinGap
===============================================================================
