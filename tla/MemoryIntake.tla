---------------------------- MODULE MemoryIntake ----------------------------
(***************************************************************************)
(* How messages reach the knowledge vault.  After a reply, a job reads the *)
(* recent messages of the chat (MemoryStage, run by BackgroundExecutor or, *)
(* one at a time, by the worker); beside it, a poller sweeps over all rows *)
(* behind a cursor kept in the vault (SweepAnalyzer).  Both hand a         *)
(* transcript to the planner, a model call, and apply its plan.            *)
(*                                                                         *)
(* A row is its id.  Ids are given out before the transaction commits, so  *)
(* rows appear out of order (`open' holds those not committed yet).  What  *)
(* the plan says of a message is left out: a row is known once a plan made *)
(* from it has been applied.                                               *)
(*                                                                         *)
(* late, swept, planned and twice are history: rows committed behind the   *)
(* cursor, one that a poller has read or a batch in progress; rows whose   *)
(* window the sweep offered to the planner, whatever came of it; rows      *)
(* planned by jobs since the process started, and those planned twice.     *)
(***************************************************************************)
EXTENDS Naturals, Sequences, FiniteSets, FiniteSetsExt, SequencesExt, Ordering

CONSTANTS HerRows,             \* ids of her own rows: not swept
          Text,                \* what the prefilter sees in a row
          Runners,             \* the pollers; Home lives in the agent
          Home,
          Executors,           \* BackgroundExecutor._workers
          MaxJobsQueued,       \* background_queue_size
          Context,             \* messages a turn hands to its job
          HasCooldown,         \* knowledge_memory_cooldown_seconds > 0
          Interval, Batch, Window, Overlap,  \* knowledge_sweep_*
          MaxRow, MaxFails     \* bounds: ids, cycles and processes that fail

ASSUME IntakeAssumption ==
    /\ {Interval, Batch, Window} \subseteq Nat \ {0}
    /\ {Overlap, MaxRow, MaxFails, Context, MaxJobsQueued} \subseteq Nat
    /\ HasCooldown \in BOOLEAN
    /\ Home \in Runners
    /\ Text \in [1..MaxRow -> SUBSET {"contentful", "long", "quote", "specifics",
                                      "disclosure"}]

VARIABLES issued, open, stored,                        \* the messages table
          jobs, exec, mark, warm,                      \* the reply's side
          cursor, sweep,                               \* the sweep's side
          known, fails,
          late, swept, planned, twice                  \* history

table == <<issued, open, stored>>
replySide == <<jobs, exec, mark, warm, planned, twice>>
sweepSide == <<cursor, sweep, swept>>
intakeVars == <<table, replySide, sweepSide, known, fails, late>>

Ids == 1..MaxRow
Resting == [at |-> "idle", from |-> 0, got |-> <<>>, start |-> 0]

IntakeTypeOK ==
    /\ issued \in 0..MaxRow /\ open \subseteq Ids /\ stored \subseteq Ids
    /\ jobs \in Seq(SUBSET Ids) /\ exec \in [Executors -> SUBSET Ids]
    /\ mark \in 0..MaxRow /\ warm \in BOOLEAN
    /\ cursor \in 0..MaxRow
    /\ sweep \in [Runners -> [at : {"idle", "loaded", "windows"}, from : 0..MaxRow,
                              got : Seq(Ids), start : Nat]]
    /\ known \subseteq Ids /\ fails \in 0..MaxFails /\ late \subseteq Ids
    /\ swept \subseteq Ids /\ planned \subseteq Ids /\ twice \subseteq Ids

IntakeInit ==
    /\ issued = 0 /\ open = {} /\ stored = {}
    /\ jobs = <<>> /\ exec = [w \in Executors |-> {}]
    /\ mark = 0 /\ warm = FALSE
    /\ cursor = 0 /\ sweep = [r \in Runners |-> Resting]
    /\ known = {} /\ fails = 0 /\ late = {}
    /\ swept = {} /\ planned = {} /\ twice = {}
-----------------------------------------------------------------------------
(* A transaction inserts a row: the sequence gives it the next id.         *)
InsertRow ==
    /\ issued < MaxRow
    /\ issued' = issued + 1
    /\ open' = open \cup {issued + 1}
    /\ UNCHANGED <<stored, replySide, sweepSide, known, fails, late>>

BatchEnd(r) == Last(sweep[r].got)
Overtaken(i) ==
    \/ i <= cursor
    \/ \E r \in Runners : \/ i <= sweep[r].from
                          \/ sweep[r].at = "windows" /\ i < BatchEnd(r)

Recent(i) ==
    LET seen == stored \cup {i}
    IN  {j \in seen : Cardinality({k \in seen : k > j}) < Context}

(* Jobs beyond the queue's bound are dropped.                              *)
SubmitJob(job) == jobs' = IF Len(jobs) < MaxJobsQueued THEN Append(jobs, job) ELSE jobs

(* The row is committed.  A turn of it that is answered submits a job with *)
(* the messages it read; the others leave the row to the sweep.            *)
CommitRow(i, answered) ==
    /\ i \in open
    /\ open' = open \ {i}
    /\ stored' = stored \cup {i}
    /\ late' = IF Overtaken(i) THEN late \cup {i} ELSE late
    /\ IF answered THEN SubmitJob(Recent(i)) ELSE UNCHANGED jobs
    /\ UNCHANGED <<issued, exec, mark, warm, planned, twice, sweepSide, known, fails>>
-----------------------------------------------------------------------------
(* memory_prefilter.py: a score in tenths, and its threshold.  Contentful  *)
(* are messages of 40 characters, long are those of 200.                   *)
From(new) == new \ HerRows
With(new, sign) == {i \in new : sign \in Text[i]}
CountBonus(new) == 10 * Min({2, Cardinality(With(From(new), "contentful"))})
LongBonus(messages) == IF With(messages, "long") # {} THEN 5 ELSE 0
FlagBonus(new) ==
    (IF With(From(new), "quote") # {} THEN 3 ELSE 0)
    + (IF With(From(new), "specifics") # {} THEN 3 ELSE 0)
    + (IF With(From(new), "disclosure") # {} THEN 2 ELSE 0)
Score(new) ==
    CountBonus(new) + LongBonus(With(From(new), "contentful"))
        + LongBonus(new \cap HerRows) + FlagBonus(new)
ShouldExtract(new) == From(new) # {} /\ Score(new) >= 15

(* An executor takes a job: the cooldown, the watermark and the prefilter  *)
(* decide, before the model is called, what it will read.                  *)
NewMessages(job) == {i \in job : i > mark}

StageSkips(job) ==
    \/ warm
    \/ ~ShouldExtract(NewMessages(job))

TakeJob(w) ==
    /\ exec[w] = {} /\ jobs # <<>>
    /\ jobs' = Tail(jobs)
    /\ IF StageSkips(Head(jobs)) THEN UNCHANGED exec
       ELSE exec' = [exec EXCEPT ![w] = NewMessages(Head(jobs))]
    /\ UNCHANGED <<table, mark, warm, planned, twice, sweepSide, known, fails, late>>

\* Mutant of PlanJob: the watermark moves when the call fails, too.
PlanJobMarks(w, outcome) ==
    /\ exec[w] # {}
    /\ exec' = [exec EXCEPT ![w] = {}]
    /\ mark' = Max(exec[w])
    /\ IF outcome = "noplan" THEN UNCHANGED <<warm, planned, twice>>
       ELSE /\ warm' = HasCooldown
            /\ planned' = planned \cup exec[w]
            /\ twice' = twice \cup (planned \cap exec[w])
    /\ known' = IF outcome = "written" THEN known \cup exec[w] ELSE known
    /\ UNCHANGED <<table, jobs, sweepSide, fails, late>>

(* The planner answers: the cooldown starts and the watermark moves before *)
(* the plan is applied, which may fail.  Without a plan neither happens.   *)
PlanJob(w, outcome) ==
    /\ exec[w] # {}
    /\ exec' = [exec EXCEPT ![w] = {}]
    /\ IF outcome = "noplan" THEN UNCHANGED <<mark, warm, planned, twice>>
       ELSE /\ mark' = Max(exec[w])
            /\ warm' = HasCooldown
            /\ planned' = planned \cup exec[w]
            /\ twice' = twice \cup (planned \cap exec[w])
    /\ known' = IF outcome = "written" THEN known \cup exec[w] ELSE known
    /\ UNCHANGED <<table, jobs, sweepSide, fails, late>>

CooldownEnds ==
    /\ warm
    /\ warm' = FALSE
    /\ UNCHANGED <<table, jobs, exec, mark, planned, twice, sweepSide, known, fails, late>>
-----------------------------------------------------------------------------
SetSweep(r, s) == sweep' = [sweep EXCEPT ![r] = s]

LoadCursor(r) ==
    /\ sweep[r].at = "idle"
    /\ SetSweep(r, [Resting EXCEPT !.at = "loaded", !.from = cursor])
    /\ UNCHANGED <<table, replySide, cursor, swept, known, fails, late>>

(* MessageRepository.get_newer_than: users' rows, ascending, limited.      *)
NewerThan(i) ==
    LET newer == Ascending({j \in stored \ HerRows : j > i})
    IN  SubSeq(newer, 1, Min({Batch, Len(newer)}))

\* Mutant of Fetch: exactly the interval is too few.
FetchMore(r) ==
    /\ sweep[r].at = "loaded"
    /\ LET got == NewerThan(sweep[r].from)
       IN  SetSweep(r, IF Len(got) <= Interval THEN Resting
                       ELSE [sweep[r] EXCEPT !.at = "windows", !.got = got])
    /\ UNCHANGED <<table, replySide, cursor, swept, known, fails, late>>

(* SweepAnalyzer.run up to its windows: too few rows end the cycle.        *)
Fetch(r) ==
    /\ sweep[r].at = "loaded"
    /\ LET got == NewerThan(sweep[r].from)
       IN  SetSweep(r, IF Len(got) < Interval THEN Resting
                       ELSE [sweep[r] EXCEPT !.at = "windows", !.got = got])
    /\ UNCHANGED <<table, replySide, cursor, swept, known, fails, late>>

Step == IF Overlap < Window THEN Window - Overlap ELSE 1

(* The window that chunk_windows cut at `start'.                           *)
WindowAt(got, start) == SubSeq(got, start + 1, Min({start + Window, Len(got)}))

(* One round of _process_windows: whatever fails, the loop goes on.        *)
SweepWindow(r, ok) ==
    /\ sweep[r].at = "windows"
    /\ sweep[r].start < Len(sweep[r].got)
    /\ LET window == ToSet(WindowAt(sweep[r].got, sweep[r].start))
       IN  /\ swept' = swept \cup window
           /\ known' = IF ok THEN known \cup window ELSE known
    /\ SetSweep(r, [sweep[r] EXCEPT !.start = @ + Step])
    /\ UNCHANGED <<table, replySide, cursor, fails, late>>

\* Mutant of SaveCursor: the cursor is the first id not read.
SaveNext(r) ==
    /\ sweep[r].at = "windows"
    /\ sweep[r].start >= Len(sweep[r].got)
    /\ cursor' = BatchEnd(r) + 1
    /\ SetSweep(r, Resting)
    /\ UNCHANGED <<table, replySide, swept, known, fails, late>>

SaveCursor(r) ==
    /\ sweep[r].at = "windows"
    /\ sweep[r].start >= Len(sweep[r].got)
    /\ cursor' = BatchEnd(r)
    /\ SetSweep(r, Resting)
    /\ UNCHANGED <<table, replySide, swept, known, fails, late>>

(* SweepWorker.run_forever: a cycle that raises starts over at its cursor. *)
CycleFails(r) ==
    /\ sweep[r].at # "idle" /\ fails < MaxFails
    /\ fails' = fails + 1
    /\ SetSweep(r, Resting)
    /\ UNCHANGED <<table, replySide, cursor, swept, known, late>>

(* The agent restarts: queue, jobs, watermark and cooldown are lost.       *)
AgentRestart ==
    /\ fails < MaxFails
    /\ fails' = fails + 1
    /\ jobs' = <<>> /\ exec' = [w \in Executors |-> {}]
    /\ mark' = 0 /\ warm' = FALSE
    /\ planned' = {} /\ twice' = {}
    /\ SetSweep(Home, Resting)
    /\ UNCHANGED <<table, cursor, swept, known, late>>

SweepStep(r) ==
    LoadCursor(r) \/ Fetch(r) \/ SaveCursor(r) \/ \E ok \in BOOLEAN : SweepWindow(r, ok)

IntakeNext ==
    \/ InsertRow \/ CooldownEnds \/ AgentRestart
    \/ \E i \in Ids, answered \in BOOLEAN : CommitRow(i, answered)
    \/ \E w \in Executors : TakeJob(w)
    \/ \E w \in Executors, o \in {"noplan", "unwritten", "written"} : PlanJob(w, o)
    \/ \E r \in Runners : SweepStep(r) \/ CycleFails(r)

IntakeFairness == \A r \in Runners : WF_intakeVars(SweepStep(r))
IntakeSpec == IntakeInit /\ [][IntakeNext]_intakeVars /\ IntakeFairness
-----------------------------------------------------------------------------
(* The cursor passes no row in silence: a row behind it was in a window    *)
(* that the planner was asked about, or it was committed too late to be    *)
(* seen, however many pollers share the cursor and whichever crash.        *)
(* (sweep.py, SweepAnalyzer.run)                                           *)
PassedRowsWereOffered ==
    \A i \in stored \ HerRows : i <= cursor => i \in swept \cup late

(* chunk_windows: messages next to each other are read next to each other, *)
(* as far as the overlap reaches and the batch has them.                   *)
NeighboursShareAWindow ==
    \A r \in Runners :
        LET got == sweep[r].got
            starts == {s \in 0..Len(got) : s % Step = 0}
        IN  sweep[r].at = "windows" =>
                \A i \in DOMAIN got :
                    i + Overlap <= Len(got) /\ Overlap < Window =>
                        \E s \in starts :
                            ToSet(SubSeq(got, i, i + Overlap))
                                \subseteq ToSet(WindowAt(got, s))

(* A message that the planner failed on is not marked as read: the mark    *)
(* is at a message that was planned in this life of the process.           *)
(* (memory_stage.py: a transient LLM error must not drop these messages)   *)
MarkedWasPlanned == mark > 0 => mark \in planned

(* No message is read twice by the jobs, where one of them runs at a time. *)
(* (memory_stage.py: no repeated analysis of the same window)              *)
NoRepeatedAnalysis == twice = {}
OneAtATime == \A v, w \in Executors : v = w

(* The sweep comes around: it never rests for good on as many rows as a    *)
(* cycle asks for.  (sweep.py, SweepWorker)                                *)
SweepCatchesUp ==
    []<>(Cardinality({i \in stored \ HerRows : i > cursor}) < Interval)

(* The prefilter must never block genuinely memorable content, quotes for  *)
(* one: a job with a new contentful quote is read.  (memory_prefilter.py)  *)
QuotesPassThePrefilter ==
    [][\A w \in Executors :
          TakeJob(w) /\ ~warm
          /\ (\E i \in From(NewMessages(Head(jobs))) : {"contentful", "quote"} \subseteq Text[i])
              => exec'[w] # {}]_intakeVars

(* The periodic sweep remains the durable fallback for missed messages:    *)
(* a row it has passed is known.  (memory_stage.py)                        *)
SweepIsDurable == \A i \in stored \ HerRows : i <= cursor => i \in known \cup late

(* Both readers of the history, the sweep with its cursor and the job with *)
(* its mark, pass no message unread and read none twice.                   *)
MessagesAreReadOnce ==
    /\ PassedRowsWereOffered
    /\ NeighboursShareAWindow
    /\ MarkedWasPlanned
    /\ OneAtATime => NoRepeatedAnalysis
=============================================================================
