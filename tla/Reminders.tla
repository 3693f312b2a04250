------------------------------- MODULE Reminders -------------------------------
(***************************************************************************)
(* The posts Vanessa schedules for herself: the table (add and cancel by a *)
(* turn of the agent, pipeline/schedule/actions.py), the worker's fire and *)
(* advance tick (services/worker/reminders/scheduler.py) and the bot's     *)
(* outbound consumer, which drops a message_id it saw less than the dedup  *)
(* TTL ago.                                                                *)
(*                                                                         *)
(* A tick is one database transaction over many steps: the rows it claims  *)
(* stay locked until its commit, while time passes, the language model     *)
(* retells each post and the broker is called.  Two workers overlap in a   *)
(* rolling restart.  The stream itself is modelled in StreamDelivery; here *)
(* it only queues copies and hands them to the bot in any order.           *)
(***************************************************************************)
EXTENDS Integers, FiniteSets

CONSTANTS Rows,       \* row ids, in the order of the primary key
          Period,       \* the cron of each row as a period, 0 for a one-shot
          Workers,      \* worker processes
          Nobody,       \* the owner of a row lock nobody holds
          BatchSize,    \* rows a tick claims at most
          MaxLate,      \* a post more late than this is skipped
          DedupTtl,     \* seconds of a dedup key, in clock steps
          MaxTime,      \* bound: the last moment
          Many          \* bound: copies and posts of a run are told apart up to it

ASSUME RemindersAssumption ==
    /\ Rows \subseteq Nat
    /\ Period \in [Rows -> Nat]
    /\ Nobody \notin Workers
    /\ {BatchSize, MaxLate, DedupTtl, MaxTime, Many} \subseteq Nat

VARIABLES
    now,
    status,      \* of each row
    next,        \* next_run_at, as committed
    lock,        \* the tick that has the row FOR UPDATE
    wpc,         \* where each worker's tick is
    tick,        \* the "now" of each worker's tick
    todo,        \* claimed rows it has not fired
    moved,       \* claimed rows its session advanced, uncommitted
    queued,      \* copies of a run on the outbound stream
    keyUntil,    \* when the dedup key of a run expires
    \* History
    posts,       \* times the bot sent a run to the chat
    sent,        \* runs that were published
    settled,     \* runs a commit moved on from, or of a cancelled row
    late         \* runs published although settled

table   == <<status, next, lock>>
workers == <<wpc, tick, todo, moved>>
bot     == <<queued, keyUntil, posts>>
history == <<sent, settled, late>>
vars == <<now, table, workers, bot, history>>

LastRun == MaxTime + 1
Runs == Rows \X (0 .. LastRun)

TypeOK ==
    /\ now \in 0 .. MaxTime
    /\ status \in [Rows -> {"absent", "live", "gone"}]
    /\ next \in [Rows -> 0 .. LastRun]
    /\ lock \in [Rows -> Workers \cup {Nobody}]
    /\ wpc \in [Workers -> {"sleep", "fire"}]
    /\ tick \in [Workers -> 0 .. MaxTime]
    /\ todo \in [Workers -> SUBSET Rows]
    /\ moved \in [Workers -> SUBSET Rows]
    /\ \A w \in Workers : todo[w] \cup moved[w] \subseteq {r \in Rows : lock[r] = w}
    /\ queued \in [Runs -> 0 .. Many]
    /\ keyUntil \in [Runs -> 0 .. MaxTime + DedupTtl]
    /\ posts \in [Runs -> 0 .. Many]
    /\ sent \subseteq Runs
    /\ settled \subseteq Runs
    /\ late \subseteq Runs

Init ==
    /\ now = 0
    /\ status = [r \in Rows |-> "absent"]
    /\ next = [r \in Rows |-> 0]
    /\ lock = [r \in Rows |-> Nobody]
    /\ wpc = [w \in Workers |-> "sleep"]
    /\ tick = [w \in Workers |-> 0]
    /\ todo = [w \in Workers |-> {}]
    /\ moved = [w \in Workers |-> {}]
    /\ queued = [id \in Runs |-> 0]
    /\ keyUntil = [id \in Runs |-> 0]
    /\ posts = [id \in Runs |-> 0]
    /\ sent = {} /\ settled = {} /\ late = {}

OneMore(n) == IF n < Many THEN n + 1 ELSE n

Pass ==
    /\ now < MaxTime
    /\ now' = now + 1
    /\ UNCHANGED <<table, workers, bot, history>>

-----------------------------------------------------------------------------
(* The agent's turns *)

\* first_run refuses a moment that is not in the future.  Rows are the posts a
\* chat may have (max_per_chat), each with a text of its own (no duplicates).
Add(r, run) ==
    /\ status[r] = "absent"
    /\ run > now
    /\ status' = [status EXCEPT ![r] = "live"]
    /\ next' = [next EXCEPT ![r] = run]
    /\ UNCHANGED <<now, lock, workers, bot, history>>

\* Mutant: a cancel that overwrites the row of a running tick.
CancelUnlocked(r) ==
    /\ status[r] = "live"
    /\ status' = [status EXCEPT ![r] = "gone"]
    /\ settled' = settled \cup {<<r, next[r]>>}
    /\ UNCHANGED <<now, next, lock, workers, bot, sent, late>>

\* The DELETE waits for the row lock of a tick that has the row.
Cancel(r) ==
    /\ status[r] = "live"
    /\ lock[r] = Nobody
    /\ status' = [status EXCEPT ![r] = "gone"]
    /\ settled' = settled \cup {<<r, next[r]>>}
    /\ UNCHANGED <<now, next, lock, workers, bot, sent, late>>

-----------------------------------------------------------------------------
(* The worker's tick *)

Due(r) == status[r] = "live" /\ next[r] <= now

Before(r, s) == next[r] < next[s] \/ (next[r] = next[s] /\ r < s)

\* The oldest runs of a set of rows, as many as a batch has.
FirstOf(S) == {r \in S : Cardinality({s \in S : Before(s, r)}) < BatchSize}

\* Mutant: claim_due without FOR UPDATE SKIP LOCKED.
ClaimUnlocked(w) ==
    /\ wpc[w] = "sleep"
    /\ \E r \in Rows : Due(r)
    /\ todo' = [todo EXCEPT ![w] = FirstOf({r \in Rows : Due(r)})]
    /\ tick' = [tick EXCEPT ![w] = now]
    /\ wpc' = [wpc EXCEPT ![w] = "fire"]
    /\ UNCHANGED <<now, table, moved, bot, history>>

Claim(w) ==
    LET free == {r \in Rows : Due(r) /\ lock[r] = Nobody}
    IN  /\ wpc[w] = "sleep"
        /\ free # {}
        /\ todo' = [todo EXCEPT ![w] = FirstOf(free)]
        /\ lock' = [r \in Rows |-> IF r \in FirstOf(free) THEN w ELSE lock[r]]
        /\ tick' = [tick EXCEPT ![w] = now]
        /\ wpc' = [wpc EXCEPT ![w] = "fire"]
        /\ UNCHANGED <<now, status, next, moved, bot, history>>

\* The row a tick fires next.
Turn(w, r) ==
    /\ wpc[w] = "fire"
    /\ r \in todo[w]
    /\ \A s \in todo[w] : s = r \/ Before(r, s)

TooLate(w, r) == tick[w] - next[r] > MaxLate

\* A post more than MaxLate late only moves on.
SkipStale(w, r) ==
    /\ Turn(w, r)
    /\ TooLate(w, r)
    /\ todo' = [todo EXCEPT ![w] = @ \ {r}]
    /\ moved' = [moved EXCEPT ![w] = @ \cup {r}]
    /\ UNCHANGED <<now, table, wpc, tick, bot, history>>

\* XADD to the outbound stream, under the message_id of the run.
Enqueue(r) ==
    LET id == <<r, next[r]>>
    IN  /\ queued' = [queued EXCEPT ![id] = OneMore(@)]
        /\ sent' = sent \cup {id}
        /\ late' = IF id \in settled THEN late \cup {id} ELSE late
        /\ UNCHANGED <<keyUntil, posts, settled>>

\* compose always has a text; the publish is answered.
Post(w, r) ==
    /\ Turn(w, r)
    /\ ~TooLate(w, r)
    /\ Enqueue(r)
    /\ todo' = [todo EXCEPT ![w] = @ \ {r}]
    /\ moved' = [moved EXCEPT ![w] = @ \cup {r}]
    /\ UNCHANGED <<now, table, wpc, tick>>

\* Mutant: the row moves on although the publish failed.
PostFailsButMoves(w, r) ==
    /\ Turn(w, r)
    /\ ~TooLate(w, r)
    /\ Enqueue(r) \/ UNCHANGED <<bot, history>>
    /\ todo' = [todo EXCEPT ![w] = @ \ {r}]
    /\ moved' = [moved EXCEPT ![w] = @ \cup {r}]
    /\ UNCHANGED <<now, table, wpc, tick>>

\* The publish raises, applied or not: the row stays for the next tick.
PostFails(w, r) ==
    /\ Turn(w, r)
    /\ ~TooLate(w, r)
    /\ Enqueue(r) \/ UNCHANGED <<bot, history>>
    /\ todo' = [todo EXCEPT ![w] = @ \ {r}]
    /\ UNCHANGED <<now, table, wpc, tick, moved>>

\* The first run of r after the tick and after its current run.
NextRun(w, r) ==
    LET after == IF tick[w] > next[r] THEN tick[w] ELSE next[r]
    IN  next[r] + Period[r] * ((after - next[r]) \div Period[r] + 1)

\* Whether r has no other run (within the bound of the model).
Ends(w, r) == Period[r] = 0 \/ NextRun(w, r) > LastRun

EndTick(w) ==
    /\ lock' = [r \in Rows |-> IF lock[r] = w THEN Nobody ELSE lock[r]]
    /\ wpc' = [wpc EXCEPT ![w] = "sleep"]
    /\ tick' = [tick EXCEPT ![w] = 0]
    /\ todo' = [todo EXCEPT ![w] = {}]
    /\ moved' = [moved EXCEPT ![w] = {}]
    /\ UNCHANGED <<now, bot, sent, late>>

\* Recurring rows move to their next run, one-shot rows go.
Write(w) ==
    /\ status' = [r \in Rows |-> IF r \in moved[w] /\ Ends(w, r)
                                 THEN "gone" ELSE status[r]]
    /\ next' = [r \in Rows |-> IF r \in moved[w] /\ ~Ends(w, r)
                               THEN NextRun(w, r) ELSE next[r]]
    /\ settled' = settled \cup {<<r, next[r]>> : r \in moved[w]}

\* Mutant: the session is never committed.
CommitForgotten(w) ==
    /\ wpc[w] = "fire"
    /\ todo[w] = {}
    /\ UNCHANGED <<status, next, settled>>
    /\ EndTick(w)

Commit(w) ==
    /\ wpc[w] = "fire"
    /\ todo[w] = {}
    /\ Write(w)
    /\ EndTick(w)

\* The commit fails, or the worker dies in its tick: the transaction rolls
\* back, whatever was published.
Abort(w) ==
    /\ wpc[w] = "fire"
    /\ UNCHANGED <<status, next, settled>>
    /\ EndTick(w)

-----------------------------------------------------------------------------
(* The bot *)

TakeCopy(id) ==
    /\ queued[id] > 0
    /\ queued' = [queued EXCEPT ![id] = @ - 1]

Known(id) == keyUntil[id] > now

Deliver(id) ==
    /\ TakeCopy(id)
    /\ ~Known(id)
    /\ keyUntil' = [keyUntil EXCEPT ![id] = now + DedupTtl]
    /\ posts' = [posts EXCEPT ![id] = OneMore(@)]
    /\ UNCHANGED <<now, table, workers, history>>

Drop(id) ==
    /\ TakeCopy(id)
    /\ Known(id)
    /\ UNCHANGED <<now, table, workers, keyUntil, posts, history>>

-----------------------------------------------------------------------------
Fire(w, r) == SkipStale(w, r) \/ Post(w, r)

Next ==
    \/ Pass
    \/ \E r \in Rows : Cancel(r) \/ \E run \in 1 .. MaxTime : Add(r, run)
    \/ \E w \in Workers :
          \/ Claim(w) \/ Commit(w) \/ Abort(w)
          \/ \E r \in Rows : Fire(w, r) \/ PostFails(w, r)
    \/ \E id \in Runs : Deliver(id) \/ Drop(id)

Spec == Init /\ [][Next]_vars

\* run_forever goes on after every exception, and the broker and the database
\* do not refuse forever.
Fairness ==
    /\ \A w \in Workers :
          /\ WF_vars(Claim(w))
          /\ WF_vars(Commit(w) \/ \E r \in Rows : Fire(w, r) \/ PostFails(w, r))
    /\ \A r \in Rows :
          /\ SF_vars(\E w \in Workers : Fire(w, r))
          /\ SF_vars(\E w \in Workers : r \in moved[w] /\ Commit(w))

FairSpec == Spec /\ Fairness

-----------------------------------------------------------------------------
(* Properties *)

\* A run that was committed away, or whose row was cancelled, is not published
\* any more: neither a tick that overlaps with another worker's nor one that
\* was under way when the cancel came posts it again.
SettledStaysSilent == late = {}

\* A row leaves a run only when the run was published or was too late to be:
\* a publish that fails, a commit that fails and a worker that dies keep it.
RunsAreNotForgotten ==
    [][\A r \in Rows :
          lock[r] # Nobody /\ (status'[r] # status[r] \/ next'[r] # next[r]) =>
             <<r, next[r]>> \in sent \/ TooLate(lock[r], r)]_vars

\* No post stays due forever: ticks that fail, roll back or are cut off by a
\* restart end in one that moves the row on, and no row starves behind an
\* earlier one in its batch.
NothingStaysDue == \A r \in Rows : Due(r) ~> ~Due(r)

\* scheduler.py: "the bot drops a duplicate if a commit fails after a publish".
RunPostedOnce == \A id \in Runs : posts[id] <= 1
===============================================================================
