---------------------------- MODULE StreamJanitor -----------------------------
(***************************************************************************)
(* The retention pass of the worker (janitor.py, consumers.py,             *)
(* retention.py) running beside the delivery loops of StreamDelivery: it   *)
(* dead-letters pending entries nobody touched for the retention window,   *)
(* trims handled entries by age, and removes idle consumer names.  Its     *)
(* answers from Redis go stale between its commands: every command is a    *)
(* step of its own.                                                        *)
(*                                                                         *)
(* No clock is kept.  What the janitor reads off it is any choice that     *)
(* respects the order of events: the entries older than the retention      *)
(* window are the first few (stream ids are timestamps), any entries may   *)
(* have been pending for as long by the time Redis is asked for them, and  *)
(* a consumer has been idle only if it may have been away from Redis.      *)
(***************************************************************************)
EXTENDS StreamDelivery

CONSTANT Stalling   \* the consumers whose live process may stay away from
                    \* Redis for consumer_idle_seconds

ASSUME StallingAssumption == Stalling \subseteq Consumers

VARIABLES
    jpc,        \* the janitor's next command
    jold,       \* the newest entry older than the window by the server clock
    jgroup,     \* whether XINFO GROUPS listed the group
    jbury,      \* XPENDING's answer: the entries left to dead-letter
    jcut,       \* trim cut-off: entries below it go
    jprune,     \* XINFO CONSUMERS' answer: the names left to remove
    \* History
    trimmed,    \* entries XTRIM MINID dropped
    dropped     \* pending entries and the removed consumer they went with

janitorVars == <<jpc, jold, jgroup, jbury, jcut, jprune>>
historyVars == <<trimmed, dropped>>
jvars == <<vars, janitorVars, historyVars>>

JTypeOK ==
    /\ TypeOK
    /\ jpc \in {"rest", "list", "bury", "ack", "pending", "trim",
                "consumers", "prune"}
    /\ jold \in 0 .. MaxEntries
    /\ jgroup \in BOOLEAN
    /\ jbury \subseteq Ids
    /\ jcut \in 0 .. MaxEntries + 1
    /\ jprune \subseteq Consumers
    /\ trimmed \subseteq Ids
    /\ dropped \subseteq Ids \X Consumers

JInit ==
    /\ Init
    /\ jpc = "rest" /\ jold = 0 /\ jgroup = FALSE
    /\ jbury = {} /\ jcut = 0 /\ jprune = {}
    /\ trimmed = {} /\ dropped = {}

Pending == {i \in Ids : owner[i] # Nobody}

\* ensure_group runs before a loop's first read, so the group is there once
\* some consumer has started.
Grouped == \E c \in Consumers : pc[c] # "new"

-----------------------------------------------------------------------------
(* The pass *)

BeginPass ==
    /\ jpc = "rest"
    /\ jold' \in 0 .. top
    /\ jpc' = "list"
    /\ UNCHANGED <<vars, jgroup, jbury, jcut, jprune, historyVars>>

\* Mutant: looks only at the entries of consumers that are still up.
ListStaleOfLive ==
    /\ jpc = "list"
    /\ jbury' \in SUBSET {i \in Pending : pc[owner[i]] # "down"}
    /\ jpc' = "bury"
    /\ UNCHANGED <<vars, jold, jgroup, jcut, jprune, historyVars>>

\* XINFO GROUPS, then XPENDING IDLE of the group if it has pending entries: the
\* entries pending for the whole window, by the clock of this command.  (One
\* that becomes pending between the two commands is not, so they are one step.)
ListStale ==
    /\ jpc = "list"
    /\ jbury' \in SUBSET Pending
    /\ jpc' = "bury"
    /\ UNCHANGED <<vars, jold, jgroup, jcut, jprune, historyVars>>

\* Mutant: acks abandoned entries without a DLQ copy.
BuryWithoutCopy(i) ==
    /\ jpc = "bury"
    /\ i \in jbury
    /\ \A j \in jbury : i <= j
    /\ jpc' = "ack"
    /\ UNCHANGED <<vars, jold, jgroup, jbury, jcut, jprune, historyVars>>

\* XRANGE, then XADD of its answer to the DLQ; an entry that is no longer in
\* the stream is only acked.  (What happens to the entry between the two
\* commands changes neither, so they are one step.)
BuryAbandoned(i) ==
    /\ jpc = "bury"
    /\ i \in jbury
    /\ \A j \in jbury : i <= j
    /\ dlq' = IF i \in stream THEN dlq \cup {i} ELSE dlq
    /\ jpc' = "ack"
    /\ UNCHANGED <<streamVars, groupVars, guardVars, loopVars, handled,
                   jold, jgroup, jbury, jcut, jprune, historyVars>>

\* The XACK: no XDEL here, even on a delete_on_ack stream.
AckAbandoned(i) ==
    /\ jpc = "ack"
    /\ i \in jbury
    /\ \A j \in jbury : i <= j
    /\ owner' = [owner EXCEPT ![i] = Nobody]
    /\ jbury' = jbury \ {i}
    /\ jpc' = "bury"
    /\ UNCHANGED <<streamVars, delivered, taken, guardVars, loopVars, dlq,
                   handled, jold, jgroup, jcut, jprune, historyVars>>

\* trim_cutoff: the age cut-off, and with a group no further than the first
\* entry it has not been delivered.  XINFO GROUPS also says whether anything
\* is pending; only then the oldest pending entry is asked for.
ListGroups ==
    /\ jpc = "bury"
    /\ jbury = {}
    /\ jgroup' = Grouped
    /\ jcut' = IF Grouped /\ delivered < jold THEN delivered + 1 ELSE jold + 1
    /\ jpc' = IF Grouped /\ Pending # {} THEN "pending" ELSE "trim"
    /\ UNCHANGED <<vars, jold, jbury, jprune, historyVars>>

\* Mutant: the age cut-off is not capped by the pending entries.
OldestPendingIgnored ==
    /\ jpc = "pending"
    /\ jpc' = "trim"
    /\ UNCHANGED <<vars, jold, jgroup, jbury, jcut, jprune, historyVars>>

OldestPending ==
    /\ jpc = "pending"
    /\ \/ /\ Pending = {}
          /\ UNCHANGED jcut
       \/ \E i \in Pending :
             /\ \A j \in Pending : i <= j
             /\ jcut' = IF i < jcut THEN i ELSE jcut
    /\ jpc' = "trim"
    /\ UNCHANGED <<vars, jold, jgroup, jbury, jprune, historyVars>>

\* XTRIM MINID jcut, exact.
Trim ==
    /\ jpc = "trim"
    /\ stream' = {i \in stream : i >= jcut}
    /\ trimmed' = trimmed \cup {i \in stream : i < jcut}
    /\ jpc' = "consumers"
    /\ UNCHANGED <<top, body, evicted, groupVars, guardVars, loopVars, dlq,
                   handled, jold, jgroup, jbury, jcut, jprune,
                   dropped>>

\* A consumer that polls is not idle.  One that is gone may be, and so may a
\* live one that was suspended, cut off from Redis or busy in one handler for
\* that long (with the entry buried under it, since its name has none left).
MayBeIdle(c) ==
    \/ pc[c] = "down"
    \/ pc[c] = "fallen" /\ ~LoopRestarts
    \/ pc[c] # "new" /\ c \in Stalling

\* Mutant: removes idle names whatever they still hold.
ListIdleHolding ==
    /\ jpc = "consumers"
    /\ jprune' \in SUBSET {c \in Consumers : MayBeIdle(c)}
    /\ jpc' = "prune"
    /\ UNCHANGED <<vars, jold, jgroup, jbury, jcut, historyVars>>

\* XINFO CONSUMERS: names with nothing pending, idle for long enough.
ListIdle ==
    /\ jpc = "consumers"
    /\ jprune' \in SUBSET {c \in Consumers :
                              MayBeIdle(c) /\ \A i \in Ids : owner[i] # c}
    /\ jpc' = "prune"
    /\ UNCHANGED <<vars, jold, jgroup, jbury, jcut, historyVars>>

\* XGROUP DELCONSUMER drops whatever the consumer holds by now.
Prune(c) ==
    /\ jpc = "prune"
    /\ c \in jprune
    /\ owner' = [i \in Ids |-> IF owner[i] = c THEN Nobody ELSE owner[i]]
    /\ dropped' = dropped \cup ({i \in Ids : owner[i] = c} \X {c})
    /\ jprune' = jprune \ {c}
    /\ UNCHANGED <<streamVars, delivered, taken, guardVars, loopVars, dlq,
                   handled, jpc, jold, jgroup, jbury, jcut, trimmed>>

ToRest ==
    /\ jpc' = "rest" /\ jold' = 0 /\ jgroup' = FALSE
    /\ jbury' = {} /\ jcut' = 0 /\ jprune' = {}
    /\ UNCHANGED <<vars, historyVars>>

EndPass == jpc = "prune" /\ jprune = {} /\ ToRest

\* A command raises, applied or not, or the worker is restarted: run_forever
\* sleeps and starts over.
FailPass == jpc # "rest" /\ ToRest

Janitor ==
    \/ BeginPass \/ ListStale \/ ListGroups \/ OldestPending \/ Trim
    \/ ListIdle \/ EndPass \/ FailPass
    \/ \E i \in Ids : BuryAbandoned(i) \/ AckAbandoned(i)
    \/ \E c \in Consumers : Prune(c)

-----------------------------------------------------------------------------
JNext ==
    \/ Next /\ UNCHANGED <<janitorVars, historyVars>>
    \/ Janitor

JSpec == JInit /\ [][JNext]_jvars

\* Scheduling: a live process goes on with its loop, the janitor's loop never
\* ends, Redis does not refuse the same command forever, and time passes: an
\* entry that stays pending is on the list again and again.
Loop(A) == A /\ UNCHANGED <<janitorVars, historyVars>>

Working(c) ==
    \/ Answered(c) \/ ReadFails(c) \/ AcquireFails(c)
    \/ BuryFails(c) \/ AckFails(c)

Fairness ==
    /\ \A c \in Consumers :
          /\ WF_jvars(Loop(Working(c)))
          /\ SF_jvars(Loop(Read(c)))
    /\ WF_jvars(Janitor)
    /\ \A i \in Ids :
          /\ SF_jvars(ListStale /\ i \in jbury')
          /\ SF_jvars(BuryAbandoned(i))
          /\ SF_jvars(AckAbandoned(i))

FairJSpec == JSpec /\ Fairness

-----------------------------------------------------------------------------
(* Properties *)

\* Between XINFO GROUPS and XTRIM the loops read and ack on, yet the cut-off
\* stays below every entry a consumer holds and every entry the group was not
\* delivered: trimming never takes either from a stream that had its group.
CutoffIsSafe ==
    jpc = "trim" /\ jgroup => \A i \in Unread \cup Pending : jcut <= i

\* A name is removed with entries in hand only if its process stayed away
\* from Redis for consumer_idle_seconds and came back between XINFO CONSUMERS
\* and XGROUP DELCONSUMER.
RemovedHeldNothing == \A d \in dropped : d[2] \in Stalling

\* With the janitor acking other consumers' entries too, an entry still
\* leaves the group only with a trace, unless its consumer was removed under
\* it or a stream without a group was trimmed.
NoSilentLossJ ==
    LET Traced(i) == \/ Accounted(i)
                     \/ i \in trimmed
                     \/ \E c \in Consumers : <<i, c>> \in dropped
    IN  DlqEnabled =>
            \A i \in taken :
                Traced(i) \/ \E j \in Ids : TookKeyFrom(j, i) /\ Traced(j)

\* Dead consumers, lost answers and failed acks leave entries pending that
\* nobody will read again; while some consumer stays up, every entry still
\* leaves the group in the end, through a consumer or through the janitor.
EntriesSettle ==
    (\E c \in Consumers : <>[](pc[c] \notin {"new", "down"})) =>
        \A i \in Ids :
            (i <= top) ~> \/ i \in evicted \cup trimmed
                          \/ i \in taken /\ owner[i] = Nobody

\* What retention.py documents: an entry no consumer has read yet, or that a
\* consumer still holds, always stays in the stream.
TrimSparesUnsettled ==
    [][jpc = "trim" /\ jpc' = "consumers" =>
         \A i \in stream \ stream' : i \in taken /\ owner[i] = Nobody]_jvars
===============================================================================
