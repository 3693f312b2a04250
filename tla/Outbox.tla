------------------------------- MODULE Outbox -------------------------------
(***************************************************************************)
(* The transactional outbox: rows staged with the writes they belong to    *)
(* are published to the broker by relays, one in each process.  A relay    *)
(* claims a batch with FOR UPDATE SKIP LOCKED, publishes its rows one      *)
(* after the other, and commits what became of all of them at the end;     *)
(* nothing it notes is there before that.                                  *)
(*                                                                         *)
(* A row is its number.  batch[r] is what relay r has locked and not tried *)
(* yet, note[r] what it will commit.  copies and crashes are history: the  *)
(* entries of a row in the stream and the transactions that were lost.     *)
(***************************************************************************)
EXTENDS Naturals, FiniteSets, FiniteSetsExt

CONSTANTS Relays,
          RelayBatch, MaxAttempts,  \* outbox_batch_size, outbox_max_attempts
          MaxStaged, MaxCrashes     \* bounds: rows, transactions that are lost

ASSUME OutboxAssumption ==
    /\ RelayBatch \in Nat \ {0} /\ MaxAttempts \in Nat \ {0}
    /\ MaxStaged \in Nat /\ MaxCrashes \in Nat

VARIABLES staged, delivery, attempts, batch, note, copies, crashes
outboxVars == <<staged, delivery, attempts, batch, note, copies, crashes>>

Staged == 1..MaxStaged
Verdicts == {"delivered", "failed"}
Notes == UNION {[S -> Verdicts] : S \in SUBSET Staged}

OutboxTypeOK ==
    /\ staged \in 0..MaxStaged
    /\ delivery \in [Staged -> {"none", "pending", "delivered", "failed"}]
    /\ attempts \in [Staged -> 0..MaxAttempts]
    /\ batch \in [Relays -> SUBSET Staged]
    /\ note \in [Relays -> Notes]
    /\ copies \in [Staged -> 0..(MaxAttempts + MaxCrashes)]
    /\ crashes \in 0..MaxCrashes

Nothing == [e \in {} |-> "failed"]

OutboxInit ==
    /\ staged = 0
    /\ delivery = [e \in Staged |-> "none"]
    /\ attempts = [e \in Staged |-> 0]
    /\ batch = [r \in Relays |-> {}]
    /\ note = [r \in Relays |-> Nothing]
    /\ copies = [e \in Staged |-> 0]
    /\ crashes = 0
-----------------------------------------------------------------------------
(* OutboxRepository.add, committed with the write it belongs to.           *)
Stage ==
    /\ staged < MaxStaged
    /\ staged' = staged + 1
    /\ delivery' = [delivery EXCEPT ![staged + 1] = "pending"]
    /\ UNCHANGED <<attempts, batch, note, copies, crashes>>

Locked == UNION {batch[r] \cup DOMAIN note[r] : r \in Relays}
AtRest(r) == batch[r] = {} /\ note[r] = Nothing

\* Mutant of Claimable: the rows that another relay has locked are claimed.
ClaimableLocked == {e \in Staged : delivery[e] = "pending"}
Claimable == {e \in Staged : delivery[e] = "pending"} \ Locked

Oldest(rows) == {e \in rows : Cardinality({d \in rows : d < e}) < RelayBatch}

(* claim_batch: the oldest pending rows that nobody has locked.            *)
ClaimRows(r) ==
    /\ AtRest(r) /\ Claimable # {}
    /\ batch' = [batch EXCEPT ![r] = Oldest(Claimable)]
    /\ UNCHANGED <<staged, delivery, attempts, note, copies, crashes>>

Noted(r, e, verdict) == [d \in DOMAIN note[r] \cup {e} |->
                            IF d = e THEN verdict ELSE note[r][d]]

(* flush_once, one row: published and marked, or an attempt is counted,    *)
(* also when the broker has the row and only its answer was lost.          *)
Relay(r, reached, heard) ==
    /\ batch[r] # {}
    /\ LET e == Min(batch[r])
       IN  /\ batch' = [batch EXCEPT ![r] = @ \ {e}]
           /\ note' = [note EXCEPT ![r] =
                          Noted(r, e, IF reached /\ heard THEN "delivered" ELSE "failed")]
           /\ copies' = IF reached THEN [copies EXCEPT ![e] = @ + 1] ELSE copies
    /\ UNCHANGED <<staged, delivery, attempts, crashes>>

\* Mutant of Verdict: a row fails with the attempt after the last one.
VerdictLate(r, e) ==
    IF note[r][e] = "failed" /\ attempts[e] < MaxAttempts THEN "pending" ELSE note[r][e]

(* mark_failed: a row that failed stays pending until the cap is reached.  *)
Verdict(r, e) ==
    IF note[r][e] = "failed" /\ attempts[e] + 1 < MaxAttempts THEN "pending" ELSE note[r][e]

CommitBatch(r) ==
    /\ batch[r] = {} /\ note[r] # Nothing
    /\ delivery' = [e \in Staged |-> IF e \in DOMAIN note[r] THEN Verdict(r, e) ELSE delivery[e]]
    /\ attempts' = [e \in Staged |->
                       IF e \in DOMAIN note[r] /\ note[r][e] = "failed"
                       THEN attempts[e] + 1 ELSE attempts[e]]
    /\ note' = [note EXCEPT ![r] = Nothing]
    /\ UNCHANGED <<staged, batch, copies, crashes>>

(* The process dies, or the session fails: locks and notes are gone.       *)
Rollback(r) ==
    /\ ~AtRest(r) /\ crashes < MaxCrashes
    /\ crashes' = crashes + 1
    /\ batch' = [batch EXCEPT ![r] = {}]
    /\ note' = [note EXCEPT ![r] = Nothing]
    /\ UNCHANGED <<staged, delivery, attempts, copies>>

RelayStep(r) ==
    ClaimRows(r) \/ CommitBatch(r) \/ Relay(r, TRUE, TRUE)
        \/ \E reached \in BOOLEAN : Relay(r, reached, FALSE)

OutboxNext == Stage \/ \E r \in Relays : RelayStep(r) \/ Rollback(r)
OutboxFairness == \A r \in Relays : WF_outboxVars(RelayStep(r))
OutboxSpec == OutboxInit /\ [][OutboxNext]_outboxVars /\ OutboxFairness
-----------------------------------------------------------------------------
(* At least once: a row is called delivered only when it was published,    *)
(* and given up only after MaxAttempts committed failures.  (relay.py)     *)
DeliveredWasSent ==
    \A e \in Staged :
        /\ delivery[e] = "delivered" => copies[e] > 0
        /\ delivery[e] = "failed" => attempts[e] = MaxAttempts

(* Relays that share the table never publish a row twice between them      *)
(* (SKIP LOCKED): beside the delivery, or the try that a relay is about to *)
(* commit, each entry of a row is owed to an attempt that is counted as    *)
(* failed, the answer of its publish was lost, or to a lost transaction;   *)
(* so the cap on attempts bounds the entries too.                          *)
Tried(e) == delivery[e] = "delivered" \/ \E r \in Relays : e \in DOMAIN note[r]
DuplicatesAreAccounted ==
    \A e \in Staged :
        /\ copies[e] <= (IF Tried(e) THEN 1 ELSE 0) + attempts[e] + crashes
        /\ copies[e] <= MaxAttempts + crashes

(* No row stays pending: each is delivered or given up.  (run_forever)     *)
RowsAreSettled == \A e \in Staged : delivery[e] = "pending" ~> delivery[e] \in Verdicts

(* The table and the stream agree about what was published.                *)
RowsMatchTheStream == DeliveredWasSent /\ DuplicatesAreAccounted
=============================================================================
