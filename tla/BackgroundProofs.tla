--------------------------- MODULE BackgroundProofs ---------------------------
(***************************************************************************)
(* Proofs about the background work, part by part and for any constants:   *)
(* the relay of the outbox, the news of deploys, the follow-ups of Hermes  *)
(* and the body in VRChat.                                                 *)
(***************************************************************************)
EXTENDS MCBackground, PeopleProofs, SequenceTheorems

-----------------------------------------------------------------------------
(* The outbox: rows, relays and the stream                                 *)

LEMMA NotesAre ==
    \A n : n \in Notes <=> n \in [DOMAIN n -> Verdicts] /\ DOMAIN n \subseteq Staged
BY DEF Notes

LEMMA NothingIsANote == Nothing \in Notes /\ DOMAIN Nothing = {}
BY NotesAre DEF Nothing

\* What a relay has in its transaction.
Held(r) == batch[r] \cup DOMAIN note[r]

\* No row is in two transactions, or untried and noted in one; whatever is in
\* one is pending, since only its own commit ends that.
LocksHold ==
    /\ \A r \in Relays : batch[r] \cap DOMAIN note[r] = {}
    /\ \A r, s \in Relays : r # s => Held(r) \cap Held(s) = {}
    /\ \A r \in Relays : \A e \in Held(r) : delivery[e] = "pending"

\* The rows that were published, or noted so, and not taken back by a rollback.
Out(e) ==
    \/ delivery[e] = "delivered"
    \/ \E r \in Relays : e \in DOMAIN note[r] /\ note[r][e] = "delivered"

\* What is out has an entry.
CopiesCount == \A e \in Staged : Out(e) => copies[e] > 0

\* Every copy is owed to a counted attempt, a rollback or the attempt going on.
TriesCount ==
    \A e \in Staged :
        /\ Tried(e) => copies[e] <= 1 + attempts[e] + crashes
        /\ ~Tried(e) => copies[e] <= attempts[e] + crashes

\* Attempts are counted while a row is pending, and its last one ends it.
AttemptsCount ==
    \A e \in Staged :
        /\ delivery[e] = "none" <=> e > staged
        /\ delivery[e] = "none" => attempts[e] = 0
        /\ delivery[e] \in {"pending", "delivered"} => attempts[e] < MaxAttempts
        /\ delivery[e] = "failed" => attempts[e] = MaxAttempts

OutboxInv == OutboxTypeOK /\ LocksHold /\ CopiesCount /\ TriesCount /\ AttemptsCount

LEMMA InitOutbox == OutboxInit => OutboxInv
BY OutboxAssumption, NothingIsANote
   DEF OutboxInit, OutboxInv, OutboxTypeOK, LocksHold, CopiesCount, TriesCount, AttemptsCount,
       Held, Out, Tried, Staged

\* A row is staged behind the ones there are.
LEMMA StageOutbox == OutboxInv /\ Stage => OutboxInv'
<1> SUFFICES ASSUME OutboxInv, Stage PROVE OutboxInv'
    OBVIOUS
<1> USE OutboxAssumption DEF OutboxInv, Stage
<1>1. staged + 1 \in Staged
    BY DEF OutboxTypeOK, Staged
<1>2. OutboxTypeOK'
    BY <1>1 DEF OutboxTypeOK
<1>3. LocksHold'
    BY <1>1 DEF OutboxTypeOK, LocksHold, Held
<1>4. \A e \in Staged : (Out(e)' <=> Out(e)) /\ (Tried(e)' <=> Tried(e))
    BY <1>1 DEF OutboxTypeOK, AttemptsCount, Out, Tried, Staged
<1>5. CopiesCount' /\ TriesCount'
    BY <1>4 DEF CopiesCount, TriesCount
<1>6. AttemptsCount'
    BY <1>1 DEF OutboxTypeOK, AttemptsCount, Staged
<1>7. QED
    BY <1>2, <1>3, <1>5, <1>6

\* claim_batch skips the rows that another transaction has.
LEMMA ClaimOutbox == \A r \in Relays : OutboxInv /\ ClaimRows(r) => OutboxInv'
<1> SUFFICES ASSUME NEW r \in Relays, OutboxInv, ClaimRows(r) PROVE OutboxInv'
    OBVIOUS
<1> USE OutboxAssumption DEF OutboxInv
<1>1. PICK S \in SUBSET Claimable : batch' = [batch EXCEPT ![r] = S]
    BY DEF ClaimRows, Oldest
<1>2. /\ UNCHANGED <<staged, delivery, attempts, note, copies, crashes>>
      /\ note[r] = Nothing /\ batch[r] = {}
    BY DEF ClaimRows, AtRest
<1>3. S \subseteq Staged /\ \A e \in S : delivery[e] = "pending"
    BY DEF Claimable
<1>4. \A s \in Relays : S \cap Held(s) = {}
    BY DEF Claimable, Locked, Held
<1>5. Held(r)' = S /\ \A s \in Relays : s # r => Held(s)' = Held(s)
    BY <1>1, <1>2, NothingIsANote DEF Held, OutboxTypeOK
<1>6. OutboxTypeOK'
    BY <1>1, <1>2, <1>3 DEF OutboxTypeOK
<1>7. LocksHold'
    <2>1. \A s \in Relays : batch'[s] \cap DOMAIN note'[s] = {}
        BY <1>1, <1>2, NothingIsANote DEF LocksHold, OutboxTypeOK
    <2>2. \A s, t \in Relays : s # t => Held(s)' \cap Held(t)' = {}
        BY <1>4, <1>5 DEF LocksHold
    <2>3. \A s \in Relays : \A e \in Held(s)' : delivery'[e] = "pending"
        BY <1>2, <1>3, <1>5 DEF LocksHold
    <2>4. QED
        BY <2>1, <2>2, <2>3 DEF LocksHold
<1>8. CopiesCount' /\ TriesCount'
    BY <1>2 DEF CopiesCount, TriesCount, Out, Tried
<1>9. AttemptsCount'
    BY <1>2 DEF AttemptsCount
<1>10. QED
    BY <1>6, <1>7, <1>8, <1>9

\* One row is tried, and what came of it noted.
LEMMA RelayOutbox ==
    \A r \in Relays, reached, heard \in BOOLEAN :
        OutboxInv /\ Relay(r, reached, heard) => OutboxInv'
<1> SUFFICES ASSUME NEW r \in Relays, NEW reached \in BOOLEAN, NEW heard \in BOOLEAN,
                    OutboxInv, Relay(r, reached, heard)
             PROVE  OutboxInv'
    OBVIOUS
<1> DEFINE v == IF reached /\ heard THEN "delivered" ELSE "failed"
<1> USE OutboxAssumption DEF OutboxInv
<1>1. PICK e \in batch[r] : e = Min(batch[r])
    <2>1. batch[r] \in SUBSET Nat /\ batch[r] # {}
        BY SMTT(20) DEF OutboxTypeOK, Staged, Relay
    <2>2. QED
        BY <2>1, LeastOfNaturals
<1>2. /\ e \in Staged /\ e \notin DOMAIN note[r] /\ delivery[e] = "pending"
      /\ \A s \in Relays : e \notin DOMAIN note[s]
    BY <1>1, NotesAre DEF OutboxTypeOK, LocksHold, Held
<1>3. /\ batch' = [batch EXCEPT ![r] = @ \ {e}]
      /\ note' = [note EXCEPT ![r] = Noted(r, e, v)]
      /\ copies' = IF reached THEN [copies EXCEPT ![e] = @ + 1] ELSE copies
      /\ UNCHANGED <<staged, delivery, attempts, crashes>>
    BY <1>1 DEF Relay
<1>4. /\ DOMAIN note'[r] = DOMAIN note[r] \cup {e}
      /\ note'[r][e] = v
      /\ \A d \in DOMAIN note[r] : note'[r][d] = note[r][d]
      /\ \A s \in Relays : s # r => note'[s] = note[s]
    BY <1>2, <1>3 DEF Noted, OutboxTypeOK
<1>5. \A s \in Relays : Held(s)' = Held(s)
    BY <1>1, <1>3, <1>4 DEF Held, OutboxTypeOK
<1>6. /\ ~Out(e) /\ ~Tried(e) /\ copies[e] <= attempts[e] + crashes
      /\ attempts[e] < MaxAttempts
    BY <1>2 DEF Out, Tried, CopiesCount, TriesCount, AttemptsCount
<1>12. PICK n \in Nat, t \in Nat, c \in Nat :
           n = copies[e] /\ t = attempts[e] /\ c = crashes
    BY <1>2 DEF OutboxTypeOK
<1>13. /\ n <= t + c /\ t < MaxAttempts /\ c <= MaxCrashes
       /\ crashes' = c /\ attempts'[e] = t
       /\ copies'[e] = (IF reached THEN n + 1 ELSE n)
    BY <1>2, <1>3, <1>6, <1>12 DEF OutboxTypeOK
<1>14. \A d \in Staged : d # e => copies'[d] = copies[d]
    BY <1>3 DEF OutboxTypeOK
<1>7. OutboxTypeOK'
    <2>1. note'[r] \in Notes
        BY <1>2, <1>3, <1>4, NotesAre DEF OutboxTypeOK, Noted, Verdicts
    <2>2. copies' \in [Staged -> 0..(MaxAttempts + MaxCrashes)]
        <3>1. n + 1 \in 0..(MaxAttempts + MaxCrashes)
            BY <1>13
        <3>2. copies[e] + 1 = n + 1
            BY <1>12
        <3>3. QED
            BY <1>2, <1>3, <3>1, <3>2 DEF OutboxTypeOK
    <2>3. note' \in [Relays -> Notes]
        BY <2>1, <1>3 DEF OutboxTypeOK
    <2>4. batch' \in [Relays -> SUBSET Staged]
        BY <1>3 DEF OutboxTypeOK
    <2>5. QED
        BY <2>2, <2>3, <2>4, <1>3 DEF OutboxTypeOK
<1>8. LocksHold'
    <2>1. \A s \in Relays : batch'[s] \cap DOMAIN note'[s] = {}
        BY <1>3, <1>4 DEF LocksHold, OutboxTypeOK
    <2>2. QED
        BY <2>1, <1>3, <1>5 DEF LocksHold
<1>9. CopiesCount' /\ TriesCount'
    <2>1. ASSUME NEW d \in Staged, d # e
          PROVE  /\ Out(d)' <=> Out(d)
                 /\ Tried(d)' <=> Tried(d)
        BY <1>2, <1>3, <1>4, <2>1 DEF Out, Tried, OutboxTypeOK
    <2>2. e \in DOMAIN note'[r] /\ (Out(e)' <=> reached /\ heard)
        BY <1>2, <1>3, <1>4 DEF Out
    <2>3. Out(e)' => copies'[e] > 0
        BY <1>13, <2>2
    <2>4. Tried(e)' /\ copies'[e] <= 1 + attempts'[e] + crashes'
        <3>1. Tried(e)'
            BY <2>2 DEF Tried
        <3>2. copies'[e] <= 1 + attempts'[e] + crashes'
            BY <1>13
        <3>3. QED
            BY <3>1, <3>2
    <2>5. CopiesCount'
        BY <1>3, <1>14, <2>1, <2>3 DEF CopiesCount
    <2>6. TriesCount'
        BY <1>3, <1>14, <2>1, <2>4 DEF TriesCount
    <2>7. QED
        BY <2>5, <2>6
<1>10. AttemptsCount'
    BY <1>3 DEF AttemptsCount
<1>11. QED
    BY <1>7, <1>8, <1>9, <1>10

\* The verdicts of a batch come to the table at once.
LEMMA CommitOutbox == \A r \in Relays : OutboxInv /\ CommitBatch(r) => OutboxInv'
<1> SUFFICES ASSUME NEW r \in Relays, OutboxInv, CommitBatch(r) PROVE OutboxInv'
    OBVIOUS
<1> USE OutboxAssumption DEF OutboxInv
<1>1. /\ batch[r] = {} /\ note' = [note EXCEPT ![r] = Nothing]
      /\ UNCHANGED <<staged, batch, copies, crashes>>
    BY DEF CommitBatch
<1>2. /\ DOMAIN note'[r] = {} /\ Held(r)' = {}
      /\ \A s \in Relays : s # r => note'[s] = note[s] /\ Held(s)' = Held(s)
    BY <1>1, NothingIsANote DEF Held, OutboxTypeOK
<1>3. \A e \in Staged : e \notin DOMAIN note[r] =>
          delivery'[e] = delivery[e] /\ attempts'[e] = attempts[e]
    BY DEF CommitBatch
<1>4. \A e \in DOMAIN note[r] :
          /\ e \in Staged /\ delivery[e] = "pending" /\ attempts[e] \in 0..(MaxAttempts - 1)
          /\ note[r][e] \in Verdicts
          /\ \A s \in Relays : s # r => e \notin Held(s)
    BY NotesAre DEF OutboxTypeOK, LocksHold, Held, AttemptsCount
<1>5. \A e \in DOMAIN note[r] : note[r][e] = "delivered" =>
          delivery'[e] = "delivered" /\ attempts'[e] = attempts[e]
    BY <1>4 DEF CommitBatch, Verdict
<1>6. \A e \in DOMAIN note[r] : note[r][e] # "delivered" =>
          /\ attempts'[e] = attempts[e] + 1
          /\ delivery'[e] = IF attempts[e] + 1 < MaxAttempts THEN "pending" ELSE "failed"
    BY <1>4 DEF CommitBatch, Verdict, Verdicts
<1>7. OutboxTypeOK'
    <2>1. \A e \in Staged : /\ delivery'[e] \in {"none", "pending", "delivered", "failed"}
                            /\ attempts'[e] \in 0..MaxAttempts
        BY <1>3, <1>4, <1>5, <1>6 DEF OutboxTypeOK
    <2>2. delivery' \in [Staged -> {"none", "pending", "delivered", "failed"}]
          /\ attempts' \in [Staged -> 0..MaxAttempts]
        BY <2>1 DEF CommitBatch
    <2>3. note' \in [Relays -> Notes]
        BY <1>1, NothingIsANote DEF OutboxTypeOK
    <2>4. QED
        BY <2>2, <2>3, <1>1 DEF OutboxTypeOK
<1>8. LocksHold'
    <2>1. \A s \in Relays : batch'[s] \cap DOMAIN note'[s] = {}
        BY <1>1, <1>2 DEF LocksHold
    <2>2. \A s, t \in Relays : s # t => Held(s)' \cap Held(t)' = {}
        BY <1>2 DEF LocksHold
    <2>3. \A s \in Relays : \A e \in Held(s)' : delivery'[e] = "pending"
        <3>1. \A s \in Relays : s # r => \A e \in Held(s) : e \in Staged /\ e \notin DOMAIN note[r]
            BY <1>4, NotesAre DEF Held, OutboxTypeOK, LocksHold
        <3>2. QED
            BY <3>1, <1>2, <1>3 DEF LocksHold
    <2>4. QED
        BY <2>1, <2>2, <2>3 DEF LocksHold
<1>9. CopiesCount' /\ TriesCount'
    <2>1. \A e \in Staged : Out(e)' <=> Out(e)
        <3>1. \A e \in DOMAIN note[r] : Out(e)' <=> note[r][e] = "delivered"
            BY <1>2, <1>4, <1>5, <1>6 DEF Out, Held
        <3>2. \A e \in DOMAIN note[r] : Out(e) <=> note[r][e] = "delivered"
            BY <1>4 DEF Out, Held
        <3>3. \A e \in Staged : e \notin DOMAIN note[r] => (Out(e)' <=> Out(e))
            BY <1>2, <1>3 DEF Out
        <3>4. QED
            BY <3>1, <3>2, <3>3
    <2>2. CopiesCount'
        BY <2>1, <1>1 DEF CopiesCount
    <2>3. ASSUME NEW e \in Staged
          PROVE  /\ Tried(e)' => copies[e] <= 1 + attempts'[e] + crashes
                 /\ ~Tried(e)' => copies[e] <= attempts'[e] + crashes
        <3>1. PICK n \in Nat, t \in Nat, c \in Nat :
                  n = copies[e] /\ t = attempts[e] /\ c = crashes
            BY DEF OutboxTypeOK
        <3>2. (Tried(e) => n <= 1 + t + c) /\ (~Tried(e) => n <= t + c)
            BY <3>1 DEF TriesCount
        <3>3. CASE e \notin DOMAIN note[r]
            <4>1. attempts'[e] = t /\ (Tried(e)' <=> Tried(e))
                BY <1>2, <1>3, <3>1, <3>3 DEF Tried
            <4>2. QED
                BY <3>1, <3>2, <4>1
        <3>4. CASE e \in DOMAIN note[r] /\ note[r][e] = "delivered"
            <4>1. attempts'[e] = t /\ Tried(e)' /\ Tried(e)
                BY <1>5, <3>1, <3>4 DEF Tried
            <4>2. QED
                BY <3>1, <3>2, <4>1
        <3>5. CASE e \in DOMAIN note[r] /\ note[r][e] # "delivered"
            <4>1. attempts'[e] = t + 1 /\ Tried(e)
                BY <1>6, <3>1, <3>5 DEF Tried
            <4>2. QED
                BY <3>1, <3>2, <4>1
        <3>6. QED
            BY <3>3, <3>4, <3>5
    <2>4. TriesCount'
        BY <2>3, <1>1 DEF TriesCount
    <2>5. QED
        BY <2>2, <2>4
<1>10. AttemptsCount'
    <2>1. \A e \in DOMAIN note[r] : e <= staged /\ e \in Staged
        BY <1>4 DEF AttemptsCount, Staged, OutboxTypeOK
    <2>2. \A e \in DOMAIN note[r] :
              /\ delivery'[e] # "none"
              /\ delivery'[e] \in {"pending", "delivered"} => attempts'[e] < MaxAttempts
              /\ delivery'[e] = "failed" => attempts'[e] = MaxAttempts
        <3> SUFFICES ASSUME NEW e \in DOMAIN note[r]
                     PROVE  /\ delivery'[e] # "none"
                            /\ delivery'[e] \in {"pending", "delivered"} => attempts'[e] < MaxAttempts
                            /\ delivery'[e] = "failed" => attempts'[e] = MaxAttempts
            OBVIOUS
        <3>1. CASE note[r][e] = "delivered"
            BY <3>1, <1>4, <1>5
        <3>2. CASE note[r][e] # "delivered"
            BY <3>2, <1>4, <1>6
        <3>3. QED
            BY <3>1, <3>2
    <2>3. \A e \in Staged : e \notin DOMAIN note[r] =>
              delivery'[e] = delivery[e] /\ attempts'[e] = attempts[e]
        BY <1>3
    <2>4. \A e \in DOMAIN note[r] : ~(e > staged)
        BY <2>1 DEF Staged, OutboxTypeOK
    <2>5. QED
        BY <2>2, <2>3, <2>4, <1>1 DEF AttemptsCount
<1>11. QED
    BY <1>7, <1>8, <1>9, <1>10

\* A rollback takes the notes back, and what they said was out is not.
LEMMA RollbackOutbox == \A r \in Relays : OutboxInv /\ Rollback(r) => OutboxInv'
<1> SUFFICES ASSUME NEW r \in Relays, OutboxInv, Rollback(r) PROVE OutboxInv'
    OBVIOUS
<1> USE OutboxAssumption DEF OutboxInv
<1>1. /\ batch' = [batch EXCEPT ![r] = {}] /\ note' = [note EXCEPT ![r] = Nothing]
      /\ crashes' = crashes + 1 /\ crashes < MaxCrashes
      /\ UNCHANGED <<staged, delivery, attempts, copies>>
    BY DEF Rollback
<1>2. /\ batch'[r] = {} /\ DOMAIN note'[r] = {}
      /\ \A s \in Relays : s # r => note'[s] = note[s] /\ batch'[s] = batch[s]
    BY <1>1, NothingIsANote DEF OutboxTypeOK
<1>3. OutboxTypeOK'
    <2>1. note' \in [Relays -> Notes]
        BY <1>1, NothingIsANote DEF OutboxTypeOK
    <2>2. QED
        BY <2>1, <1>1 DEF OutboxTypeOK
<1>4. LocksHold'
    BY <1>1, <1>2 DEF LocksHold, Held
<1>5. \A e \in Staged : Out(e)' => Out(e)
    BY <1>1, <1>2 DEF Out
<1>6. CopiesCount' /\ TriesCount'
    <2>1. ASSUME NEW e \in Staged
          PROVE  /\ Out(e)' => copies'[e] > 0
                 /\ Tried(e)' => copies'[e] <= 1 + attempts'[e] + crashes'
                 /\ ~Tried(e)' => copies'[e] <= attempts'[e] + crashes'
        <3>1. PICK n \in Nat, t \in Nat, c \in Nat :
                  n = copies[e] /\ t = attempts[e] /\ c = crashes
            BY DEF OutboxTypeOK
        <3>2. copies'[e] = n /\ attempts'[e] = t /\ crashes' = c + 1
            BY <1>1, <3>1
        <3>3. (Out(e) => n > 0) /\ n <= 1 + t + c
            BY <3>1 DEF CopiesCount, TriesCount
        <3>4. Out(e)' => Out(e)
            BY <1>5
        <3>5. QED
            BY <3>2, <3>3, <3>4
    <2>2. QED
        BY <2>1 DEF CopiesCount, TriesCount
<1>7. AttemptsCount'
    BY <1>1 DEF AttemptsCount
<1>8. QED
    BY <1>3, <1>4, <1>6, <1>7

LEMMA StepOutbox == OutboxInv /\ [OutboxNext]_outboxVars => OutboxInv'
<1>1. OutboxInv /\ UNCHANGED outboxVars => OutboxInv'
    BY DEF OutboxInv, outboxVars, OutboxTypeOK, LocksHold, Held, CopiesCount, TriesCount,
       Out, Tried, AttemptsCount
<1>2. QED
    BY <1>1, StageOutbox, ClaimOutbox, RelayOutbox, CommitOutbox, RollbackOutbox
       DEF OutboxNext, RelayStep

\* Rows are in one transaction at a time, and entries are owed to a delivery,
\* counted attempts and rollbacks, in every reachable state.
THEOREM OutboxInvariant == OutboxSpec => []OutboxInv
BY InitOutbox, StepOutbox, PTL DEF OutboxSpec

\* The table and the stream agree, however many relays share the table, whichever
\* answers and transactions are lost: no row is published twice but for those.
THEOREM RowsStayTrue == OutboxSpec => []RowsMatchTheStream
<1>1. OutboxInv => DeliveredWasSent
    BY DEF OutboxInv, OutboxTypeOK, CopiesCount, AttemptsCount, DeliveredWasSent, Out
<1>2. OutboxInv => DuplicatesAreAccounted
    <2> SUFFICES ASSUME OutboxInv, NEW e \in Staged
                 PROVE  /\ copies[e] <= (IF Tried(e) THEN 1 ELSE 0) + attempts[e] + crashes
                        /\ copies[e] <= MaxAttempts + crashes
        BY DEF DuplicatesAreAccounted
    <2>1. PICK n \in Nat, t \in Nat, c \in Nat :
              n = copies[e] /\ t = attempts[e] /\ c = crashes
        BY DEF OutboxInv, OutboxTypeOK
    <2>2. t <= MaxAttempts /\ MaxAttempts \in Nat
        BY <2>1, OutboxAssumption DEF OutboxInv, OutboxTypeOK, OutboxAssumption
    <2>3. Tried(e) => t < MaxAttempts
        BY <2>1 DEF OutboxInv, AttemptsCount, LocksHold, Held, Tried
    <2>4. (Tried(e) => n <= 1 + t + c) /\ (~Tried(e) => n <= t + c)
        BY <2>1 DEF OutboxInv, TriesCount
    <2>5. n <= MaxAttempts + c
        BY <2>2, <2>3, <2>4
    <2>6. QED
        BY <2>1, <2>4, <2>5
<1>3. QED
    BY <1>1, <1>2, OutboxInvariant, PTL DEF RowsMatchTheStream
-----------------------------------------------------------------------------
(* The news of deploys                                                     *)

\* How often an entry stands in a sequence that got one more.
LEMMA TimesAppended ==
    ASSUME NEW s \in Seq(Pipelines), NEW e \in Pipelines, NEW p \in Pipelines
    PROVE  LET Count(t) == Cardinality({i \in DOMAIN t : t[i] = p})
           IN  /\ Count(s) \in Nat
               /\ Count(Append(s, e)) = IF p = e THEN Count(s) + 1 ELSE Count(s)
<1> DEFINE At(t) == {i \in DOMAIN t : t[i] = p}
<1>1. Len(s) \in Nat /\ DOMAIN s = 1..Len(s)
    OBVIOUS
<1>2. IsFiniteSet(At(s)) /\ Cardinality(At(s)) \in Nat
    <2>1. IsFiniteSet(1..Len(s)) /\ At(s) \in SUBSET (1..Len(s))
        BY <1>1, FS_Interval
    <2> HIDE DEF At
    <2>2. QED
        BY <2>1, FS_Subset, FS_CardinalityType
<1>3. At(Append(s, e)) = IF p = e THEN At(s) \cup {Len(s) + 1} ELSE At(s)
    BY <1>1
<1>4. Len(s) + 1 \notin At(s)
    BY <1>1
<1>5. Cardinality(At(s) \cup {Len(s) + 1}) = Cardinality(At(s)) + 1
    BY <1>2, <1>4, FS_AddElement
<1>6. QED
    BY <1>2, <1>3, <1>5
-----------------------------------------------------------------------------
\* The bridge answers deploys and the announcer is about deploys, never an older one
\* than before; the marker and the messages are of nothing newer than what it was
\* about.
NewsInOrder ==
    /\ about \in Deployed \cup {0}
    /\ cached \in Deployed \cup {0, NoAnswer}
    /\ cached \in Pipelines => about <= cached
    /\ marker # NoMark => marker <= about
    /\ \A p \in Pipelines : p > about => Times(p) = 0
    /\ tickAt \notin {"idle", "asking", "refreshing"} => about \in Pipelines
    /\ tickAt \in {"composing", "publishing", "marking"} => marker = NoMark \/ marker < about

\* A deploy that the announcer is about to tell, or would tell if the bridge
\* answered it, because the marker is behind it.
ToTell(p) ==
    \/ tickAt \in {"composing", "publishing"} /\ p = about
    \/ marker # NoMark /\ marker < p /\ ~(tickAt = "marking" /\ p = about)

\* Each message but the first stands for a slip; what is still to be told has
\* no message yet that is not accounted for by one.
SlipsCount ==
    /\ \A p \in Pipelines : Times(p) <= IF ToTell(p) THEN slips ELSE 1 + slips
    /\ tickAt = "marking" => Times(about) > 0

NewsInv == NewsTypeOK /\ NewsInOrder /\ SlipsCount /\ MarkedWasTold

LEMMA NewestOf ==
    ASSUME NEW D \in SUBSET Pipelines
    PROVE  LET newest == Max(D \cup {0})
           IN  /\ newest \in 0..MaxPipeline
               /\ newest = 0 \/ newest \in D
               /\ \A p \in D : p <= newest
<1>1. D \cup {0} \in SUBSET Nat /\ D \cup {0} # {} /\ \A n \in D \cup {0} : n <= MaxPipeline
    BY NewsAssumption DEF Pipelines
<1>2. Max(D \cup {0}) \in D \cup {0} /\ \A n \in D \cup {0} : n <= Max(D \cup {0})
    BY <1>1, GreatestOfNaturals, NewsAssumption
<1>3. QED
    BY <1>1, <1>2, NewsAssumption

LEMMA NewestIs ==
    /\ Newest \in 0..MaxPipeline /\ Newest \in Nat
    /\ Newest = 0 \/ Newest \in Deployed \cap Listed
    /\ \A p \in Deployed \cap Listed : p <= Newest
<1>1. Deployed \cap Listed \in SUBSET Pipelines
    BY DEF Deployed
<1>2. /\ Newest \in 0..MaxPipeline
      /\ Newest = 0 \/ Newest \in Deployed \cap Listed
      /\ \A p \in Deployed \cap Listed : p <= Newest
    BY <1>1, NewestOf DEF Newest
<1>3. QED
    BY <1>2, NewsAssumption

\* What is later than a pipeline that is looked at is looked at.
LEMMA ListedIs ==
    ASSUME NEW p \in Listed, NEW q \in Pipelines, p <= q PROVE q \in Listed
<1> DEFINE After(x) == {y \in Pipelines : y > x /\ pipeline[y] # "none"}
<1>1. p \in Nat /\ q \in Nat /\ \A y \in Pipelines : y \in Nat
    BY DEF Listed, Pipelines
<1>2. After(p) \in SUBSET Pipelines /\ After(q) \in SUBSET After(p)
    <2>1. ASSUME NEW y \in After(q) PROVE y \in After(p)
        <3>1. y \in Pipelines /\ pipeline[y] # "none" /\ y > q
            BY <2>1
        <3>2. y \in Nat /\ y > p
            BY <1>1, <3>1
        <3>3. QED
            BY <3>1, <3>2
    <2>2. QED
        BY <2>1
<1>3. Cardinality(After(p)) < Scanned
    BY DEF Listed
<1>4. q \in Listed <=> Cardinality(After(q)) < Scanned
    BY DEF Listed
<1> HIDE DEF After
<1>5. IsFiniteSet(After(p))
    <2>1. IsFiniteSet(Pipelines)
        BY FS_Interval, NewsAssumption DEF Pipelines
    <2>2. QED
        BY <1>2, <2>1, FS_Subset
<1>6. /\ Cardinality(After(q)) <= Cardinality(After(p))
      /\ Cardinality(After(q)) \in Nat /\ Cardinality(After(p)) \in Nat
    BY <1>2, <1>5, FS_Subset, FS_CardinalityType
<1>7. QED
    BY <1>3, <1>4, <1>6, NewsAssumption

\* The bridge answers no deploy that is older than another it could have answered
\* before.
LEMMA NewestIsLast ==
    ASSUME NEW d \in Deployed \cup {0}, Newest \in Pipelines PROVE d <= Newest
<1>1. Newest \in Deployed \cap Listed /\ Newest \in Nat /\ Newest > 0
    BY NewestIs DEF Pipelines
<1>2. CASE d = 0
    BY <1>1, <1>2
<1>3. CASE d \in Deployed
    <2>1. d \in Pipelines /\ d \in Nat
        BY <1>3 DEF Deployed, Pipelines
    <2>2. CASE Newest <= d
        <3>1. d \in Listed
            BY <1>1, <2>1, <2>2, ListedIs
        <3>2. QED
            BY <1>3, <3>1, NewestIs
    <2>3. CASE ~(Newest <= d)
        BY <1>1, <2>1, <2>3
    <2>4. QED
        BY <2>2, <2>3
<1>4. QED
    BY <1>2, <1>3

LEMMA TimesAreNat ==
    ASSUME NewsTypeOK PROVE \A p \in Pipelines : Times(p) \in Nat
BY TimesAppended DEF NewsTypeOK, Times

LEMMA InitNews == NewsInit => NewsInv
<1> SUFFICES ASSUME NewsInit PROVE NewsInv
    OBVIOUS
<1>1. NewsTypeOK
    <2>1. said \in Seq(Pipelines)
        BY DEF NewsInit
    <2>2. pipeline \in [Pipelines -> {"none", "running", "success", "failed"}]
        BY DEF NewsInit
    <2>3. glab \in 0..Attempts /\ cached \in 0..MaxPipeline \cup {NoAnswer} /\ about \in 0..MaxPipeline
          /\ mishaps \in 0..MaxMishaps
        BY NewsAssumption DEF NewsInit
    <2>4. QED
        BY <2>1, <2>2, <2>3 DEF NewsInit, NewsTypeOK
<1>2. \A p \in Pipelines : Times(p) = 0
    BY FS_EmptySet DEF NewsInit, Times
<1>3. cached \notin Pipelines
    BY NewsAssumption DEF NewsInit, Pipelines
<1>4. QED
    BY <1>1, <1>2, <1>3, NewsAssumption
       DEF NewsInit, NewsInv, NewsInOrder, SlipsCount, MarkedWasTold, Pipelines

\* What only moves GitLab and the bridge leaves the announcer's accounts as
\* they are: the newest deploy grows and the bridge answers it.
LEMMA BridgeNews ==
    ASSUME NewsInv, NewsTypeOK', UNCHANGED <<marker, about, past>>,
           tickAt' = tickAt \/ (tickAt = "idle" /\ tickAt' \in {"asking", "refreshing"}),
           Deployed \subseteq Deployed',
           cached' \in {cached, Newest, NoAnswer}
    PROVE  NewsInv'
<1>1. /\ about' \in Deployed' \cup {0}
      /\ cached' \in Deployed' \cup {0, NoAnswer}
    BY NewestIs DEF NewsInv, NewsInOrder
<1>2. \A p \in Pipelines : Times(p)' = Times(p)
    BY DEF Times, past
<1>3. NewsInOrder'
    <2>1. cached' \in Pipelines => about' <= cached'
        <3> SUFFICES ASSUME cached' \in Pipelines PROVE about <= cached'
            OBVIOUS
        <3>1. about \in Deployed \cup {0} /\ (cached' = cached \/ cached' = Newest)
            BY NewsAssumption DEF NewsInv, NewsInOrder, Pipelines
        <3>2. QED
            BY <3>1, NewestIsLast DEF NewsInv, NewsInOrder
    <2>2. QED
        BY <1>1, <1>2, <2>1 DEF NewsInv, NewsInOrder
<1>4. SlipsCount'
    <2>1. \A p \in Pipelines : ToTell(p)' <=> ToTell(p)
        BY DEF ToTell
    <2>2. about' = about /\ slips' = slips /\ (tickAt' = "marking" <=> tickAt = "marking")
        BY DEF past
    <2>3. tickAt = "marking" => about \in Pipelines
        BY DEF NewsInv, NewsInOrder
    <2>4. QED
        BY <1>2, <2>1, <2>2, <2>3 DEF NewsInv, SlipsCount
<1>5. MarkedWasTold'
    BY <1>2 DEF NewsInv, MarkedWasTold, NewsTypeOK, past
<1>6. QED
    BY <1>3, <1>4, <1>5 DEF NewsInv

LEMMA GitlabSteps ==
    ASSUME NewsInv,
           \/ PipelineStarts
           \/ \E p \in Pipelines : DeployGetsOld(p)
           \/ \E p \in Pipelines, result \in {"success", "failed"} : PipelineEnds(p, result)
    PROVE  NewsInv'
<1>1. NewsTypeOK'
    BY DEF NewsInv, NewsTypeOK, PipelineStarts, DeployGetsOld, PipelineEnds, bridge, announcer, past
<1>2. Deployed \subseteq Deployed'
    BY DEF NewsInv, NewsTypeOK, Deployed, PipelineStarts, DeployGetsOld, PipelineEnds
<1>3. UNCHANGED <<marker, about, past, tickAt, cached>>
    BY DEF PipelineStarts, DeployGetsOld, PipelineEnds, bridge, announcer
<1>4. QED
    BY <1>1, <1>2, <1>3, BridgeNews

LEMMA BridgeSteps ==
    ASSUME NewsInv, RefreshEnds \/ GlabFails \/ CacheExpires \/ BridgeRestarts \/ Ask
    PROVE  NewsInv'
<1>1. NewsTypeOK'
    <2>1. /\ mishaps' = mishaps \/ Mishap
          /\ cached' = cached \/ cached' = Newest \/ cached' = NoAnswer
          /\ tickAt' = tickAt \/ tickAt' \in {"asking", "refreshing"}
          /\ UNCHANGED <<pipeline, overage, marker, about, past>>
        BY DEF RefreshEnds, GlabFails, CacheExpires, BridgeRestarts, Ask,
               bridge, gitlab, announcer
    <2>2. glab' \in 0..Attempts /\ isFresh' \in BOOLEAN
        <3> USE NewsAssumption DEF NewsInv, NewsTypeOK
        <3>1. CASE Ask
            BY <3>1 DEF Ask, bridge
        <3>2. CASE RefreshEnds
            BY <3>2 DEF RefreshEnds
        <3>3. CASE CacheExpires
            BY <3>3 DEF CacheExpires
        <3>4. CASE GlabFails
            BY <3>4 DEF GlabFails
        <3>5. CASE BridgeRestarts
            <4>1. glab' = 0 /\ isFresh' = FALSE
                BY <3>5 DEF BridgeRestarts
            <4>2. 0 \in 0..Attempts
                OBVIOUS
            <4>3. QED
                BY <4>1, <4>2 DEF BridgeRestarts
        <3>6. QED
            BY <3>1, <3>2, <3>3, <3>4, <3>5
    <2>3. mishaps' \in 0..MaxMishaps
        BY <2>1, NewsAssumption DEF NewsInv, NewsTypeOK, Mishap
    <2>4. cached' \in 0..MaxPipeline \cup {NoAnswer}
        BY <2>1, NewestIs DEF NewsInv, NewsTypeOK
    <2>5. QED
        BY <2>1, <2>2, <2>3, <2>4 DEF NewsInv, NewsTypeOK, past
<1>2. Deployed \subseteq Deployed'
    BY DEF Deployed, RefreshEnds, GlabFails, CacheExpires, BridgeRestarts, Ask, gitlab
<1>3. UNCHANGED <<marker, about, past>> /\ cached' \in {cached, Newest, NoAnswer}
    BY DEF RefreshEnds, GlabFails, CacheExpires, BridgeRestarts, Ask, announcer, bridge
<1>4. tickAt' = tickAt \/ (tickAt = "idle" /\ tickAt' \in {"asking", "refreshing"})
    BY DEF RefreshEnds, GlabFails, CacheExpires, BridgeRestarts, Ask, announcer
<1>5. QED
    BY <1>1, <1>2, <1>3, <1>4, BridgeNews

\* A step of the tick that publishes nothing: where it goes, what it is about
\* and where the marker comes to stand decide what is still to be told.
LEMMA TickNews ==
    ASSUME NewsInv, NewsTypeOK', UNCHANGED <<gitlab, cached, said>>, slips' >= slips,
           NewsInOrder',
           \A p \in Pipelines : p <= about /\ ToTell(p)' => ToTell(p) \/ slips' > slips,
           tickAt' = "marking" => tickAt = "marking" /\ about' = about,
           MarkedWasTold'
    PROVE  NewsInv'
<1>1. \A p \in Pipelines : Times(p)' = Times(p) /\ Times(p) \in Nat
    BY TimesAreNat DEF Times, NewsInv
<1>2. slips \in Nat /\ slips' \in Nat
    BY DEF NewsInv, NewsTypeOK
<1>3. \A p \in Pipelines : Times(p)' <= IF ToTell(p)' THEN slips' ELSE 1 + slips'
    <2> SUFFICES ASSUME NEW p \in Pipelines
                 PROVE  Times(p) <= IF ToTell(p)' THEN slips' ELSE 1 + slips'
        BY <1>1
    <2>1. CASE p > about
        BY <2>1, <1>2 DEF NewsInv, NewsInOrder
    <2>2. CASE ~(p > about)
        <3>1. p <= about
            BY <2>2 DEF NewsInv, NewsTypeOK, Pipelines
        <3>2. Times(p) <= 1 + slips /\ (ToTell(p) => Times(p) <= slips)
            BY <1>1, <1>2 DEF NewsInv, SlipsCount
        <3>3. QED
            BY <3>1, <3>2, <1>1, <1>2
    <2>3. QED
        BY <2>1, <2>2
<1>4. tickAt' = "marking" => Times(about)' > 0
    <2>1. tickAt = "marking" => about \in Pipelines /\ Times(about) > 0
        BY DEF NewsInv, NewsInOrder, SlipsCount
    <2>2. QED
        BY <2>1 DEF Times
<1>5. QED
    BY <1>3, <1>4 DEF NewsInv, SlipsCount

\* The GET ends, or fails, without news.
LEMMA AnswerNews == NewsInv /\ (Answer \/ NoPayload) => NewsInv'
<1> SUFFICES ASSUME NewsInv, Answer \/ NoPayload PROVE NewsInv'
    OBVIOUS
<1>1. /\ UNCHANGED <<gitlab, bridge, marker, past>> /\ tickAt \in {"asking", "refreshing"}
      /\ \/ tickAt' = "idle" /\ about' = about
         \/ tickAt' = "deciding" /\ about' = cached /\ cached \in Pipelines
      /\ mishaps' = mishaps \/ Mishap
    BY DEF Answer, NoPayload
<1>2. mishaps' \in 0..MaxMishaps
    BY <1>1, NewsAssumption DEF NewsInv, NewsTypeOK, Mishap
<1>3. /\ about' \in 0..MaxPipeline /\ about \in Nat
      /\ about <= about' /\ (cached \in Pipelines => about' <= cached)
      /\ about' \in Deployed \cup {0} /\ (tickAt' = "deciding" => about' \in Pipelines)
    BY <1>1, NewsAssumption DEF NewsInv, NewsTypeOK, NewsInOrder, Pipelines
<1>4. NewsTypeOK'
    BY <1>1, <1>2, <1>3 DEF NewsInv, NewsTypeOK, gitlab, bridge, past
<1>5. \A p \in Pipelines : Times(p)' = Times(p)
    BY <1>1 DEF Times, past
<1>6. Deployed' = Deployed
    BY <1>1 DEF Deployed, gitlab
<1>7. NewsInOrder'
    <2>1. marker' # NoMark => marker' <= about'
        BY <1>1, <1>3 DEF NewsInv, NewsInOrder, NewsTypeOK, Pipelines
    <2>2. \A p \in Pipelines : p > about' => Times(p)' = 0
        BY <1>3, <1>5 DEF NewsInv, NewsInOrder, Pipelines
    <2>3. QED
        BY <1>1, <1>3, <1>6, <2>1, <2>2 DEF NewsInv, NewsInOrder, bridge
<1>8. \A p \in Pipelines : ToTell(p)' <=> ToTell(p)
    BY <1>1 DEF ToTell
<1>9. MarkedWasTold'
    BY <1>1, <1>5 DEF NewsInv, MarkedWasTold, NewsTypeOK, past
<1>10. QED
    BY <1>1, <1>4, <1>7, <1>8, <1>9, TickNews DEF NewsInv, NewsTypeOK, past, bridge

\* _decide puts the marker at the deploy it does not tell, or goes on to tell
\* one that the marker is behind.
LEMMA DecideNews == NewsInv /\ (ReadMark \/ MarkUnreadable) => NewsInv'
<1> SUFFICES ASSUME NewsInv, ReadMark \/ MarkUnreadable PROVE NewsInv'
    OBVIOUS
<1>1. /\ UNCHANGED <<gitlab, bridge, about, said, slips>> /\ tickAt = "deciding"
      /\ mishaps' = mishaps \/ Mishap
      /\ \/ /\ marker' = about /\ tickAt' = "idle"
            /\ about \in baseline' \cup overdue'
         \/ marker' = marker /\ tickAt' = "idle"
         \/ marker' = marker /\ tickAt' = "composing" /\ marker # NoMark /\ ~(about <= marker)
      /\ baseline' \in {baseline, baseline \cup {about}} /\ overdue' \in {overdue, overdue \cup {about}}
    BY DEF ReadMark, MarkUnreadable, Decide
<1>2. about \in Pipelines /\ about \in Nat
    BY <1>1 DEF NewsInv, NewsInOrder, Pipelines
<1>3. mishaps' \in 0..MaxMishaps
    BY <1>1, NewsAssumption DEF NewsInv, NewsTypeOK, Mishap
<1>4. NewsTypeOK'
    BY <1>1, <1>2, <1>3 DEF NewsInv, NewsTypeOK, gitlab, bridge
<1>5. \A p \in Pipelines : Times(p)' = Times(p)
    BY <1>1 DEF Times
<1>6. Deployed' = Deployed
    BY <1>1 DEF Deployed, gitlab
<1>7. NewsInOrder'
    <2>1. marker' # NoMark => marker' <= about
        BY <1>1, <1>2 DEF NewsInv, NewsInOrder
    <2>2. tickAt' \in {"composing", "publishing", "marking"} => marker' = NoMark \/ marker' < about
        BY <1>1, <1>2 DEF NewsInv, NewsTypeOK, Pipelines
    <2>3. QED
        BY <1>1, <1>2, <1>5, <1>6, <2>1, <2>2 DEF NewsInv, NewsInOrder, bridge
<1>8. \A p \in Pipelines : p <= about /\ ToTell(p)' => ToTell(p)
    BY <1>1, <1>2, NewsAssumption DEF ToTell, NewsInv, NewsTypeOK, Pipelines
<1>9. MarkedWasTold'
    BY <1>1, <1>5 DEF NewsInv, MarkedWasTold, NewsTypeOK
<1>10. QED
    BY <1>1, <1>4, <1>7, <1>8, <1>9, TickNews DEF NewsInv, NewsTypeOK, bridge

\* What ends a tick, or takes it on towards the message; a tick that ends
\* between its message and its marker is a slip.
LEMMA TickSteps ==
    NewsInv /\ (Compose \/ PublishNews(FALSE, FALSE) \/ TickFails \/ RedisFlushed) => NewsInv'
<1> SUFFICES ASSUME NewsInv, Compose \/ PublishNews(FALSE, FALSE) \/ TickFails \/ RedisFlushed
             PROVE  NewsInv'
    OBVIOUS
<1>1. /\ UNCHANGED <<gitlab, bridge, about, said, baseline, overdue>>
      /\ mishaps' = mishaps \/ Mishap
      /\ marker' \in {marker, NoMark}
      /\ \/ tickAt = "composing" /\ tickAt' = "publishing" /\ slips' = slips
         \/ tickAt' = "idle" /\ (tickAt = "marking" => slips' = slips + 1)
         \/ tickAt' = tickAt
      /\ slips' \in {slips, slips + 1}
    BY DEF Compose, PublishNews, Told, TickFails, RedisFlushed, announcer, past
<1>2. mishaps' \in 0..MaxMishaps /\ slips \in Nat /\ slips' \in Nat /\ slips' >= slips
    BY <1>1, NewsAssumption DEF NewsInv, NewsTypeOK, Mishap
<1>3. NewsTypeOK'
    BY <1>1, <1>2 DEF NewsInv, NewsTypeOK, gitlab, bridge
<1>4. \A p \in Pipelines : Times(p)' = Times(p)
    BY <1>1 DEF Times
<1>5. Deployed' = Deployed
    BY <1>1 DEF Deployed, gitlab
<1>6. NewsInOrder'
    BY <1>1, <1>4, <1>5 DEF NewsInv, NewsInOrder, bridge
<1>7. \A p \in Pipelines : ToTell(p)' => ToTell(p) \/ slips' > slips
    BY <1>1, <1>2 DEF ToTell
<1>8. MarkedWasTold'
    BY <1>1, <1>4 DEF NewsInv, MarkedWasTold, NewsTypeOK
<1>9. QED
    BY <1>1, <1>2, <1>3, <1>6, <1>7, <1>8, TickNews DEF NewsInv, bridge

\* The message goes out: the only step that says something.
LEMMA PublishStep == NewsInv /\ PublishNews(TRUE, TRUE) => NewsInv'
<1> SUFFICES ASSUME NewsInv, PublishNews(TRUE, TRUE) PROVE NewsInv'
    OBVIOUS
<1>1. /\ UNCHANGED <<gitlab, bridge, marker, about, slips, baseline, overdue, mishaps>>
      /\ tickAt = "publishing" /\ tickAt' = "marking" /\ said' = Append(said, about)
    BY DEF PublishNews, Told
<1>2. about \in Pipelines /\ slips \in Nat /\ said \in Seq(Pipelines)
    BY <1>1 DEF NewsInv, NewsInOrder, NewsTypeOK
<1>3. \A p \in Pipelines : /\ Times(p) \in Nat
                            /\ Times(p)' = IF p = about THEN Times(p) + 1 ELSE Times(p)
    BY <1>1, <1>2, TimesAppended DEF Times
<1>4. NewsTypeOK'
    BY <1>1, <1>2 DEF NewsInv, NewsTypeOK, gitlab, bridge
<1>5. Deployed' = Deployed
    BY <1>1 DEF Deployed, gitlab
<1>6. NewsInOrder'
    <2>1. \A p \in Pipelines : p > about => Times(p)' = 0
        BY <1>2, <1>3 DEF NewsInv, NewsInOrder, Pipelines
    <2>2. QED
        BY <1>1, <1>2, <1>5, <2>1 DEF NewsInv, NewsInOrder, bridge
<1>7. \A p \in Pipelines : Times(p)' <= IF ToTell(p)' THEN slips ELSE 1 + slips
    <2>1. \A p \in Pipelines : p # about => (ToTell(p)' <=> ToTell(p))
        BY <1>1 DEF ToTell
    <2>2. \A p \in Pipelines : p = about => ToTell(p) /\ ~ToTell(p)'
        BY <1>1 DEF ToTell
    <2>3. \A p \in Pipelines : p = about => Times(p) <= slips
        BY <1>2, <2>2 DEF NewsInv, SlipsCount
    <2>4. \A p \in Pipelines : p # about => Times(p) <= IF ToTell(p) THEN slips ELSE 1 + slips
        BY DEF NewsInv, SlipsCount
    <2>5. \A p \in Pipelines : p = about => Times(p)' <= 1 + slips /\ ~ToTell(p)'
        BY <1>2, <1>3, <2>2, <2>3
    <2>6. \A p \in Pipelines : p # about => Times(p)' <= IF ToTell(p)' THEN slips ELSE 1 + slips
        BY <1>3, <2>1, <2>4
    <2>7. QED
        BY <2>5, <2>6
<1>8. SlipsCount'
    BY <1>1, <1>2, <1>3, <1>7 DEF SlipsCount
<1>9. MarkedWasTold'
    BY <1>1, <1>3 DEF NewsInv, MarkedWasTold, NewsTypeOK
<1>10. QED
    BY <1>4, <1>6, <1>8, <1>9 DEF NewsInv

\* A message whose answer was lost is a slip, and is still to be told.
LEMMA UnheardStep == NewsInv /\ PublishNews(TRUE, FALSE) => NewsInv'
<1> SUFFICES ASSUME NewsInv, PublishNews(TRUE, FALSE) PROVE NewsInv'
    OBVIOUS
<1>1. /\ UNCHANGED <<gitlab, bridge, marker, about, baseline, overdue>> /\ Mishap
      /\ tickAt = "publishing" /\ tickAt' = "idle" /\ said' = Append(said, about)
      /\ slips' = slips + 1
    BY DEF PublishNews, Told
<1>2. about \in Pipelines /\ slips \in Nat /\ said \in Seq(Pipelines)
    BY <1>1 DEF NewsInv, NewsInOrder, NewsTypeOK
<1>3. \A p \in Pipelines : /\ Times(p) \in Nat
                            /\ Times(p)' = IF p = about THEN Times(p) + 1 ELSE Times(p)
    BY <1>1, <1>2, TimesAppended DEF Times
<1>4. NewsTypeOK'
    <2>1. mishaps' \in 0..MaxMishaps
        BY <1>1, NewsAssumption DEF NewsInv, NewsTypeOK, Mishap
    <2>2. said' \in Seq(Pipelines) /\ slips' \in Nat
        BY <1>1, <1>2
    <2>3. QED
        BY <1>1, <2>1, <2>2 DEF NewsInv, NewsTypeOK, gitlab, bridge
<1>5. Deployed' = Deployed
    BY <1>1 DEF Deployed, gitlab
<1>6. NewsInOrder'
    <2>1. \A p \in Pipelines : p > about => Times(p)' = 0
        BY <1>2, <1>3 DEF NewsInv, NewsInOrder, Pipelines
    <2>2. QED
        BY <1>1, <1>2, <1>5, <2>1 DEF NewsInv, NewsInOrder, bridge
<1>7. ASSUME NEW p \in Pipelines PROVE Times(p)' <= slips'
    <2>1. CASE p = about
        <3>1. ToTell(p)
            BY <1>1, <2>1 DEF ToTell
        <3>2. Times(p) <= slips
            BY <3>1 DEF NewsInv, SlipsCount
        <3>3. QED
            BY <1>1, <1>2, <1>3, <2>1, <3>2
    <2>2. CASE p # about
        <3>1. Times(p) <= 1 + slips
            BY <1>2, <1>3 DEF NewsInv, SlipsCount
        <3>2. QED
            BY <1>1, <1>2, <1>3, <2>2, <3>1
    <2>3. QED
        BY <2>1, <2>2
<1>8. SlipsCount'
    <2>1. \A p \in Pipelines : Times(p)' <= 1 + slips'
        BY <1>1, <1>2, <1>3, <1>7
    <2>2. QED
        BY <1>1, <1>7, <2>1 DEF SlipsCount
<1>9. MarkedWasTold'
    BY <1>1, <1>3 DEF NewsInv, MarkedWasTold, NewsTypeOK
<1>10. QED
    BY <1>4, <1>6, <1>8, <1>9 DEF NewsInv

\* The marker follows the message.
LEMMA RememberNews == NewsInv /\ Remember => NewsInv'
<1> SUFFICES ASSUME NewsInv, Remember PROVE NewsInv'
    OBVIOUS
<1>1. /\ UNCHANGED <<gitlab, bridge, about, past, mishaps>>
      /\ tickAt = "marking" /\ tickAt' = "idle" /\ marker' = about
    BY DEF Remember
<1>2. about \in Pipelines /\ about \in Nat /\ slips \in Nat
    BY <1>1 DEF NewsInv, NewsInOrder, NewsTypeOK, Pipelines
<1>3. NewsTypeOK'
    BY <1>1, <1>2 DEF NewsInv, NewsTypeOK, gitlab, bridge, past
<1>4. \A p \in Pipelines : Times(p)' = Times(p)
    BY <1>1 DEF Times, past
<1>5. Deployed' = Deployed
    BY <1>1 DEF Deployed, gitlab
<1>6. NewsInOrder'
    BY <1>1, <1>2, <1>4, <1>5 DEF NewsInv, NewsInOrder, bridge
<1>7. \A p \in Pipelines : p <= about => ~ToTell(p)'
    BY <1>1, <1>2 DEF ToTell, Pipelines
<1>8. MarkedWasTold'
    BY <1>1, <1>2, <1>4 DEF NewsInv, SlipsCount, MarkedWasTold
<1>9. QED
    BY <1>1, <1>2, <1>3, <1>6, <1>7, <1>8, TickNews DEF past, bridge

LEMMA StepNews == NewsInv /\ [NewsNext]_newsVars => NewsInv'
<1>1. NewsInv /\ UNCHANGED newsVars => NewsInv'
    BY DEF NewsInv, newsVars, NewsTypeOK, NewsInOrder, SlipsCount, MarkedWasTold, ToTell, Times,
           Deployed
<1>2. ASSUME NewsInv, NewsNext PROVE NewsInv'
    <2>1. ASSUME NEW reached \in BOOLEAN, PublishNews(reached, FALSE) PROVE NewsInv'
        BY <1>2, <2>1, TickSteps, UnheardStep
    <2>2. QED
        BY <1>2, <2>1, GitlabSteps, BridgeSteps, AnswerNews, DecideNews, TickSteps, PublishStep,
            RememberNews DEF NewsNext, TickStep
<1>3. QED
    BY <1>1, <1>2

\* The order of pipelines, marker and messages, in every reachable state.
THEOREM NewsInvariant == NewsSpec => []NewsInv
BY InitNews, StepNews, PTL DEF NewsSpec

\* A deploy is told once but for slips, and the marker stands where the chat
\* was told or was not to be told, whatever fails or starts over and when.
THEOREM NewsStayTrue == NewsSpec => []NewsAreToldOnce
<1>1. NewsInv => NewsAreToldOnce
    <2> SUFFICES ASSUME NewsInv PROVE NewsAreToldOnce
        OBVIOUS
    <2>1. \A p \in Pipelines : Times(p) \in Nat /\ slips \in Nat
        BY TimesAreNat DEF NewsInv, NewsTypeOK
    <2>2. QED
        BY <2>1 DEF NewsInv, SlipsCount, NewsAreToldOnce, AnnouncedOnce
<1>2. QED
    BY <1>1, NewsInvariant, PTL
-----------------------------------------------------------------------------
(* Follow-ups of Hermes                                                    *)

\* A run is at work for a job only while the job polls it, an ask that is not
\* through with its job has no fate yet, and nothing is reported before a post.
AsksInOrder ==
    \A a \in Asks :
        /\ stage[a] \in {"waiting", "reporting"} => run[a] # "working"
        /\ stage[a] \in {"idle", "task", "waiting", "running"} => fate[a] = "none"
        /\ stage[a] \notin {"posted", "closed"} => saved[a] = {}

FollowInv == FollowTypeOK /\ AsksInOrder /\ FollowUpsHold

\* Asks that take a stage are one more, those that leave one are fewer.
LEMMA AsksAreFew ==
    ASSUME NEW S \in SUBSET Asks, NEW a \in Asks
    PROVE  /\ Cardinality(S) \in Nat
           /\ Cardinality(S \cup {a}) <= Cardinality(S) + 1
           /\ \A T \in SUBSET S : Cardinality(T) <= Cardinality(S) /\ Cardinality(T) \in Nat
<1>1. IsFiniteSet(S) /\ Cardinality(S) \in Nat
    BY FollowAssumption, FS_Subset, FS_CardinalityType
<1>2. Cardinality(S \cup {a}) <= Cardinality(S) + 1
    BY <1>1, FS_AddElement
<1>3. \A T \in SUBSET S : Cardinality(T) <= Cardinality(S) /\ Cardinality(T) \in Nat
    BY <1>1, FS_Subset, FS_CardinalityType
<1>4. QED
    BY <1>1, <1>2, <1>3

\* A step after which the worker has no more jobs than before keeps what holds
\* of the jobs together.
LEMMA FewerJobs ==
    ASSUME FollowTypeOK, OneJobPerQuestion, JobsAreBounded,
           Jobs' \subseteq Jobs, In({"running", "reporting"})' \subseteq In({"running", "reporting"})
    PROVE  OneJobPerQuestion' /\ JobsAreBounded'
<1>1. Jobs \in SUBSET Asks /\ In({"running", "reporting"}) \in SUBSET Asks
    BY DEF Jobs, In
<1>2. /\ Cardinality(Jobs') <= Cardinality(Jobs)
      /\ Cardinality(In({"running", "reporting"})') <= Cardinality(In({"running", "reporting"}))
      /\ {Cardinality(Jobs), Cardinality(Jobs'), Cardinality(In({"running", "reporting"})),
          Cardinality(In({"running", "reporting"})')} \subseteq Nat
    <2>1. CASE Asks = {}
        BY <2>1, <1>1, FS_EmptySet
    <2>2. CASE Asks # {}
        BY <2>2, <1>1, AsksAreFew
    <2>3. QED
        BY <2>1, <2>2
<1>3. JobsAreBounded'
    BY <1>2, FollowAssumption DEF JobsAreBounded
<1>4. OneJobPerQuestion'
    BY DEF OneJobPerQuestion, IsRephrase
<1>5. QED
    BY <1>3, <1>4

LEMMA InitFollow == FollowInit => FollowInv
<1> SUFFICES ASSUME FollowInit PROVE FollowInv
    OBVIOUS
<1> USE FollowAssumption DEF FollowInit
<1>1. FollowTypeOK
    BY DEF FollowTypeOK, Stages, JobStages, Fates, RunStates, Positions
<1>2. AsksInOrder
    BY DEF AsksInOrder
<1>3. Jobs = {} /\ In({"running", "reporting"}) = {}
    BY DEF Jobs, In, JobStages
<1>4. OneJobPerQuestion /\ JobsAreBounded
    <2>1. Cardinality(Jobs) = 0 /\ Cardinality(In({"running", "reporting"})) = 0
        BY <1>3, FS_EmptySet
    <2>2. JobsAreBounded
        BY <2>1 DEF JobsAreBounded
    <2>3. OneJobPerQuestion
        BY <1>3 DEF OneJobPerQuestion
    <2>4. QED
        BY <2>2, <2>3
<1>5. NoRunOutlivesItsWait /\ RowsWereShown
    BY DEF NoRunOutlivesItsWait, RowsWereShown
<1>6. QED
    BY <1>1, <1>2, <1>4, <1>5 DEF FollowInv, FollowUpsHold

\* The agent's and the worker's early exits: an ask is closed before its job.
LEMMA ClosedBeforeItsJob ==
    \A a \in Asks : FollowInv /\ (IsCovered(a) \/ Offline(a) \/ Merge(a) \/ TooMany(a) \/ Submit(a))
                        => FollowInv'
<1> SUFFICES ASSUME NEW a \in Asks, FollowInv,
                    IsCovered(a) \/ Offline(a) \/ Merge(a) \/ TooMany(a) \/ Submit(a)
             PROVE  FollowInv'
    OBVIOUS
<1> USE DEF FollowInv, FollowUpsHold
<1>1. PICK s \in {"task", "closed"}, f \in {"none", "covered", "offline", "merged", "dropped"} :
          /\ stage' = [stage EXCEPT ![a] = s] /\ fate' = [fate EXCEPT ![a] = f]
          /\ s = "task" => f = "none"
          /\ stage[a] \in {"idle", "task"}
          /\ UNCHANGED <<run, polls, file, shown, saved, noted>>
    BY DEF IsCovered, Offline, Merge, TooMany, Submit, Close, FollowTypeOK, AsksInOrder
<1>2. FollowTypeOK'
    BY <1>1 DEF FollowTypeOK, Stages, Fates
<1>3. AsksInOrder'
    BY <1>1 DEF FollowTypeOK, AsksInOrder
<1>4. a \notin Jobs /\ Jobs' = Jobs /\ In({"running", "reporting"})' = In({"running", "reporting"})
    BY <1>1 DEF FollowTypeOK, Jobs, In, JobStages
<1>5. NoRunOutlivesItsWait'
    <2>1. run[a] # "working"
        BY <1>1, <1>4 DEF AsksInOrder, NoRunOutlivesItsWait
    <2>2. QED
        BY <2>1, <1>1, <1>4 DEF FollowTypeOK, NoRunOutlivesItsWait
<1>6. RowsWereShown'
    BY <1>1 DEF RowsWereShown
<1>7. QED
    BY <1>2, <1>3, <1>4, <1>5, <1>6, FewerJobs

\* The worker takes the task: nobody in it asks the same, and it has room.
LEMMA ScheduleFollow == \A a \in Asks : FollowInv /\ Schedule(a) => FollowInv'
<1> SUFFICES ASSUME NEW a \in Asks, FollowInv, Schedule(a) PROVE FollowInv'
    OBVIOUS
<1> USE DEF FollowInv, FollowUpsHold
<1>1. /\ stage[a] = "task" /\ stage' = [stage EXCEPT ![a] = "waiting"]
      /\ UNCHANGED <<fate, run, polls, file, shown, saved, noted>>
      /\ ~Repeats(a) /\ Cardinality(Jobs) < MaxJobs
    BY DEF Schedule
<1>2. Jobs \in SUBSET Asks /\ a \notin Jobs /\ Jobs' = Jobs \cup {a}
      /\ In({"running", "reporting"})' = In({"running", "reporting"})
    BY <1>1 DEF FollowTypeOK, Jobs, In, JobStages
<1>3. run[a] # "working" /\ fate[a] = "none" /\ saved[a] = {}
    BY <1>1, <1>2 DEF AsksInOrder, NoRunOutlivesItsWait
<1>4. FollowTypeOK'
    BY <1>1 DEF FollowTypeOK, Stages, JobStages
<1>5. AsksInOrder'
    BY <1>1, <1>3 DEF FollowTypeOK, AsksInOrder
<1>6. OneJobPerQuestion'
    <2>1. \A b \in Jobs : ~IsRephrase(a, b) /\ ~IsRephrase(b, a)
        <3>1. \A b \in Jobs : {a, b} = {b, a}
            OBVIOUS
        <3>2. QED
            BY <3>1, <1>1 DEF Repeats, IsRephrase
    <2>2. QED
        BY <2>1, <1>2 DEF OneJobPerQuestion, IsRephrase
<1>7. JobsAreBounded'
    <2>1. Cardinality(Jobs) \in Nat /\ Cardinality(Jobs \cup {a}) <= Cardinality(Jobs) + 1
          /\ Cardinality(Jobs \cup {a}) \in Nat
        <3>1. Jobs \cup {a} \in SUBSET Asks
            BY <1>2
        <3>2. QED
            BY <1>2, <3>1, AsksAreFew
    <2>2. Cardinality(Jobs') <= MaxJobs
        BY <2>1, <1>1, <1>2, FollowAssumption
    <2>3. QED
        BY <2>2, <1>2 DEF JobsAreBounded
<1>8. NoRunOutlivesItsWait' /\ RowsWereShown'
    BY <1>1, <1>2, <1>3 DEF NoRunOutlivesItsWait, RowsWereShown
<1>9. QED
    BY <1>4, <1>5, <1>6, <1>7, <1>8

LEMMA NoPolls == 0 \in 0..MaxPolls
BY FollowAssumption

\* A job gets a slot: it runs, or reports at once that Hermes is away.
LEMMA SlotFollow == \A a \in Asks : FollowInv /\ (StartRun(a) \/ StartFails(a)) => FollowInv'
<1> SUFFICES ASSUME NEW a \in Asks, FollowInv, StartRun(a) \/ StartFails(a) PROVE FollowInv'
    OBVIOUS
<1> USE DEF FollowInv, FollowUpsHold
<1>1. PICK s \in {"running", "reporting"}, r \in RunStates, f \in {"none", "unavailable"} :
          /\ stage' = [stage EXCEPT ![a] = s] /\ run' = [run EXCEPT ![a] = r]
          /\ fate' = [fate EXCEPT ![a] = f]
          /\ s = "running" => r = "working" /\ f = "none"
          /\ s = "reporting" => r # "working"
          /\ polls' = polls \/ polls' = [polls EXCEPT ![a] = 0]
          /\ stage[a] = "waiting" /\ Cardinality(In({"running", "reporting"})) < Parallel
          /\ UNCHANGED <<file, shown, saved, noted>>
    <2>1. CASE StartRun(a)
        <3>1. fate[a] = "none" /\ fate' = [fate EXCEPT ![a] = "none"]
            BY <2>1 DEF StartRun, HasSlot, FollowTypeOK, AsksInOrder
        <3>2. QED
            BY <2>1, <3>1 DEF StartRun, HasSlot, RunStates
    <2>2. CASE StartFails(a)
        BY <2>2 DEF StartFails, HasSlot, Outcome, RunStates
    <2>3. QED
        BY <2>1, <2>2
<1>2. polls' \in [Asks -> 0..MaxPolls]
    BY <1>1, FollowAssumption DEF FollowTypeOK
<1>3. FollowTypeOK'
    BY <1>1, <1>2 DEF FollowTypeOK, Stages, JobStages, Fates
<1>4. AsksInOrder'
    BY <1>1 DEF FollowTypeOK, AsksInOrder
<1>5. Jobs' = Jobs /\ In({"running", "reporting"})' = In({"running", "reporting"}) \cup {a}
    BY <1>1 DEF FollowTypeOK, Jobs, In, JobStages
<1>6. JobsAreBounded'
    <2>1. In({"running", "reporting"}) \in SUBSET Asks
          /\ In({"running", "reporting"}) \cup {a} \in SUBSET Asks
        BY DEF In
    <2>2. /\ Cardinality(In({"running", "reporting"})) \in Nat
          /\ Cardinality(In({"running", "reporting"}) \cup {a}) \in Nat
          /\ Cardinality(In({"running", "reporting"}) \cup {a})
                <= Cardinality(In({"running", "reporting"})) + 1
        BY <2>1, AsksAreFew
    <2>3. Cardinality(In({"running", "reporting"}) \cup {a}) <= Parallel
        BY <2>2, <1>1, FollowAssumption
    <2>4. QED
        BY <2>3, <1>5 DEF JobsAreBounded
<1>7. OneJobPerQuestion'
    BY <1>5 DEF OneJobPerQuestion, IsRephrase
<1>8. NoRunOutlivesItsWait'
    <2>1. a \in Jobs
        BY <1>1 DEF Jobs, In, JobStages
    <2>2. QED
        BY <2>1, <1>1, <1>5 DEF FollowTypeOK, NoRunOutlivesItsWait
<1>9. RowsWereShown'
    BY <1>1 DEF RowsWereShown
<1>10. QED
    BY <1>3, <1>4, <1>6, <1>7, <1>8, <1>9

\* A poll: the run goes on, or the job has its outcome and the run is not at
\* work for it any more.
LEMMA PollFollow ==
    \A a \in Asks : FollowInv /\ (\/ PollEnded(a) \/ PollAgain(a) \/ PollFails(a)
                                  \/ \E wantsHuman \in BOOLEAN : StopRun(a, wantsHuman))
                        => FollowInv'
<1> SUFFICES ASSUME NEW a \in Asks, FollowInv,
                    \/ PollEnded(a) \/ PollAgain(a) \/ PollFails(a)
                    \/ \E wantsHuman \in BOOLEAN : StopRun(a, wantsHuman)
             PROVE  FollowInv'
    OBVIOUS
<1> USE DEF FollowInv, FollowUpsHold
<1>1. CASE PollAgain(a)
    <2> USE <1>1
    <2>1. UNCHANGED <<stage, fate, run, file, shown, saved, noted>>
          /\ polls' \in [Asks -> 0..MaxPolls]
        BY FollowAssumption DEF PollAgain, PastDeadline, FollowTypeOK
    <2>2. FollowTypeOK' /\ AsksInOrder'
        BY <2>1 DEF FollowTypeOK, AsksInOrder
    <2>3. Jobs' = Jobs /\ In({"running", "reporting"})' = In({"running", "reporting"})
        BY <2>1 DEF Jobs, In
    <2>4. NoRunOutlivesItsWait' /\ RowsWereShown'
        BY <2>1, <2>3 DEF NoRunOutlivesItsWait, RowsWereShown
    <2>5. QED
        BY <2>2, <2>3, <2>4, FewerJobs
<1>2. CASE ~PollAgain(a)
    <2>1. PICK r \in {"ended", "cut off"}, f \in {"answered", "no_answer", "unavailable"} :
              /\ stage' = [stage EXCEPT ![a] = "reporting"] /\ run' = [run EXCEPT ![a] = r]
              /\ fate' = [fate EXCEPT ![a] = f] /\ polls' = [polls EXCEPT ![a] = 0]
              /\ stage[a] = "running"
              /\ UNCHANGED <<file, shown, saved, noted>>
        BY <1>2 DEF PollEnded, PollFails, StopRun, Outcome
    <2>2. FollowTypeOK'
        <3>1. polls' \in [Asks -> 0..MaxPolls]
            BY <2>1, NoPolls DEF FollowTypeOK
        <3>2. QED
            BY <2>1, <3>1 DEF FollowTypeOK, Stages, JobStages, Fates, RunStates
    <2>3. AsksInOrder'
        BY <2>1 DEF FollowTypeOK, AsksInOrder
    <2>4. Jobs' = Jobs /\ In({"running", "reporting"})' = In({"running", "reporting"})
        BY <2>1 DEF FollowTypeOK, Jobs, In, JobStages
    <2>5. NoRunOutlivesItsWait' /\ RowsWereShown'
        BY <2>1, <2>4 DEF FollowTypeOK, NoRunOutlivesItsWait, RowsWereShown
    <2>6. QED
        BY <2>2, <2>3, <2>4, <2>5, FewerJobs
<1>3. QED
    BY <1>1, <1>2

\* A job is over: published, failed, or gone with its process.
LEMMA JobsOver ==
    FollowInv /\ ((\E a \in Asks : Publish(a) \/ JobFails(a)) \/ WorkerRestarts) => FollowInv'
<1> SUFFICES ASSUME FollowInv, (\E a \in Asks : Publish(a) \/ JobFails(a)) \/ WorkerRestarts
             PROVE  FollowInv'
    OBVIOUS
<1> USE DEF FollowInv, FollowUpsHold
<1>1. ASSUME NEW a \in Asks, Publish(a) PROVE FollowInv'
    <2> USE <1>1
    <2>1. PICK doc \in BOOLEAN :
              /\ stage[a] = "reporting" /\ stage' = [stage EXCEPT ![a] = "outbound"]
              /\ file' = [file EXCEPT ![a] = doc]
              /\ UNCHANGED <<fate, run, polls, shown, saved, noted>>
        BY DEF Publish, MayAttach
    <2>2. FollowTypeOK'
        BY <2>1 DEF FollowTypeOK, Stages
    <2>3. AsksInOrder'
        BY <2>1 DEF FollowTypeOK, AsksInOrder
    <2>4. Jobs' \subseteq Jobs /\ In({"running", "reporting"})' \subseteq In({"running", "reporting"})
          /\ Jobs \ Jobs' = {a}
        BY <2>1 DEF FollowTypeOK, Jobs, In, JobStages
    <2>5. NoRunOutlivesItsWait'
        BY <2>1, <2>4 DEF AsksInOrder, NoRunOutlivesItsWait
    <2>6. RowsWereShown'
        BY <2>1 DEF FollowTypeOK, AsksInOrder, RowsWereShown
    <2>7. QED
        BY <2>2, <2>3, <2>4, <2>5, <2>6, FewerJobs
<1>2. ASSUME NEW a \in Asks, JobFails(a) PROVE FollowInv'
    <2> USE <1>2
    <2>1. /\ stage[a] \in JobStages /\ stage' = [stage EXCEPT ![a] = "closed"]
          /\ fate' = [fate EXCEPT ![a] = "failed"] /\ polls' = [polls EXCEPT ![a] = 0]
          /\ UNCHANGED <<run, file, shown, saved, noted>>
        BY DEF JobFails, HasSlot, Close, JobStages
    <2>2. FollowTypeOK'
        <3>1. polls' \in [Asks -> 0..MaxPolls]
            BY <2>1, NoPolls DEF FollowTypeOK
        <3>2. QED
            BY <2>1, <3>1 DEF FollowTypeOK, Stages, Fates
    <2>3. AsksInOrder'
        BY <2>1 DEF FollowTypeOK, AsksInOrder
    <2>4. Jobs' \subseteq Jobs /\ In({"running", "reporting"})' \subseteq In({"running", "reporting"})
          /\ Jobs \ Jobs' \subseteq {a}
        BY <2>1 DEF FollowTypeOK, Jobs, In, JobStages
    <2>5. NoRunOutlivesItsWait' /\ RowsWereShown'
        BY <2>1, <2>4 DEF FollowTypeOK, NoRunOutlivesItsWait, RowsWereShown
    <2>6. QED
        BY <2>2, <2>3, <2>4, <2>5, FewerJobs
<1>3. ASSUME WorkerRestarts PROVE FollowInv'
    <2> USE <1>3
    <2>1. /\ stage' = [a \in Asks |-> IF a \in Jobs THEN "closed" ELSE stage[a]]
          /\ fate' = [a \in Asks |-> IF a \in Jobs THEN "killed" ELSE fate[a]]
          /\ polls' = [a \in Asks |-> 0]
          /\ UNCHANGED <<run, file, shown, saved, noted>>
        BY DEF WorkerRestarts
    <2>2. FollowTypeOK'
        <3>1. polls' \in [Asks -> 0..MaxPolls]
            BY <2>1, NoPolls
        <3>2. stage' \in [Asks -> Stages] /\ fate' \in [Asks -> Fates]
            BY <2>1 DEF FollowTypeOK, Stages, Fates
        <3>3. QED
            BY <2>1, <3>1, <3>2 DEF FollowTypeOK
    <2>3. AsksInOrder'
        BY <2>1 DEF FollowTypeOK, AsksInOrder, Jobs, In, JobStages
    <2>4. Jobs' = {} /\ In({"running", "reporting"})' = {}
        BY <2>1 DEF Jobs, In, JobStages
    <2>5. NoRunOutlivesItsWait' /\ RowsWereShown'
        BY <2>1 DEF NoRunOutlivesItsWait, RowsWereShown
    <2>6. QED
        BY <2>2, <2>3, <2>4, <2>5, FewerJobs
<1>4. QED
    BY <1>1, <1>2, <1>3

\* The bot and the agent's record: what is reported of a post was in the chat,
\* but for the caption of its file.
LEMMA PostFollow ==
    \A a \in Asks : FollowInv /\ (PostAnswer(a) \/ PostUnreported(a) \/ Record(a) \/ RecordLost(a))
                        => FollowInv'
<1> SUFFICES ASSUME NEW a \in Asks, FollowInv,
                    PostAnswer(a) \/ PostUnreported(a) \/ Record(a) \/ RecordLost(a)
             PROVE  FollowInv'
    OBVIOUS
<1> USE DEF FollowInv, FollowUpsHold
<1>1. PICK s \in {"posted", "closed"} :
          /\ stage' = [stage EXCEPT ![a] = s] /\ stage[a] \in {"outbound", "posted"}
          /\ UNCHANGED <<fate, run, polls, file>> /\ noted' \in {noted, noted \cup {a}}
    BY DEF PostAnswer, PostUnreported, Record, RecordLost
<1>2. /\ shown' \in [Asks -> SUBSET Positions] /\ saved' \in [Asks -> SUBSET Positions]
      /\ saved'[a] \subseteq shown'[a] \cup (IF file[a] THEN {1} ELSE {})
      /\ \A b \in Asks : b # a => shown'[b] = shown[b] /\ saved'[b] = saved[b]
    <2>1. CASE PostAnswer(a)
        <3>1. PICK main \in BOOLEAN : \E extras \in Extras(a, main) :
                  /\ shown' = [shown EXCEPT ![a] = (IF main THEN {1} ELSE {}) \cup 2..(1 + extras)]
                  /\ saved' = [saved EXCEPT ![a] = Claimed(a, main, extras)]
            BY <2>1 DEF PostAnswer
        <3>2. PICK extras \in 0..(MaxParts - 1) :
                  /\ shown' = [shown EXCEPT ![a] = (IF main THEN {1} ELSE {}) \cup 2..(1 + extras)]
                  /\ saved' = [saved EXCEPT ![a] = Claimed(a, main, extras)]
            <4>1. Extras(a, main) \subseteq 0..(MaxParts - 1)
                BY FollowAssumption DEF Extras
            <4>2. QED
                BY <3>1, <4>1
        <3>3. 1..(1 + extras) \subseteq Positions /\ 2..(1 + extras) \subseteq Positions /\ 1 \in Positions
            BY FollowAssumption DEF Positions
        <3>4. Claimed(a, main, extras) \subseteq Positions
            BY <3>3 DEF Claimed
        <3>5. shown'[a] = (IF main THEN {1} ELSE {}) \cup 2..(1 + extras)
              /\ saved'[a] = Claimed(a, main, extras)
            BY <3>2 DEF FollowTypeOK
        <3>6. shown' \in [Asks -> SUBSET Positions] /\ saved' \in [Asks -> SUBSET Positions]
            BY <3>2, <3>3, <3>4 DEF FollowTypeOK
        <3>7. \A n \in 1..(1 + extras) : n = 1 \/ n \in 2..(1 + extras)
            OBVIOUS
        <3>8. saved'[a] \subseteq shown'[a] \cup (IF file[a] THEN {1} ELSE {})
            BY <3>5, <3>7 DEF Claimed
        <3>9. QED
            BY <3>2, <3>6, <3>8 DEF FollowTypeOK
    <2>2. CASE PostUnreported(a)
        <3>1. PICK k \in 0..MaxParts : shown' = [shown EXCEPT ![a] = 1..k] /\ saved' = saved
            BY <2>2 DEF PostUnreported
        <3>2. 1..k \subseteq Positions
            BY FollowAssumption DEF Positions
        <3>3. saved[a] = {}
            BY <2>2 DEF PostUnreported, AsksInOrder
        <3>4. QED
            BY <3>1, <3>2, <3>3 DEF FollowTypeOK
    <2>3. CASE Record(a) \/ RecordLost(a)
        BY <2>3 DEF Record, RecordLost, FollowTypeOK, RowsWereShown
    <2>4. QED
        BY <2>1, <2>2, <2>3
<1>3. FollowTypeOK'
    BY <1>1, <1>2 DEF FollowTypeOK, Stages
<1>4. AsksInOrder'
    BY <1>1, <1>2 DEF FollowTypeOK, AsksInOrder
<1>5. Jobs' = Jobs /\ In({"running", "reporting"})' = In({"running", "reporting"})
    BY <1>1 DEF FollowTypeOK, Jobs, In, JobStages
<1>6. NoRunOutlivesItsWait' /\ RowsWereShown'
    BY <1>1, <1>2, <1>5 DEF NoRunOutlivesItsWait, RowsWereShown
<1>7. QED
    BY <1>3, <1>4, <1>5, <1>6, FewerJobs

LEMMA StepFollow == FollowInv /\ [FollowNext]_followVars => FollowInv'
<1>1. FollowInv /\ UNCHANGED followVars => FollowInv'
    BY DEF FollowInv, followVars, FollowTypeOK, AsksInOrder, FollowUpsHold, OneJobPerQuestion,
           JobsAreBounded, NoRunOutlivesItsWait, RowsWereShown, Jobs, In
<1>2. FollowInv /\ Forget => FollowInv'
    BY DEF Forget, FollowInv, FollowTypeOK, AsksInOrder, FollowUpsHold, OneJobPerQuestion,
           JobsAreBounded, NoRunOutlivesItsWait, RowsWereShown, Jobs, In
<1>3. QED
    BY <1>1, <1>2, ClosedBeforeItsJob, ScheduleFollow, SlotFollow, PollFollow, JobsOver, PostFollow
       DEF FollowNext, JobStep

\* The order of an ask's stages and what is shown of it, in every reachable state.
THEOREM FollowInvariant == FollowSpec => []FollowInv
BY InitFollow, StepFollow, PTL DEF FollowSpec

\* What the worker holds, what Hermes runs for it and what the chat was told
\* fit together, for any asks, bounds and deaths of the worker.
THEOREM FollowUpsStayTrue == FollowSpec => []FollowUpsHold
<1>1. FollowInv => FollowUpsHold
    BY DEF FollowInv
<1>2. QED
    BY <1>1, FollowInvariant, PTL
-----------------------------------------------------------------------------
(* The body in VRChat                                                      *)

\* Half to even, a side that is not longer than the longest scales to no more
\* than the longest is to have.
LEMMA ScaledFits ==
    ASSUME NEW n \in Nat, NEW side \in Nat \ {0}, NEW long \in Nat \ {0}, n <= long
    PROVE  Scaled(n, side, long) \in 0..side
<1> DEFINE q == (n * side) \div long
           r == (n * side) % long
<1>1. n * side \in Nat /\ long * side \in Nat /\ n * side <= long * side
    OBVIOUS
<1>2. q \in Int /\ r \in 0..(long - 1) /\ n * side = long * q + r
    BY <1>1
<1> HIDE DEF q, r
<1>3. q >= 0
    BY <1>1, <1>2
<1>4. q <= side
    BY <1>1, <1>2
<1>5. q = side => r = 0
    BY <1>1, <1>2
<1>6. Scaled(n, side, long) = IF 2 * r > long \/ (2 * r = long /\ q % 2 = 1) THEN q + 1 ELSE q
    BY DEF Scaled, q, r
<1>7. QED
    BY <1>2, <1>3, <1>4, <1>5, <1>6

LEMMA GreaterOfTwo ==
    ASSUME NEW a \in Nat, NEW b \in Nat
    PROVE  Max({a, b}) = IF a >= b THEN a ELSE b
<1>1. {a, b} \in SUBSET Nat /\ {a, b} # {} /\ a + b \in Nat /\ \A n \in {a, b} : n <= a + b
    OBVIOUS
<1>2. Max({a, b}) \in {a, b} /\ \A n \in {a, b} : n <= Max({a, b})
    BY <1>1, GreatestOfNaturals
<1>3. QED
    BY <1>2

LEMMA ResizedFits ==
    ASSUME NEW shot \in (Nat \ {0}) \X (Nat \ {0}), NEW side \in Nat \ {0}
    PROVE  LET small == ResizeLongSide(shot, side)
           IN  small \in Nat \X Nat /\ small[1] \in 1..side /\ small[2] \in 1..side
<1> DEFINE long == Max({shot[1], shot[2]})
           To(n) == Max({1, Scaled(n, side, long)})
<1>1. long \in Nat \ {0} /\ shot[1] \in 1..long /\ shot[2] \in 1..long
    BY GreaterOfTwo
<1>2. ASSUME long <= side PROVE shot[1] \in 1..side /\ shot[2] \in 1..side
    BY <1>1, <1>2
<1> HIDE DEF long
<1>3. \A n \in 1..long : To(n) \in 1..side
    <2> SUFFICES ASSUME NEW n \in 1..long PROVE To(n) \in 1..side
        OBVIOUS
    <2>1. n \in Nat /\ n <= long /\ long \in Nat \ {0}
        BY <1>1
    <2>2. Scaled(n, side, long) \in 0..side
        BY <2>1, ScaledFits
    <2>3. QED
        BY <2>2, GreaterOfTwo
<1>4. ResizeLongSide(shot, side) = IF long <= side THEN shot ELSE <<To(shot[1]), To(shot[2])>>
    BY DEF ResizeLongSide, long
<1> HIDE DEF To
<1>5. QED
    BY <1>1, <1>2, <1>3, <1>4

\* The first size that fits is under the largest side and the cap.
LEMMA PicturesFit ==
    ASSUME NEW shot \in Shots
    PROVE  LET pic == JpegUnderCap(shot)
           IN  /\ pic \in Nat \X Nat
               /\ \/ pic = NoScene
                  \/ pic[1] \in 1..Sides[1] /\ pic[2] \in 1..Sides[1] /\ FirstFitting(pic)
<1> DEFINE fits == {i \in DOMAIN Sides : FirstFitting(ResizeLongSide(shot, Sides[i]))}
<1>1. CASE fits = {}
    BY <1>1 DEF JpegUnderCap, NoScene
<1>2. CASE fits # {}
    <2>1. fits \in SUBSET Nat
        BY PresenceAssumption
    <2>2. Min(fits) \in fits
        BY <1>2, <2>1, LeastOfNaturals
    <2>3. PICK i \in DOMAIN Sides :
              /\ FirstFitting(ResizeLongSide(shot, Sides[i]))
              /\ JpegUnderCap(shot) = ResizeLongSide(shot, Sides[i])
        BY <1>2, <2>2 DEF JpegUnderCap
    <2>4. /\ Sides[i] \in Nat \ {0} /\ Sides[1] \in Nat /\ Sides[i] <= Sides[1]
          /\ shot \in (Nat \ {0}) \X (Nat \ {0})
        BY PresenceAssumption
    <2>5. /\ ResizeLongSide(shot, Sides[i]) \in Nat \X Nat
          /\ ResizeLongSide(shot, Sides[i])[1] \in 1..Sides[i]
          /\ ResizeLongSide(shot, Sides[i])[2] \in 1..Sides[i]
        BY <2>4, ResizedFits
    <2>6. QED
        BY <2>3, <2>4, <2>5
<1>3. QED
    BY <1>1, <1>2

-----------------------------------------------------------------------------
\* The turns that left the queue.
Taken == arrived - Len(queue)

\* The queue holds the last turns that came in, in their order.
QueueRuns ==
    /\ Taken \in Nat
    /\ \A i \in DOMAIN queue : queue[i] = Taken + i

\* Nothing is spoken that was not taken, and the turn of the consumer is later
\* than all that was spoken before it.
SpokenWereTaken ==
    /\ current <= Taken
    /\ \A i \in DOMAIN spoken : spoken[i] <= Taken
    /\ consumer \in {"grab", "ask"} \cup Speaking => current \in Turns
    /\ consumer \in {"grab", "ask", "gesture", "voice"} =>
           \A i \in DOMAIN spoken : spoken[i] < current

\* As long as no speech broke off, a voice sounds only in the turn that began it,
\* and the body moves only while the consumer speaks.
BodyFollows ==
    broken \/ /\ playing \subseteq {current}
              /\ consumer \notin {"visemes", "drain"} => playing = {}
              /\ consumer \in {"wait", "grab", "ask", "gesture", "voice"} => ~mouth
              /\ consumer \in {"wait", "grab", "ask", "gesture"} => gestures = {}
              /\ consumer \in {"voice", "visemes", "drain"} => gestures \subseteq {picked}

PresenceInv ==
    /\ PresenceTypeOK /\ QueueRuns /\ SpokenWereTaken /\ SpokenInOrder
    /\ BodyFollows /\ SceneFits

LEMMA PresenceInitInv ==
    ASSUME PresenceInit PROVE PresenceInv
<1> USE DEF PresenceInit
<1>1. PresenceTypeOK
    <2>1. 0 \in 0..MaxTurns /\ NoScene \in Nat \X Nat
        BY PresenceAssumption DEF NoScene
    <2>2. queue \in Seq(Turns) /\ Len(queue) <= MaxTurns /\ spoken \in Seq(Turns)
        BY PresenceAssumption
    <2>3. /\ stop \in BOOLEAN /\ listening \in BOOLEAN /\ idle \in BOOLEAN
          /\ gestures \subseteq Gestures /\ picked \in Gestures \cup {NoGesture}
          /\ mouth \in BOOLEAN /\ broken \in BOOLEAN
        OBVIOUS
    <2>4. QED
        BY <2>1, <2>2, <2>3 DEF PresenceTypeOK
<1>2. QueueRuns /\ SpokenWereTaken /\ SpokenInOrder
    BY DEF QueueRuns, SpokenWereTaken, SpokenInOrder, Taken, Speaking
<1>3. BodyFollows /\ SceneFits
    BY DEF BodyFollows, SceneFits
<1>4. QED
    BY <1>1, <1>2, <1>3 DEF PresenceInv

\* A turn that comes in goes behind the others.
LEMMA EnqueueKeeps ==
    ASSUME PresenceTypeOK, QueueRuns, NEW messages, Enqueue(messages)
    PROVE  /\ arrived' \in 0..MaxTurns /\ queue' \in Seq(Turns) /\ Len(queue') <= MaxTurns
           /\ Taken' = Taken /\ QueueRuns'
<1>1. /\ arrived \in 0..MaxTurns /\ queue \in Seq(Turns) /\ Len(queue) <= MaxTurns
      /\ arrived - Len(queue) \in Nat
      /\ \A i \in 1..Len(queue) : queue[i] = arrived - Len(queue) + i
    BY DEF PresenceTypeOK, QueueRuns, Taken
<1>2. CASE messages = {}
    BY <1>2 DEF Enqueue, PresenceTypeOK, QueueRuns, Taken
<1>3. CASE messages # {}
    <2>1. /\ arrived < MaxTurns /\ arrived' = arrived + 1 /\ queue' = Append(queue, arrived + 1)
          /\ arrived + 1 \in Turns
        BY <1>1, <1>3, PresenceAssumption DEF Enqueue, Turns
    <2>2. /\ queue' \in Seq(Turns) /\ Len(queue') = Len(queue) + 1
          /\ DOMAIN queue' = 1..(Len(queue) + 1)
          /\ \A i \in 1..Len(queue) : queue'[i] = queue[i]
          /\ queue'[Len(queue) + 1] = arrived + 1
        BY <1>1, <2>1
    <2>3. arrived' - Len(queue') = arrived - Len(queue) /\ Len(queue') <= MaxTurns
          /\ arrived' \in 0..MaxTurns
        BY <1>1, <2>1, <2>2, PresenceAssumption
    <2>4. \A i \in DOMAIN queue' : queue'[i] = arrived - Len(queue) + i
        BY <1>1, <2>1, <2>2
    <2>5. QED
        BY <1>1, <2>2, <2>3, <2>4 DEF QueueRuns, Taken
<1>4. QED
    BY <1>2, <1>3

\* The head of the queue is the turn after those that were taken.
LEMMA HeadIsNext ==
    ASSUME PresenceTypeOK, QueueRuns, queue # <<>>, queue' = Tail(queue), arrived' = arrived
    PROVE  /\ Head(queue) = Taken + 1 /\ Head(queue) \in Turns
           /\ queue' \in Seq(Turns) /\ Len(queue') <= MaxTurns
           /\ Taken' = Taken + 1 /\ QueueRuns'
<1>1. /\ arrived \in Nat /\ queue \in Seq(Turns) /\ Len(queue) <= MaxTurns
      /\ arrived - Len(queue) \in Nat
      /\ \A i \in 1..Len(queue) : queue[i] = arrived - Len(queue) + i
    BY PresenceAssumption DEF PresenceTypeOK, QueueRuns, Taken
<1>2. Len(queue) \in Nat \ {0} /\ Head(queue) = queue[1] /\ queue[1] \in Turns
    BY <1>1
<1>3. /\ queue' \in Seq(Turns) /\ Len(queue') = Len(queue) - 1
      /\ DOMAIN queue' = 1..(Len(queue) - 1)
      /\ \A i \in 1..(Len(queue) - 1) : queue'[i] = queue[i + 1]
    BY <1>1, <1>2
<1>4. /\ arrived' - Len(queue') = arrived - Len(queue) + 1
      /\ Len(queue') <= MaxTurns
    BY <1>1, <1>2, <1>3, PresenceAssumption
<1>5. \A i \in DOMAIN queue' : queue'[i] = arrived - Len(queue) + 1 + i
    BY <1>1, <1>2, <1>3
<1>6. QED
    BY <1>1, <1>2, <1>3, <1>4, <1>5 DEF QueueRuns, Taken

LEMMA PresenceStepInv ==
    ASSUME PresenceInv, [PresenceNext]_presenceVars PROVE PresenceInv'
<1> USE DEF PresenceInv
<1>0. /\ Taken \in Nat /\ current \in Nat
      /\ \A i \in DOMAIN spoken : spoken[i] \in Nat
    BY PresenceAssumption DEF QueueRuns, PresenceTypeOK, Turns
<1>1. ASSUME ReadLine \/ ReadPacket PROVE PresenceInv'
    <2>1. PICK messages : Enqueue(messages) \/ UNCHANGED <<arrived, queue>>
        BY <1>1 DEF ReadLine, ReadPacket
    <2>2. /\ arrived' \in 0..MaxTurns /\ queue' \in Seq(Turns) /\ Len(queue') <= MaxTurns
          /\ Taken' = Taken /\ QueueRuns'
        BY <2>1, EnqueueKeeps DEF PresenceTypeOK, QueueRuns, Taken
    <2>3. stop' \in BOOLEAN
        BY <1>1 DEF ReadLine, ReadPacket, PresenceTypeOK
    <2>4. UNCHANGED <<listening, consumer, current, scene, idle, bodyVars>>
        BY <1>1 DEF ReadLine, ReadPacket
    <2>5. PresenceTypeOK'
        BY <2>2, <2>3, <2>4 DEF PresenceTypeOK, bodyVars
    <2>6. SpokenWereTaken' /\ SpokenInOrder' /\ BodyFollows' /\ SceneFits'
        BY <2>2, <2>4 DEF SpokenWereTaken, SpokenInOrder, BodyFollows, SceneFits, bodyVars
    <2>7. QED
        BY <2>2, <2>5, <2>6
<1>2. ASSUME TakeTurn PROVE PresenceInv'
    <2> USE <1>2 DEF TakeTurn, Does, bodyVars
    <2>1. /\ current' = Taken + 1 /\ current' \in Turns
          /\ queue' \in Seq(Turns) /\ Len(queue') <= MaxTurns
          /\ Taken' = Taken + 1 /\ QueueRuns'
        BY HeadIsNext
    <2>2. PresenceTypeOK'
        BY <2>1 DEF PresenceTypeOK, Turns
    <2>3. SpokenWereTaken'
        <3>1. \A i \in DOMAIN spoken' : spoken'[i] <= Taken + 1 /\ spoken'[i] < current'
            BY <1>0, <2>1 DEF SpokenWereTaken
        <3>2. current' <= Taken'
            BY <1>0, <2>1
        <3>3. QED
            BY <2>1, <3>1, <3>2 DEF SpokenWereTaken
    <2>4. SpokenInOrder' /\ SceneFits'
        BY DEF SpokenInOrder, SceneFits
    <2>5. BodyFollows'
        BY DEF BodyFollows
    <2>6. QED
        BY <2>1, <2>2, <2>3, <2>4, <2>5
<1>3. ASSUME SeeStop PROVE PresenceInv'
    <2> USE <1>3 DEF SeeStop, Does, bodyVars
    <2>1. /\ queue' \in Seq(Turns) /\ Len(queue') <= MaxTurns
          /\ Taken' \in {Taken, Taken + 1} /\ QueueRuns'
        <3>1. CASE queue' = queue
            BY <3>1 DEF PresenceTypeOK, QueueRuns, Taken
        <3>2. CASE queue # <<>> /\ queue' = Tail(queue)
            BY <3>2, HeadIsNext
        <3>3. QED
            BY <3>1, <3>2
    <2>2. PresenceTypeOK'
        BY <2>1 DEF PresenceTypeOK
    <2>3. SpokenWereTaken'
        <3>1. current' <= Taken' /\ \A i \in DOMAIN spoken' : spoken'[i] <= Taken'
            BY <2>1, <1>0 DEF SpokenWereTaken
        <3>2. QED
            BY <3>1 DEF SpokenWereTaken, Speaking
    <2>4. SpokenInOrder' /\ SceneFits' /\ BodyFollows'
        BY DEF SpokenInOrder, SceneFits, BodyFollows
    <2>5. QED
        BY <2>1, <2>2, <2>3, <2>4
<1>4. ASSUME UNCHANGED <<arrived, queue>> PROVE Taken' = Taken /\ QueueRuns'
    BY <1>4 DEF QueueRuns, Taken
<1>5. ASSUME TurnFails \/ Capture \/ Answered \/ BeginGesture PROVE PresenceInv'
    <2> USE DEF Does, Outer, bodyVars
    <2>1. /\ UNCHANGED <<arrived, queue, stop, listening, idle, mouth, playing, spoken, broken>>
          /\ current' \in {current, 0}
          /\ consumer' \in {"wait", "ask", "gesture", "voice"}
          /\ current' = 0 => consumer' = "wait" \/ current = 0
          /\ gestures' = gestures \/ gestures' = gestures \cup ({picked'} \ {NoGesture})
          /\ picked' \in Gestures \cup {NoGesture}
        BY <1>5 DEF TurnFails, Capture, Answered, BeginGesture, TurnEnds, PresenceTypeOK
    <2>2. scene' \in {scene, NoScene} \/ \E s \in Shots : scene' = JpegUnderCap(s)
        BY <1>5 DEF TurnFails, Capture, Answered, BeginGesture, TurnEnds
    <2>3. scene' \in Nat \X Nat /\ SceneFits'
        BY <2>2, PicturesFit DEF SceneFits, PresenceTypeOK, NoScene
    <2>4. consumer \in {"grab", "ask", "gesture"}
        BY <1>5 DEF TurnFails, Capture, Answered, BeginGesture
    <2>5. PresenceTypeOK'
        <3>1. current' \in 0..MaxTurns
            BY <2>1, PresenceAssumption DEF PresenceTypeOK
        <3>2. gestures' \subseteq Gestures
            BY <2>1 DEF PresenceTypeOK
        <3>3. QED
            BY <2>1, <2>3, <3>1, <3>2 DEF PresenceTypeOK, Speaking
    <2>6. SpokenWereTaken'
        BY <2>1, <2>4, <1>4, <1>0 DEF SpokenWereTaken, Speaking, Turns
    <2>7. SpokenInOrder'
        BY <2>1 DEF SpokenInOrder
    <2>8. BodyFollows'
        <3>1. /\ consumer' # "voice" => gestures' = gestures
              /\ consumer' = "voice" => consumer = "gesture"
            BY <1>5 DEF TurnFails, Capture, Answered, BeginGesture, TurnEnds
        <3>2. QED
            BY <2>1, <2>4, <3>1 DEF BodyFollows
    <2>9. QED
        BY <2>1, <2>3, <2>5, <2>6, <2>7, <2>8, <1>4
<1>6. ASSUME Synthesize PROVE PresenceInv'
    <2> USE <1>6 DEF Synthesize, Does, Outer
    <2>1. current \in Turns /\ \A i \in DOMAIN spoken : spoken[i] < current
        BY DEF SpokenWereTaken, Speaking
    <2>2. CASE consumer' = "visemes"
        <3>1. /\ spoken' \in Seq(Turns) /\ Len(spoken') = Len(spoken) + 1
              /\ \A i \in 1..Len(spoken) : spoken'[i] = spoken[i]
              /\ spoken'[Len(spoken) + 1] = current
            <4>1. spoken \in Seq(Turns)
                BY DEF PresenceTypeOK
            <4>2. spoken' = Append(spoken, current)
                BY <2>2
            <4> HIDE <1>6
            <4>3. QED
                BY <2>1, <4>1, <4>2
        <3>2. PresenceTypeOK'
            <4>1. playing' = playing \cup {current}
                BY <2>2
            <4>2. playing' \subseteq Turns
                BY <2>1, <4>1 DEF PresenceTypeOK
            <4>3. QED
                BY <2>2, <3>1, <4>2 DEF PresenceTypeOK, Speaking
        <3>3. SpokenWereTaken'
            <4>1. current' <= Taken' /\ current' \in Turns
                BY <2>1, <1>4 DEF SpokenWereTaken
            <4>2. Len(spoken) \in Nat /\ DOMAIN spoken = 1..Len(spoken)
                  /\ DOMAIN spoken' = 1..(Len(spoken) + 1)
                BY <3>1 DEF PresenceTypeOK
            <4>3. \A i \in DOMAIN spoken' : spoken'[i] <= Taken'
                BY <3>1, <4>1, <4>2, <1>4 DEF SpokenWereTaken
            <4>4. QED
                BY <2>2, <4>1, <4>3 DEF SpokenWereTaken
        <3>4. SpokenInOrder'
            <4> DEFINE n == Len(spoken)
            <4>1. n \in Nat /\ DOMAIN spoken = 1..n /\ DOMAIN spoken' = 1..(n + 1)
                BY <3>1 DEF PresenceTypeOK
            <4>2. SUFFICES ASSUME NEW i \in 1..(n + 1), NEW j \in 1..(n + 1), i < j
                           PROVE  spoken'[i] < spoken'[j]
                BY <4>1 DEF SpokenInOrder
            <4>3. i \in 1..n /\ spoken'[i] = spoken[i]
                BY <3>1, <4>1, <4>2
            <4>4. CASE j = n + 1
                BY <2>1, <3>1, <4>1, <4>3, <4>4
            <4>5. CASE j \in 1..n
                BY <3>1, <4>1, <4>2, <4>3, <4>5 DEF SpokenInOrder
            <4>6. QED
                BY <4>1, <4>4, <4>5
        <3>5. BodyFollows'
            BY <2>2 DEF BodyFollows
        <3>6. QED
            BY <1>4, <3>2, <3>3, <3>4, <3>5 DEF SceneFits
    <2>3. CASE consumer' = "drain"
        <3>1. UNCHANGED <<spoken, playing>>
            BY <2>3
        <3>2. PresenceTypeOK'
            BY <2>3, <3>1 DEF PresenceTypeOK, Speaking
        <3>3. SpokenWereTaken' /\ SpokenInOrder' /\ BodyFollows'
            BY <2>1, <2>3, <3>1, <1>4 DEF SpokenWereTaken, SpokenInOrder, BodyFollows, Speaking
        <3>4. QED
            BY <1>4, <3>2, <3>3 DEF SceneFits
    <2>4. QED
        BY <2>2, <2>3
<1>7. ASSUME Frame \/ LastFrame \/ PlayEnds PROVE PresenceInv'
    <2> USE DEF Does, Outer, bodyVars
    <2>1. /\ UNCHANGED <<arrived, queue, stop, listening, idle, current, scene, gestures, picked, spoken, broken>>
          /\ playing' \subseteq playing
        BY <1>7 DEF Frame, LastFrame, PlayEnds
    <2>0. consumer' = consumer \/ (consumer = "visemes" /\ consumer' = "drain")
        BY <1>7 DEF Frame, LastFrame, PlayEnds
    <2>2. mouth' \in BOOLEAN /\ (consumer # "visemes" => mouth' = mouth)
        BY <1>7 DEF Frame, LastFrame, PlayEnds, PresenceTypeOK
    <2>3. PresenceTypeOK'
        BY <2>0, <2>1, <2>2 DEF PresenceTypeOK, Speaking
    <2>4. SpokenWereTaken'
        BY <2>0, <2>1, <1>4 DEF SpokenWereTaken, Speaking
    <2>5. SpokenInOrder' /\ SceneFits'
        BY <2>1 DEF SpokenInOrder, SceneFits
    <2>6. BodyFollows'
        BY <2>0, <2>1, <2>2 DEF BodyFollows
    <2>7. QED
        BY <2>1, <2>3, <2>4, <2>5, <2>6, <1>4
<1>8. ASSUME Rest \/ SpeechFails PROVE PresenceInv'
    <2> USE DEF Outer
    <2>1. /\ UNCHANGED <<arrived, queue, stop, listening, idle, playing, spoken>>
          /\ consumer' = "wait" /\ current' = 0 /\ scene' = NoScene
          /\ consumer \in Speaking
        BY <1>8 DEF Rest, SpeechFails, TurnEnds, Speaking
    <2>2. /\ gestures' \subseteq Gestures /\ picked' \in Gestures \cup {NoGesture}
          /\ mouth' \in BOOLEAN /\ broken' \in BOOLEAN
        BY <1>8 DEF Rest, SpeechFails, PresenceTypeOK
    <2>3. PresenceTypeOK'
        BY <2>1, <2>2, PresenceAssumption DEF PresenceTypeOK, NoScene
    <2>4. SpokenWereTaken' /\ SpokenInOrder' /\ SceneFits'
        BY <2>1, <1>4, <1>0 DEF SpokenWereTaken, SpokenInOrder, SceneFits, Speaking
    <2>5. BodyFollows'
        BY <1>8, <2>1 DEF BodyFollows, Rest, SpeechFails
    <2>6. QED
        BY <2>1, <2>3, <2>4, <2>5, <1>4
<1>9. ASSUME IdleFails \/ Cancel PROVE PresenceInv'
    <2> USE DEF bodyVars
    <2>1. /\ UNCHANGED <<arrived, queue, stop, current, scene, gestures, mouth, playing, spoken>>
          /\ picked' = picked \/ (picked' = NoGesture /\ consumer' = "ended")
          /\ consumer' \in {consumer, "ended"}
          /\ listening' \in BOOLEAN /\ idle' \in BOOLEAN
        BY <1>9 DEF IdleFails, Cancel, PresenceTypeOK
    <2>2. broken' \in BOOLEAN /\ (broken => broken')
        BY <1>9 DEF IdleFails, Cancel, PresenceTypeOK
    <2>3. consumer' # consumer /\ consumer \in Speaking => broken'
        BY <1>9 DEF IdleFails, Cancel
    <2>4. PresenceTypeOK'
        BY <2>1, <2>2 DEF PresenceTypeOK
    <2>5. SpokenWereTaken' /\ SpokenInOrder' /\ SceneFits'
        BY <2>1, <1>4 DEF SpokenWereTaken, SpokenInOrder, SceneFits, Speaking
    <2>6. BodyFollows'
        BY <2>1, <2>2, <2>3 DEF BodyFollows, Speaking
    <2>7. QED
        BY <2>1, <2>4, <2>5, <2>6, <1>4
<1>10. CASE UNCHANGED presenceVars
    BY <1>10 DEF presenceVars, PresenceTypeOK, QueueRuns, Taken, SpokenWereTaken,
       SpokenInOrder, BodyFollows, SceneFits
<1>11. QED
    BY <1>1, <1>2, <1>3, <1>5, <1>6, <1>7, <1>8, <1>9, <1>10 DEF PresenceNext

\* Turns are taken in order and the body follows the consumer, in every reachable
\* state.
THEOREM PresenceInvariant == PresenceSpec => []PresenceInv
<1>1. PresenceInit => PresenceInv
    BY PresenceInitInv
<1>2. PresenceInv /\ [PresenceNext]_presenceVars => PresenceInv'
    BY PresenceStepInv
<1>3. QED
    BY <1>1, <1>2, PTL DEF PresenceSpec

\* Answers come in the order of the turns, one voice sounds at a time, the body
\* rests between answers and a scene has pixels and keeps under its caps.
THEOREM PresenceStaysTrue == PresenceSpec => []PresenceHolds
<1>1. PresenceInv => PresenceHolds
    <2> SUFFICES ASSUME PresenceInv PROVE PresenceHolds
        OBVIOUS
    <2>1. SpokenInOrder /\ SceneFits
        BY DEF PresenceInv
    <2>2. OneVoice
        <3> SUFFICES ASSUME ~broken PROVE Cardinality(playing) <= 1
            BY DEF OneVoice
        <3>1. playing = {} \/ playing = {current}
            BY DEF PresenceInv, BodyFollows
        <3>2. Cardinality({}) = 0 /\ Cardinality({current}) = 1
            BY FS_EmptySet, FS_Singleton
        <3>3. QED
            BY <3>1, <3>2
    <2>3. AtRestBetween
        BY DEF PresenceInv, BodyFollows, AtRestBetween
    <2>4. QED
        BY <2>1, <2>2, <2>3 DEF PresenceHolds
<1>2. QED
    BY <1>1, PresenceInvariant, PTL
-----------------------------------------------------------------------------
(* All of it                                                               *)

\* Each part keeps its own and leaves the others as they are.
BackgroundInv == OutboxInv /\ NewsInv /\ FollowInv /\ PeopleShapes /\ PresenceInv

\* The parts stay well typed in the behaviours that the runs explore.
THEOREM PartsStayTyped == MCSpec => []BackgroundTypeOK
<1>1. MCInit => BackgroundInv
    BY InitOutbox, InitNews, InitFollow, InitPeople, PresenceInitInv DEF MCInit, BackgroundInv
<1> DEFINE all == <<part, followVars, newsVars, outboxVars, peopleVars, presenceVars>>
<1>2. BackgroundInv /\ [MCNext]_all => BackgroundInv'
    <2> SUFFICES ASSUME BackgroundInv, [MCNext]_all PROVE BackgroundInv'
        OBVIOUS
    <2>1. /\ [OutboxNext]_outboxVars /\ [NewsNext]_newsVars /\ [FollowNext]_followVars
          /\ [PeopleNext]_peopleVars /\ [PresenceNext]_presenceVars
        BY DEF MCNext
    <2>2. QED
        BY <2>1, StepOutbox, StepNews, StepFollow, StepPeople, PresenceStepInv DEF BackgroundInv
<1>3. BackgroundInv => BackgroundTypeOK
    BY ShapesAreTypes DEF BackgroundInv, BackgroundTypeOK, OutboxInv, NewsInv, FollowInv, PresenceInv
<1> HIDE DEF all
<1>4. QED
    BY <1>1, <1>2, <1>3, PTL DEF MCSpec, all
===============================================================================
