----------------------------- MODULE StreamProofs -----------------------------
(***************************************************************************)
(* Proofs about a stream for any messages, consumers and bounds: the       *)
(* typing of its state, and that no entry is lost without a trace, that no *)
(* two consumers share an entry, that pending entries keep their payload   *)
(* and that a handler runs once per dedup window.                          *)
(*                                                                         *)
(* Then, the loop implements DeliveryContract when the broker has its      *)
(* dead-letter stream: the refinement mapping takes initial states to      *)
(* initial states and every step to a step of the contract or to none.     *)
(*                                                                         *)
(* At the end, the retention pass beside the loops: what it trims, which   *)
(* names it removes, and that no entry is lost without a trace.            *)
(* DeliveryInv does not survive the janitor, which acks entries consumers  *)
(* are on; TypeOK, PositionsOK and OneWorkerPerEntry do, and what the      *)
(* first part shows of a step is used again.                               *)
(***************************************************************************)
EXTENDS StreamJanitor, TLAPS

\* What an XADD leaves is part of what was there.
LEMMA TrimsAreSubsets ==
    ASSUME NEW S, NEW T \in XaddTrims(S)
    PROVE  T \subseteq S
BY DEF XaddTrims

\* Typing and positions hold at the start.
LEMMA InitPositions == Init => TypeOK /\ PositionsOK
BY ConstantsAssumption
   DEF Init, TypeOK, PositionsOK, Ids, None, IdleStates, BusyStates, Busy

\* A busy consumer's entry was delivered and has a message.
LEMMA BusyHasMessage ==
    ASSUME TypeOK, PositionsOK, NEW c \in Consumers, Busy(c)
    PROVE  cur[c] \in taken /\ cur[c] \in Ids /\ body[cur[c]] \in Messages
<1>1. cur[c] \in taken
    BY DEF PositionsOK
<1>2. taken \subseteq 1 .. delivered /\ delivered <= top
    BY DEF PositionsOK
<1>3. cur[c] \in Ids /\ cur[c] <= top
    <2>1. top \in Nat /\ delivered \in Nat /\ taken \subseteq Ids
        BY ConstantsAssumption DEF TypeOK
    <2>2. cur[c] \in 1 .. delivered
        BY <1>1, <1>2
    <2>3. QED BY <1>1, <1>2, <2>1, <2>2, ConstantsAssumption DEF Ids
<1>4. QED BY <1>1, <1>3 DEF PositionsOK

\* Every step keeps typing and positions: a consumer's entry was read by it,
\* so its message is one that was published.
LEMMA StepPositions ==
    TypeOK /\ PositionsOK /\ [Next]_vars => TypeOK' /\ PositionsOK'
<1> SUFFICES ASSUME TypeOK, PositionsOK, [Next]_vars
             PROVE  TypeOK' /\ PositionsOK'
    OBVIOUS
<1> USE ConstantsAssumption
        DEF Ids, None, IdleStates, BusyStates, Busy, Goto,
            streamVars, groupVars, guardVars, loopVars, vars
<1>1. ASSUME NEW m \in Messages, Publish(m) PROVE TypeOK' /\ PositionsOK'
    <2>1. PICK kept \in XaddTrims(stream \cup {top + 1}) :
             /\ stream' = kept
             /\ evicted' = evicted \cup ((stream \cup {top + 1}) \ kept)
        BY <1>1 DEF Publish
    <2>2. kept \subseteq stream \cup {top + 1}
        BY TrimsAreSubsets
    <2>3. TypeOK'
        BY <1>1, <2>1, <2>2 DEF Publish, TypeOK
    <2>4. PositionsOK'
        BY <1>1, <2>1, <2>2 DEF Publish, TypeOK, PositionsOK
    <2>5. QED BY <2>3, <2>4
<1>2. ASSUME NEW m \in Messages, Expire(m) PROVE TypeOK' /\ PositionsOK'
    BY <1>2, SMTT(30) DEF Expire, TypeOK, PositionsOK
<1>3. ASSUME NEW c \in Consumers, Start(c) PROVE TypeOK' /\ PositionsOK'
    BY <1>3 DEF Start, TypeOK, PositionsOK
<1>4. ASSUME NEW c \in Consumers, Read(c) PROVE TypeOK' /\ PositionsOK'
    <2>1. PICK n \in Unread :
             /\ Deliver(n, c)
             /\ cur' = [cur EXCEPT ![c] = n]
             /\ pc' = [pc EXCEPT ![c] =
                         IF body[n] \in Undecodable THEN "poison" ELSE "got"]
        BY <1>4 DEF Read
    <2>2. n \in Ids /\ n <= top /\ delivered < n
        BY DEF Unread, TypeOK, PositionsOK
    <2>3. TypeOK'
        BY <1>4, <2>1, <2>2 DEF Read, Deliver, TypeOK
    <2>4. PositionsOK'
        BY <1>4, <2>1, <2>2 DEF Read, Deliver, TypeOK, PositionsOK
    <2>5. QED BY <2>3, <2>4
<1>5. ASSUME NEW c \in Consumers, ReadFails(c) PROVE TypeOK' /\ PositionsOK'
    <2>1. CASE UNCHANGED groupVars
        BY <1>5, <2>1 DEF ReadFails, TypeOK, PositionsOK
    <2>2. ASSUME NEW n \in Unread, Deliver(n, c) PROVE TypeOK' /\ PositionsOK'
        <3>1. n \in Ids /\ n <= top /\ delivered < n
            BY DEF Unread, TypeOK, PositionsOK
        <3>2. TypeOK'
            BY <1>5, <2>2, <3>1 DEF ReadFails, Deliver, TypeOK
        <3>3. PositionsOK'
            BY <1>5, <2>2, <3>1 DEF ReadFails, Deliver, TypeOK, PositionsOK
        <3>4. QED BY <3>2, <3>3
    <2>3. QED BY <1>5, <2>1, <2>2 DEF ReadFails
<1>6. ASSUME NEW c \in Consumers, AcquireFirst(c) PROVE TypeOK' /\ PositionsOK'
    <2>1. cur[c] \in taken /\ cur[c] \in Ids /\ body[cur[c]] \in Messages
        BY <1>6, BusyHasMessage DEF AcquireFirst
    <2>2. TypeOK'
        <3>1. runs' \in [Messages -> Nat]
            BY <1>6, <2>1 DEF AcquireFirst, TypeOK
        <3>2. seen' \subseteq Messages /\ acquired' \subseteq Ids
            BY <1>6, <2>1 DEF AcquireFirst, TypeOK
        <3>3. QED BY <1>6, <3>1, <3>2 DEF AcquireFirst, TypeOK
    <2>3. PositionsOK'
        BY <1>6, <2>1 DEF AcquireFirst, TypeOK, PositionsOK
    <2>4. QED BY <2>2, <2>3
<1>7. ASSUME NEW c \in Consumers, AcquireDuplicate(c) PROVE TypeOK' /\ PositionsOK'
    BY <1>7 DEF AcquireDuplicate, TypeOK, PositionsOK
<1>8. ASSUME NEW c \in Consumers, AcquireFails(c) PROVE TypeOK' /\ PositionsOK'
    <2>1. cur[c] \in taken /\ body[cur[c]] \in Messages
        BY <1>8, BusyHasMessage DEF AcquireFails
    <2>2. TypeOK'
        BY <1>8, <2>1 DEF AcquireFails, TypeOK
    <2>3. PositionsOK'
        BY <1>8, <2>1 DEF AcquireFails, TypeOK, PositionsOK
    <2>4. QED BY <2>2, <2>3
<1>9. ASSUME NEW c \in Consumers, HandlerReturns(c) PROVE TypeOK' /\ PositionsOK'
    BY <1>9 DEF HandlerReturns, TypeOK, PositionsOK
<1>10. ASSUME NEW c \in Consumers, HandlerRaises(c) PROVE TypeOK' /\ PositionsOK'
    BY <1>10 DEF HandlerRaises, TypeOK, PositionsOK
<1>11. ASSUME NEW c \in Consumers, Bury(c) PROVE TypeOK' /\ PositionsOK'
    <2>1. cur[c] \in Ids
        BY <1>11 DEF Bury, BuryStates, TypeOK, PositionsOK
    <2>2. AfterBury[pc[c]] \in BusyStates
        BY <1>11 DEF Bury, BuryStates, AfterBury
    <2>3. dlq' \subseteq Ids /\ pc' \in [Consumers -> IdleStates \cup BusyStates]
        BY <1>11, <2>1, <2>2 DEF Bury, TypeOK
    <2>4. TypeOK'
        BY <1>11, <2>3 DEF Bury, TypeOK
    <2>5. PositionsOK'
        BY <1>11 DEF Bury, BuryStates, AfterBury, TypeOK, PositionsOK
    <2>6. QED BY <2>4, <2>5
<1>12. ASSUME NEW c \in Consumers, BuryFails(c) PROVE TypeOK' /\ PositionsOK'
    BY <1>12 DEF BuryFails, BuryStates, TypeOK, PositionsOK
<1>13. ASSUME NEW c \in Consumers, Ack(c) PROVE TypeOK' /\ PositionsOK'
    BY <1>13 DEF Ack, AckStates, Settle, TypeOK, PositionsOK
<1>14. ASSUME NEW c \in Consumers, AckFails(c) PROVE TypeOK' /\ PositionsOK'
    <2>1. CASE Settle(cur[c])
        BY <1>14, <2>1 DEF AckFails, AckStates, AfterAckError, Settle, TypeOK, PositionsOK
    <2>2. CASE UNCHANGED <<streamVars, groupVars>>
        BY <1>14, <2>2 DEF AckFails, AckStates, AfterAckError, TypeOK, PositionsOK
    <2>3. QED BY <1>14, <2>1, <2>2 DEF AckFails
<1>15. ASSUME NEW c \in Consumers, Recover(c) PROVE TypeOK' /\ PositionsOK'
    BY <1>15 DEF Recover, TypeOK, PositionsOK
<1>16. ASSUME NEW c \in Consumers, Crash(c) PROVE TypeOK' /\ PositionsOK'
    BY <1>16 DEF Crash, TypeOK, PositionsOK
<1>17. CASE UNCHANGED vars
    BY <1>17 DEF TypeOK, PositionsOK
<1>18. QED
    BY <1>1, <1>2, <1>3, <1>4, <1>5, <1>6, <1>7, <1>8, <1>9, <1>10, <1>11,
       <1>12, <1>13, <1>14, <1>15, <1>16, <1>17
       DEF Next, Consume, Answered, Failing

-----------------------------------------------------------------------------
(* Who works on what *)

\* Only a read makes a consumer busy, with an entry past delivered, which no
\* other consumer can be on.
LEMMA StepWorkers ==
    TypeOK /\ PositionsOK /\ OneWorkerPerEntry /\ [Next]_vars => OneWorkerPerEntry'
<1> SUFFICES ASSUME TypeOK, PositionsOK, OneWorkerPerEntry, [Next]_vars
             PROVE  OneWorkerPerEntry'
    OBVIOUS
<1> USE DEF Ids, None, IdleStates, BusyStates, Busy, Goto, OneWorkerPerEntry,
            streamVars, groupVars, guardVars, loopVars, vars
<1>1. CASE UNCHANGED loopVars
    BY <1>1
<1>2. ASSUME NEW c \in Consumers, Read(c) PROVE OneWorkerPerEntry'
    <2>1. PICK n \in Unread :
             /\ cur' = [cur EXCEPT ![c] = n]
             /\ pc' = [pc EXCEPT ![c] =
                         IF body[n] \in Undecodable THEN "poison" ELSE "got"]
        BY <1>2 DEF Read
    <2>2. \A d \in Consumers : Busy(d) => cur[d] # n
        BY ConstantsAssumption DEF Unread, PositionsOK, TypeOK
    <2>3. QED BY <2>1, <2>2, ConstantsAssumption DEF TypeOK
<1>3. ASSUME NEW c \in Consumers, NEW s \in IdleStates, Goto(c, s)
      PROVE  OneWorkerPerEntry'
    BY <1>3 DEF TypeOK
<1>4. ASSUME NEW c \in Consumers, NEW s \in BusyStates, Busy(c), Goto(c, s)
      PROVE  OneWorkerPerEntry'
    BY <1>4 DEF TypeOK
<1>5. ASSUME NEW c \in Consumers, Consume(c) PROVE OneWorkerPerEntry'
    <2>1. CASE Start(c) \/ ReadFails(c) \/ Ack(c) \/ Recover(c) \/ Crash(c)
        BY <1>3, <2>1 DEF Start, ReadFails, Ack, Recover, Crash
    <2>2. CASE Read(c)
        BY <1>2, <2>2
    <2>3. CASE \/ AcquireFirst(c) \/ AcquireDuplicate(c) \/ AcquireFails(c)
               \/ HandlerReturns(c) \/ HandlerRaises(c)
        BY <1>4, <2>3 DEF AcquireFirst, AcquireDuplicate, AcquireFails,
                          HandlerReturns, HandlerRaises
    <2>4. CASE Bury(c)
        BY <1>4, <2>4 DEF Bury, BuryStates, AfterBury
    <2>5. CASE BuryFails(c)
        BY <1>3, <2>5 DEF BuryFails, BuryStates
    <2>6. CASE AckFails(c)
        <3>1. AfterAckError[pc[c]] \in IdleStates \cup {"reject"}
            BY <2>6 DEF AckFails, AckStates, AfterAckError
        <3>2. Busy(c) /\ Goto(c, AfterAckError[pc[c]])
            BY <2>6 DEF AckFails, AckStates
        <3>3. QED BY <1>3, <1>4, <3>1, <3>2
    <2>7. QED BY <1>5, <2>1, <2>2, <2>3, <2>4, <2>5, <2>6
              DEF Consume, Answered, Failing
<1>6. ASSUME NEW m \in Messages, Publish(m) \/ Expire(m) PROVE OneWorkerPerEntry'
    BY <1>1, <1>6 DEF Publish, Expire
<1>7. QED BY <1>1, <1>5, <1>6 DEF Next

-----------------------------------------------------------------------------
(* Payloads, and one run per window *)

\* An entry becomes pending out of the stream, and leaves the stream by being
\* trimmed or in the step that settles it.
LEMMA StepPayload ==
    TypeOK /\ PendingKeepsPayload /\ [Next]_vars => PendingKeepsPayload'
<1> SUFFICES ASSUME TypeOK, PendingKeepsPayload, [Next]_vars
             PROVE  PendingKeepsPayload'
    OBVIOUS
<1> USE DEF Ids, PendingKeepsPayload,
            streamVars, groupVars, guardVars, loopVars, vars
<1>1. CASE UNCHANGED <<streamVars, groupVars>>
    BY <1>1
<1>2. ASSUME NEW m \in Messages, Publish(m) PROVE PendingKeepsPayload'
    BY <1>2 DEF Publish
<1>3. ASSUME NEW n \in Unread, NEW c \in Consumers, Deliver(n, c), UNCHANGED streamVars
      PROVE  PendingKeepsPayload'
    BY <1>3 DEF Deliver, Unread, TypeOK
<1>4. ASSUME NEW i, Settle(i) PROVE PendingKeepsPayload'
    BY <1>4 DEF Settle, TypeOK
<1>5. ASSUME NEW c \in Consumers, Read(c) \/ ReadFails(c) PROVE PendingKeepsPayload'
    BY <1>1, <1>3, <1>5 DEF Read, ReadFails
<1>6. ASSUME NEW c \in Consumers, Ack(c) \/ AckFails(c) PROVE PendingKeepsPayload'
    BY <1>1, <1>4, <1>6 DEF Ack, AckFails
<1>7. QED
    BY <1>1, <1>2, <1>5, <1>6
       DEF Next, Consume, Answered, Failing, Expire, Start, AcquireFirst,
           AcquireDuplicate, AcquireFails, HandlerReturns, HandlerRaises,
           Bury, BuryFails, Recover, Crash

\* The handler is called only by the step that sets the key of its message,
\* and only an expiry, which opens a new window, removes a key.
LEMMA StepRuns ==
    TypeOK /\ PositionsOK /\ OneRunPerWindow /\ [Next]_vars => OneRunPerWindow'
<1> SUFFICES ASSUME TypeOK, PositionsOK, OneRunPerWindow, [Next]_vars
             PROVE  OneRunPerWindow'
    OBVIOUS
<1> USE DEF OneRunPerWindow, streamVars, groupVars, guardVars, loopVars, vars
<1>0. \A m \in Messages : runs[m] \in Nat /\ windows[m] \in Nat
    BY ConstantsAssumption DEF TypeOK
<1>1. CASE UNCHANGED <<seen, runs, windows>>
    BY <1>1
<1>2. ASSUME NEW c \in Consumers, AcquireFirst(c) PROVE OneRunPerWindow'
    <2>1. body[cur[c]] \in Messages
        BY <1>2, BusyHasMessage DEF AcquireFirst, Busy, BusyStates
    <2>2. ASSUME NEW m \in Messages, m # body[cur[c]]
          PROVE  runs'[m] = runs[m] /\ windows'[m] = windows[m] /\ (m \in seen' <=> m \in seen)
        BY <1>2, <2>1, <2>2 DEF AcquireFirst, TypeOK
    <2>3. /\ runs'[body[cur[c]]] = runs[body[cur[c]]] + 1
          /\ windows' = windows
          /\ body[cur[c]] \notin seen /\ body[cur[c]] \in seen'
        BY <1>2, <2>1 DEF AcquireFirst, TypeOK
    <2>4. QED BY <1>0, <2>1, <2>2, <2>3
<1>3. ASSUME NEW c \in Consumers, AcquireFails(c) PROVE OneRunPerWindow'
    BY <1>0, <1>3 DEF AcquireFails
<1>4. ASSUME NEW n \in Messages, Expire(n) PROVE OneRunPerWindow'
    <2>1. windows'[n] = windows[n] + 1 /\ n \in seen /\ n \notin seen'
        BY <1>4 DEF Expire, TypeOK
    <2>2. \A m \in Messages \ {n} : windows'[m] = windows[m] /\ (m \in seen' <=> m \in seen)
        BY <1>4 DEF Expire, TypeOK
    <2>3. runs' = runs
        BY <1>4 DEF Expire
    <2>4. QED BY <1>0, <2>1, <2>2, <2>3
<1>5. QED
    BY <1>1, <1>2, <1>3, <1>4
       DEF Next, Consume, Answered, Failing, Publish, Start, Read, ReadFails,
           AcquireDuplicate, HandlerReturns, HandlerRaises, Ack, AckFails,
           Bury, BuryFails, Recover, Crash

-----------------------------------------------------------------------------
(* Nothing is lost without a trace *)

\* What is recorded of entries is never taken back, and no action rewrites
\* the message of an entry.
LEMMA HistoryGrows ==
    TypeOK /\ PositionsOK /\ [Next]_vars =>
        /\ acquired \subseteq acquired'
        /\ blind \subseteq blind'
        /\ handled \subseteq handled'
        /\ dlq \subseteq dlq'
        /\ evicted \subseteq evicted'
        /\ \A i \in taken : body'[i] = body[i]
<1> SUFFICES ASSUME TypeOK, PositionsOK, [Next]_vars
             PROVE  /\ acquired \subseteq acquired'
                    /\ blind \subseteq blind'
                    /\ handled \subseteq handled'
                    /\ dlq \subseteq dlq'
                    /\ evicted \subseteq evicted'
                    /\ \A i \in taken : body'[i] = body[i]
    OBVIOUS
<1> USE DEF streamVars, groupVars, guardVars, loopVars, vars
<1>1. ASSUME NEW m \in Messages, Publish(m) PROVE \A i \in taken : body'[i] = body[i]
    <2>1. top + 1 \notin taken
        BY ConstantsAssumption DEF TypeOK, PositionsOK, Ids
    <2>2. QED BY <1>1, <2>1 DEF Publish, TypeOK
<1>2. CASE UNCHANGED vars
    BY <1>2
<1>3. QED
    BY <1>1, <1>2
       DEF Next, Consume, Answered, Failing, Publish, Expire, Start, Read,
           ReadFails, AcquireFirst, AcquireDuplicate, AcquireFails,
           HandlerReturns, HandlerRaises, Ack, AckFails, Settle, Bury,
           BuryFails, Recover, Crash

\* Hence a duplicate stays one.
LEMMA DuplicatesStay ==
    ASSUME TypeOK, PositionsOK, [Next]_vars,
           NEW i \in taken, NEW j \in Ids, TookKeyFrom(j, i)
    PROVE  TookKeyFrom(j, i)'
<1>1. j \in taken
    BY DEF TookKeyFrom, PositionsOK
<1>2. QED BY <1>1, HistoryGrows DEF TookKeyFrom

\* A step of one consumer leaves every other where it is.
LEMMA OthersKeepTheirPlace ==
    ASSUME TypeOK, NEW c \in Consumers, Consume(c),
           NEW d \in Consumers, d # c
    PROVE  pc'[d] = pc[d] /\ cur'[d] = cur[d]
BY DEF TypeOK, Consume, Answered, Failing, Start, Read, ReadFails, AcquireFirst,
       AcquireDuplicate, AcquireFails, HandlerReturns, HandlerRaises, Ack,
       AckFails, Bury, BuryFails, Recover, Crash, Goto, loopVars

\* ... and costs no other consumer its entry: the keys it sets and the entries
\* it acks are its own.
LEMMA OthersStayOK ==
    ASSUME DeliveryInv, NEW c \in Consumers, Consume(c),
           NEW d \in Consumers, d # c
    PROVE  PlaceOK(d)'
<1> USE DEF DeliveryInv
<1>1. [Next]_vars
    BY DEF Next
<1>2. pc'[d] = pc[d] /\ cur'[d] = cur[d]
    BY OthersKeepTheirPlace
<1>3. PlaceOK(d)
    BY DEF LoopOK
<1>4. CASE ~Busy(d)
    BY <1>2, <1>4 DEF PlaceOK, Busy, BusyStates
<1>5. CASE Busy(d)
    <2>1. cur[d] \in taken /\ cur[d] \in Ids
        BY <1>5, BusyHasMessage
    <2>2. Busy(c) => cur[c] # cur[d]
        BY <1>5 DEF OneWorkerPerEntry
    <2>3. cur[d] \notin acquired => cur[d] \notin acquired'
        BY <2>2 DEF Consume, Answered, Failing, Start, Read, ReadFails,
            AcquireFirst, AcquireDuplicate, AcquireFails, HandlerReturns,
            HandlerRaises, Ack, AckFails, Bury, BuryFails, Recover, Crash,
            guardVars, Busy, BusyStates
    <2>4. owner[cur[d]] # Nobody => owner'[cur[d]] # Nobody
        BY <2>1, <2>2, ConstantsAssumption
           DEF Consume, Answered, Failing, Start, Read, ReadFails, Deliver,
            AcquireFirst, AcquireDuplicate, AcquireFails, HandlerReturns,
            HandlerRaises, Ack, AckFails, AckStates, Settle, Bury, BuryFails,
            Recover, Crash, groupVars, Busy, BusyStates, TypeOK
    <2>5. \A j \in Ids : TookKeyFrom(j, cur[d]) => TookKeyFrom(j, cur[d])'
        BY <1>1, <1>2, <2>1, DuplicatesStay DEF TookKeyFrom
    <2>6. QED BY <1>1, <1>2, <1>3, <2>3, <2>4, <2>5, HistoryGrows DEF PlaceOK
<1>6. QED BY <1>4, <1>5

\* Every step keeps what a consumer's place says of its entry.
LEMMA StepLoop == DeliveryInv /\ [Next]_vars => LoopOK'
<1> SUFFICES ASSUME DeliveryInv, [Next]_vars, NEW d \in Consumers
             PROVE  PlaceOK(d)'
    BY DEF LoopOK
<1> USE DEF DeliveryInv
<1>1. PlaceOK(d)
    BY DEF LoopOK
<1>2. CASE UNCHANGED <<loopVars, dlq, handled, owner, acquired, blind>>
    <2>1. CASE pc[d] # "skip"
        BY <1>1, <1>2, <2>1 DEF PlaceOK, loopVars
    <2>2. CASE pc[d] = "skip"
        <3>1. cur[d] \in taken
            BY <2>2 DEF PositionsOK, Busy, BusyStates
        <3>2. \A j \in Ids : TookKeyFrom(j, cur[d]) => TookKeyFrom(j, cur[d])'
            BY <1>2, <3>1, DuplicatesStay DEF TookKeyFrom, loopVars
        <3>3. QED BY <1>1, <1>2, <2>2, <3>2 DEF PlaceOK, loopVars
    <2>3. QED BY <2>1, <2>2
<1>3. ASSUME NEW c \in Consumers, Consume(c), c # d PROVE PlaceOK(d)'
    BY <1>3, OthersStayOK
<1>4. CASE Consume(d)
    <2> USE DEF Goto, IdleStates
    <2>1. CASE \/ Start(d) \/ ReadFails(d) \/ AcquireFirst(d) \/ HandlerRaises(d)
               \/ BuryFails(d) \/ Ack(d) \/ Recover(d) \/ Crash(d)
        <3>1. pc'[d] \in {"poll", "fallen", "run", "reject", "down"}
            BY <2>1 DEF Start, ReadFails, AcquireFirst, HandlerRaises, BuryFails,
                        Ack, Recover, Crash, TypeOK
        <3>2. QED BY <3>1 DEF PlaceOK
    <2>2. CASE AckFails(d)
        <3>1. pc'[d] \in {"poll", "fallen", "reject"}
            BY <2>2 DEF AckFails, AckStates, AfterAckError, TypeOK
        <3>2. QED BY <3>1 DEF PlaceOK
    <2>3. CASE Read(d)
        <3>1. PICK n \in Unread : /\ Deliver(n, d)
                                  /\ cur'[d] = n
                                  /\ pc'[d] \in {"got", "poison"}
            BY <2>3 DEF Read, TypeOK
        <3>2. n \notin acquired /\ acquired' = acquired
            BY <2>3, ConstantsAssumption
               DEF Read, Unread, PositionsOK, TypeOK, Ids, guardVars
        <3>3. owner'[n] # Nobody
            BY <3>1, ConstantsAssumption DEF Deliver, Unread, TypeOK
        <3>4. QED BY <3>1, <3>2, <3>3 DEF PlaceOK
    <2>4. CASE AcquireDuplicate(d)
        <3>1. cur[d] \notin acquired
            BY <1>1, <2>4 DEF AcquireDuplicate, PlaceOK
        <3>2. PICK j \in acquired : body[j] = body[cur[d]]
            BY <2>4 DEF AcquireDuplicate, KeysOK
        <3>3. j \in Ids /\ TookKeyFrom(j, cur[d])
            BY <3>1, <3>2 DEF TookKeyFrom, TypeOK
        <3>4. pc'[d] = "skip" /\ UNCHANGED <<cur[d], acquired, body>>
            BY <2>4 DEF AcquireDuplicate, TypeOK, streamVars, guardVars
        <3>5. QED BY <3>1, <3>3, <3>4 DEF PlaceOK, TookKeyFrom
    <2>5. CASE AcquireFails(d)
        BY <2>5 DEF AcquireFails, PlaceOK, TypeOK
    <2>6. CASE HandlerReturns(d)
        BY <2>6 DEF HandlerReturns, PlaceOK, TypeOK
    <2>7. CASE Bury(d)
        BY <2>7 DEF Bury, BuryStates, AfterBury, PlaceOK, TypeOK
    <2>8. QED BY <1>4, <2>1, <2>2, <2>3, <2>4, <2>5, <2>6, <2>7
              DEF Consume, Answered, Failing
<1>5. QED
    BY <1>2, <1>3, <1>4
       DEF Next, Publish, Expire, vars, streamVars, groupVars, guardVars, loopVars

\* A key that is set is recorded, for good, with the entry that set it.
LEMMA StepSeen ==
    ASSUME TypeOK, PositionsOK, [Next]_vars, NEW m \in seen',
           \A k \in seen : \E j \in acquired : body[j] = k
    PROVE  \E j \in acquired' : body'[j] = m
<1>1. CASE m \in seen
    <2>1. PICK j \in acquired : body[j] = m
        BY <1>1
    <2>2. QED BY <2>1, HistoryGrows DEF PositionsOK
<1>2. CASE m \notin seen
    <2>1. PICK c \in Consumers : AcquireFirst(c) \/ AcquireFails(c)
        BY <1>2 DEF Next, Consume, Answered, Failing, Publish, Expire, Start,
            Read, ReadFails, AcquireDuplicate, HandlerReturns, HandlerRaises,
            Ack, AckFails, Bury, BuryFails, Recover, Crash, vars, guardVars
    <2>2. m = body[cur[c]] /\ cur[c] \in acquired' /\ body' = body
        BY <1>2, <2>1 DEF AcquireFirst, AcquireFails, streamVars
    <2>3. QED BY <2>2
<1>3. QED BY <1>1, <1>2

\* An entry leaves the pending list only by the ack of the consumer on it,
\* which knows it handled, buried, blind or a duplicate.
LEMMA StepKeys == DeliveryInv /\ [Next]_vars => KeysOK'
<1> SUFFICES ASSUME DeliveryInv, [Next]_vars
             PROVE  KeysOK'
    OBVIOUS
<1> USE DEF DeliveryInv
<1>1. \A m \in seen' : \E j \in acquired' : body'[j] = m
    BY StepSeen DEF KeysOK
<1>2. ASSUME DlqEnabled, NEW i \in taken'
      PROVE  \/ Accounted(i)'
             \/ i \notin acquired' /\ \E j \in Ids : TookKeyFrom(j, i)'
    <2>1. CASE i \notin taken
        <3>1. PICK n \in Unread, c \in Consumers : Deliver(n, c)
            BY <2>1 DEF Next, Consume, Answered, Failing, Publish, Expire,
                Start, Read, ReadFails, AcquireFirst, AcquireDuplicate,
                AcquireFails, HandlerReturns, HandlerRaises, Ack, AckFails,
                Settle, Bury, BuryFails, Recover, Crash, vars, groupVars
        <3>2. owner'[i] # Nobody
            BY <2>1, <3>1, ConstantsAssumption DEF Deliver, Unread, TypeOK
        <3>3. QED BY <3>2 DEF Accounted
    <2>2. ASSUME i \in taken, owner[i] # Nobody, owner'[i] = Nobody
          PROVE  \/ Accounted(i)'
                 \/ i \notin acquired' /\ \E j \in Ids : TookKeyFrom(j, i)'
        <3>1. PICK c \in Consumers : (Ack(c) \/ AckFails(c)) /\ Settle(cur[c])
            BY <2>2, ConstantsAssumption DEF Next, Consume, Answered, Failing,
                Publish, Expire, Start, Read, ReadFails, Deliver, Unread,
                AcquireFirst, AcquireDuplicate, AcquireFails, HandlerReturns,
                HandlerRaises, Ack, AckFails, Bury, BuryFails, Recover, Crash,
                vars, groupVars, TypeOK
        <3>2. i = cur[c] /\ pc[c] \in AckStates /\ acquired' = acquired
            BY <2>2, <3>1 DEF Settle, TypeOK, Ack, AckFails, guardVars
        <3>3. i \in handled \cup blind \cup dlq \/
                 (i \notin acquired /\ \E j \in Ids : TookKeyFrom(j, i))
            BY <1>2, <3>2 DEF LoopOK, PlaceOK, AckStates
        <3>4. QED BY <2>2, <3>2, <3>3, HistoryGrows, DuplicatesStay DEF Accounted
    <2>3. ASSUME i \in taken, Accounted(i), owner[i] = Nobody
          PROVE  Accounted(i)'
        BY <2>3, HistoryGrows DEF Accounted
    <2>4. ASSUME i \in taken, i \notin acquired, NEW j \in Ids, TookKeyFrom(j, i)
          PROVE  \/ Accounted(i)'
                 \/ i \notin acquired' /\ TookKeyFrom(j, i)'
        <3>1. CASE i \notin acquired'
            BY <2>4, <3>1, DuplicatesStay
        <3>2. CASE i \in acquired'
            <4>1. PICK c \in Consumers : /\ pc[c] = "got"
                                         /\ cur[c] = i
                                         /\ owner' = owner
                BY <2>4, <3>2 DEF Next, Consume, Answered, Failing, Publish,
                    Expire, Start, Read, ReadFails, AcquireFirst,
                    AcquireDuplicate, AcquireFails, HandlerReturns,
                    HandlerRaises, Ack, AckFails, Bury, BuryFails, Recover,
                    Crash, vars, guardVars, groupVars
            <4>2. owner'[i] # Nobody
                BY <4>1 DEF LoopOK, PlaceOK
            <4>3. QED BY <4>2 DEF Accounted
        <3>3. QED BY <3>1, <3>2
    <2>5. CASE i \in taken /\ owner'[i] # Nobody
        BY <2>5 DEF Accounted
    <2>6. QED BY <1>2, <2>1, <2>2, <2>3, <2>4, <2>5 DEF KeysOK, Accounted
<1>3. QED BY <1>1, <1>2 DEF KeysOK

-----------------------------------------------------------------------------
(* The theorems *)

\* The delivery invariant holds at the start and is kept by every step.
LEMMA InitDelivery == Init => DeliveryInv
<1> SUFFICES ASSUME Init PROVE DeliveryInv
    OBVIOUS
<1>1. TypeOK /\ PositionsOK
    BY InitPositions
<1>2. OneWorkerPerEntry /\ LoopOK
    BY DEF Init, OneWorkerPerEntry, LoopOK, PlaceOK, Busy, BusyStates
<1>3. PendingKeepsPayload /\ KeysOK
    BY DEF Init, PendingKeepsPayload, KeysOK
<1>4. QED BY <1>1, <1>2, <1>3 DEF DeliveryInv

LEMMA StepDelivery == DeliveryInv /\ [Next]_vars => DeliveryInv'
BY StepPositions, StepWorkers, StepPayload, StepLoop, StepKeys DEF DeliveryInv

\* The state of streams, groups, dedup keys and loops is always well typed:
\* positions stay within what was appended, whatever the tables' sizes.
THEOREM TypeCorrect == Spec => []TypeOK
<1>1. Init => TypeOK /\ PositionsOK
    BY InitPositions
<1>2. TypeOK /\ PositionsOK /\ [Next]_vars => TypeOK' /\ PositionsOK'
    BY StepPositions
<1>3. QED BY <1>1, <1>2, PTL DEF Spec

\* The invariant all others follow from.
THEOREM DeliveryInvariant == Spec => []DeliveryInv
BY InitDelivery, StepDelivery, PTL DEF Spec

\* Every entry the group delivered is pending, handled, in the DLQ, trimmed,
\* blind, or a duplicate of an entry that is: for any number of producers,
\* consumers, crashes, lost answers and expiries.
THEOREM NothingLostSilently == Spec => []NoSilentLoss
<1>1. DeliveryInv => NoSilentLoss
    <2> SUFFICES ASSUME DeliveryInv, DlqEnabled, NEW i \in taken
                 PROVE  Accounted(i) \/ \E j \in Ids : TookKeyFrom(j, i) /\ Accounted(j)
        BY DEF NoSilentLoss
    <2>1. ASSUME NEW j \in Ids, TookKeyFrom(j, i) PROVE Accounted(j)
        BY <2>1 DEF DeliveryInv, KeysOK, PositionsOK, TookKeyFrom
    <2>2. QED BY <2>1 DEF DeliveryInv, KeysOK
<1>2. QED BY <1>1, DeliveryInvariant, PTL

\* The handler of a message runs at most once per window of its dedup key.
THEOREM HandlerRunsOnce == Spec => []OneRunPerWindow
<1>1. Init => OneRunPerWindow
    BY DEF Init, OneRunPerWindow
<1>2. DeliveryInv /\ OneRunPerWindow /\ [Next]_vars => OneRunPerWindow'
    BY StepRuns DEF DeliveryInv
<1>3. QED BY <1>1, <1>2, DeliveryInvariant, PTL DEF Spec

\* No two live consumers of a group ever work on the same entry.
THEOREM EntriesHaveOneWorker == Spec => []OneWorkerPerEntry
BY DeliveryInvariant, PTL DEF DeliveryInv

\* A pending entry has its payload in the stream until MAXLEN trims it.
THEOREM PayloadsStay == Spec => []PendingKeepsPayload
BY DeliveryInvariant, PTL DEF DeliveryInv
-----------------------------------------------------------------------------
(* The refinement: where every entry is                                    *)

Finished == handled \cup dlq

\* An entry waits in the stream past the group's last-delivered-id until it is
\* taken or trimmed, and only taken ones are finished.
QueueOK ==
    /\ \A i \in 1 .. top : i \in taken \cup evicted \/ (i \in stream /\ delivered < i)
    /\ Finished \subseteq taken
    /\ stream \cap evicted = {}

\* A consumer that has not finished its entry still holds it in the group.
HoldsOK(c) ==
    /\ pc[c] \in {"got", "run", "skip", "poison"} => owner[cur[c]] # Nobody
    /\ pc[c] \in {"got", "run"} => cur[c] \notin dlq
    /\ pc[c] = "reject" => cur[c] \in handled \/ owner[cur[c]] # Nobody

\* An entry that set its key is never skipped for another.
KeptOK == \A j \in acquired : owner[j] # Nobody \/ j \in Finished \cup blind

FatesOK == QueueOK /\ (\A c \in Consumers : HoldsOK(c)) /\ KeptOK

-----------------------------------------------------------------------------
(* The invariant *)

\* Nothing has a fate at the start.
LEMMA InitFates == Init => FatesOK
BY ConstantsAssumption DEF Init, FatesOK, QueueOK, HoldsOK, KeptOK, Finished

\* Entries stay queued until they are taken or trimmed.
LEMMA StepQueue == DeliveryInv /\ FatesOK /\ [Next]_vars => QueueOK'
<1> SUFFICES ASSUME DeliveryInv, FatesOK, [Next]_vars PROVE QueueOK'
    OBVIOUS
<1> USE ConstantsAssumption DEF DeliveryInv, FatesOK, QueueOK, Finished
<1>1. ASSUME NEW m \in Messages, Publish(m) PROVE QueueOK'
    <2>1. PICK kept \in XaddTrims(stream \cup {top + 1}) :
             /\ stream' = kept
             /\ evicted' = evicted \cup ((stream \cup {top + 1}) \ kept)
        BY <1>1 DEF Publish
    <2>2. top \in Nat /\ delivered \in Nat /\ delivered <= top
        BY DEF TypeOK, PositionsOK
    <2>3. top + 1 \notin evicted
        BY <2>2 DEF PositionsOK
    <2>4. kept \subseteq stream \cup {top + 1}
        BY TrimsAreSubsets
    <2>5. stream' \cap evicted' = {}
        BY <2>1, <2>3, <2>4
    <2>6. \A i \in 1 .. top + 1 :
             i \in taken \cup evicted' \/ (i \in stream' /\ delivered < i)
        BY <2>1, <2>2
    <2>7. QED BY <1>1, <2>5, <2>6 DEF Publish, groupVars
<1>2. ASSUME NEW c \in Consumers, NEW n \in Unread, Deliver(n, c),
             UNCHANGED <<streamVars, dlq, handled>>
      PROVE  QueueOK'
    <2>1. \A i \in 1 .. top : i \in Nat /\ n \in Nat /\ delivered \in Nat
        BY DEF Unread, TypeOK, Ids
    <2>2. QED BY <1>2, <2>1 DEF Deliver, Unread, streamVars
<1>3. ASSUME NEW c \in Consumers, AcquireFirst(c) \/ AcquireDuplicate(c) \/ AcquireFails(c)
      PROVE  QueueOK'
    BY <1>3 DEF AcquireFirst, AcquireDuplicate, AcquireFails, streamVars, groupVars
<1>4. ASSUME NEW c \in Consumers, HandlerReturns(c) \/ HandlerRaises(c)
      PROVE  QueueOK'
    BY <1>4 DEF HandlerReturns, HandlerRaises, streamVars, groupVars, PositionsOK,
                Busy, BusyStates
<1>5. ASSUME NEW c \in Consumers, Bury(c) \/ BuryFails(c) PROVE QueueOK'
    BY <1>5 DEF Bury, BuryFails, BuryStates, streamVars, groupVars, PositionsOK,
                Busy, BusyStates
<1>6. ASSUME NEW c \in Consumers, Ack(c) \/ AckFails(c) PROVE QueueOK'
    <2>1. cur[c] \in taken
        BY <1>6 DEF Ack, AckFails, AckStates, PositionsOK, Busy, BusyStates
    <2>2. CASE UNCHANGED <<streamVars, groupVars>>
        BY <1>6, <2>2 DEF Ack, AckFails, streamVars, groupVars
    <2>3. CASE Settle(cur[c])
        BY <1>6, <2>1, <2>3 DEF Ack, AckFails, Settle
    <2>4. QED BY <1>6, <2>2, <2>3 DEF Ack, AckFails
<1>7. CASE UNCHANGED <<streamVars, groupVars, dlq, handled>>
    BY <1>7 DEF streamVars, groupVars
<1>8. QED
    BY <1>1, <1>2, <1>3, <1>4, <1>5, <1>6, <1>7
       DEF Next, Consume, Answered, Failing, Start, Read, ReadFails, Recover, Crash,
           Expire, vars

\* What another consumer does leaves c's entry in c's hands.
LEMMA StepHolds ==
    ASSUME DeliveryInv, FatesOK, [Next]_vars, NEW d \in Consumers
    PROVE  HoldsOK(d)'
<1> USE ConstantsAssumption DEF DeliveryInv, FatesOK
<1>0. HoldsOK(d)
    OBVIOUS
<1>1. CASE UNCHANGED <<loopVars, dlq, handled, owner>>
    BY <1>0, <1>1 DEF HoldsOK, loopVars
<1>2. ASSUME NEW c \in Consumers, Consume(c), c # d PROVE HoldsOK(d)'
    <2>1. pc'[d] = pc[d] /\ cur'[d] = cur[d]
        BY <1>2, OthersKeepTheirPlace
    <2>2. CASE Busy(d)
        <3>1. cur[d] \in taken /\ cur[d] \in Ids
            BY <2>2 DEF PositionsOK, TypeOK
        <3>2. handled \subseteq handled'
            BY HistoryGrows
        <3>3. owner[cur[d]] # Nobody => owner'[cur[d]] # Nobody
            <4>1. CASE UNCHANGED owner
                BY <4>1
            <4>2. ASSUME NEW n \in Unread, Deliver(n, c)
                  PROVE  owner[cur[d]] # Nobody => owner'[cur[d]] # Nobody
                BY <3>1, <4>2 DEF Deliver, TypeOK
            <4>3. CASE pc[c] \in AckStates /\ Settle(cur[c])
                BY <1>2, <2>2, <3>1, <4>3
                   DEF Settle, OneWorkerPerEntry, Busy, BusyStates, AckStates, TypeOK
            <4>4. QED
                BY <1>2, <4>1, <4>2, <4>3
                   DEF Consume, Answered, Failing, Start, Read, ReadFails, AcquireFirst,
                       AcquireDuplicate, AcquireFails, HandlerReturns, HandlerRaises,
                       Ack, AckFails, Bury, BuryFails, Recover, Crash, groupVars
        <3>4. cur[d] \notin dlq => cur[d] \notin dlq'
            <4>1. CASE UNCHANGED dlq
                BY <4>1
            <4>2. CASE pc[c] \in BuryStates /\ dlq' \subseteq dlq \cup {cur[c]}
                BY <1>2, <2>2, <4>2
                   DEF OneWorkerPerEntry, Busy, BusyStates, BuryStates
            <4>3. QED
                BY <1>2, <4>1, <4>2
                   DEF Consume, Answered, Failing, Start, Read, ReadFails, AcquireFirst,
                       AcquireDuplicate, AcquireFails, HandlerReturns, HandlerRaises,
                       Ack, AckFails, Bury, BuryFails, Recover, Crash
        <3>5. QED BY <1>0, <2>1, <3>2, <3>3, <3>4 DEF HoldsOK
    <2>3. CASE ~Busy(d)
        BY <2>1, <2>3 DEF HoldsOK, Busy, BusyStates
    <2>4. QED BY <2>2, <2>3
<1>3. CASE Consume(d)
    <2> USE DEF Goto, IdleStates, HoldsOK
    <2>1. CASE Start(d) \/ ReadFails(d) \/ Bury(d) \/ BuryFails(d) \/ Ack(d) \/ Recover(d)
               \/ Crash(d)
        <3>1. pc'[d] \in {"poll", "fallen", "down", "rejectAck", "poisonAck"}
            BY <2>1 DEF Start, ReadFails, Bury, BuryFails, BuryStates, AfterBury, Ack,
                        Recover, Crash, TypeOK
        <3>2. QED BY <3>1
    <2>2. CASE Read(d)
        <3>1. PICK n \in Unread : Deliver(n, d) /\ cur'[d] = n
            BY <2>2 DEF Read, TypeOK
        <3>2. owner'[n] # Nobody
            BY <3>1 DEF Deliver, Unread, TypeOK
        <3>3. n \notin dlq /\ dlq' = dlq
            BY <2>2 DEF Read, Unread, QueueOK, Finished, PositionsOK, TypeOK
        <3>4. pc'[d] \in {"got", "poison"}
            BY <2>2 DEF Read, TypeOK
        <3>5. QED BY <3>1, <3>2, <3>3, <3>4
    <2>3. CASE AcquireFirst(d) \/ AcquireDuplicate(d) \/ AcquireFails(d) \/ HandlerRaises(d)
        BY <1>0, <2>3 DEF AcquireFirst, AcquireDuplicate, AcquireFails, HandlerRaises,
                          groupVars, TypeOK
    <2>4. CASE HandlerReturns(d)
        BY <2>4 DEF HandlerReturns, TypeOK
    <2>5. CASE AckFails(d)
        <3>1. pc'[d] \in {"poll", "fallen"} \/ (pc[d] = "ack" /\ pc'[d] = "reject")
            BY <2>5 DEF AckFails, AckStates, AfterAckError, TypeOK
        <3>2. pc[d] = "ack" => cur[d] \in handled
            BY DEF LoopOK, PlaceOK
        <3>3. handled' = handled /\ (pc'[d] = "reject" => cur'[d] = cur[d])
            BY <2>5 DEF AckFails, TypeOK
        <3>4. QED BY <3>1, <3>2, <3>3
    <2>6. QED BY <1>3, <2>1, <2>2, <2>3, <2>4, <2>5 DEF Consume, Answered, Failing
<1>4. QED
    BY <1>1, <1>2, <1>3
       DEF Next, Publish, Expire, vars, streamVars, groupVars, guardVars, loopVars

\* With a dead-letter stream, an ack of an entry that set its key comes after
\* its handler, its burial or a lookup that raised.
LEMMA StepKept ==
    ASSUME DlqEnabled, DeliveryInv, FatesOK, [Next]_vars PROVE KeptOK'
<1> USE ConstantsAssumption DEF DeliveryInv, FatesOK, KeptOK, Finished
<1>1. handled \subseteq handled' /\ dlq \subseteq dlq' /\ blind \subseteq blind'
    BY HistoryGrows
<1>2. CASE UNCHANGED <<owner, acquired>>
    BY <1>1, <1>2
<1>3. ASSUME NEW c \in Consumers, NEW n \in Unread, Deliver(n, c), UNCHANGED acquired
      PROVE  KeptOK'
    BY <1>1, <1>3 DEF Deliver, TypeOK
<1>4. ASSUME NEW c \in Consumers, pc[c] = "got", UNCHANGED owner,
             acquired' \subseteq acquired \cup {cur[c]}
      PROVE  KeptOK'
    BY <1>1, <1>4 DEF HoldsOK
<1>5. ASSUME NEW c \in Consumers, pc[c] \in AckStates, Settle(cur[c]), UNCHANGED acquired
      PROVE  KeptOK'
    <2>1. cur[c] \notin acquired \/ cur[c] \in Finished \cup blind
        BY <1>5 DEF LoopOK, PlaceOK, AckStates
    <2>2. \A j \in Ids : j # cur[c] => owner'[j] = owner[j]
        BY <1>5 DEF Settle, TypeOK
    <2>3. acquired \subseteq Ids
        BY DEF TypeOK
    <2>4. QED BY <1>1, <1>5, <2>1, <2>2, <2>3
<1>6. QED
    BY <1>2, <1>3, <1>4, <1>5
       DEF Next, Consume, Answered, Failing, Publish, Expire, Start, Read, ReadFails,
           AcquireFirst, AcquireDuplicate, AcquireFails, HandlerReturns, HandlerRaises,
           Ack, AckFails, Bury, BuryFails, Recover, Crash,
           vars, streamVars, groupVars, guardVars, loopVars

\* What the mapping needs to know of a state, on top of the delivery invariant.
THEOREM FatesInvariant ==
    ASSUME DlqEnabled PROVE Spec => [](DeliveryInv /\ FatesOK)
<1>1. Init => DeliveryInv /\ FatesOK
    BY InitDelivery, InitFates
<1>2. DeliveryInv /\ FatesOK /\ [Next]_vars => (DeliveryInv /\ FatesOK)'
    BY StepDelivery, StepQueue, StepHolds, StepKept DEF FatesOK
<1>3. QED BY <1>1, <1>2, PTL DEF Spec

-----------------------------------------------------------------------------
(* The steps *)

Fate == [i \in Ids |-> FateOf(i)]

\* What was taken exists.
LEMMA TakenExist ==
    ASSUME DeliveryInv, NEW n \in taken
    PROVE  n \in Ids /\ n <= top /\ ~(n > top)
BY DEF DeliveryInv, TypeOK, PositionsOK, Ids

\* What an entry needs so that another may be skipped for it.
LEMMA KeepersCount ==
    ASSUME DeliveryInv, FatesOK, NEW j \in acquired
    PROVE  FateOf(j) \in {"held", "handled", "buried", "lost"}
<1>1. j \in taken /\ j \in Ids /\ j <= top
    BY DEF DeliveryInv, TypeOK, PositionsOK, Ids
<1>2. ~(j > top)
    BY <1>1 DEF DeliveryInv, TypeOK, Ids
<1>3. QED BY <1>1, <1>2 DEF FatesOK, KeptOK, Finished, FateOf

\* A step that changes the fate of one entry only.
LEMMA OneFate ==
    ASSUME NEW n \in Ids, NEW f, FateOf(n)' = f, body' = body,
           \A i \in Ids : i # n => FateOf(i)' = FateOf(i)
    PROVE  Contract!Become(n, f)
BY DEF Contract!Become

\* A step that changes none.
LEMMA NoFate ==
    ASSUME body' = body, \A i \in Ids : FateOf(i)' = FateOf(i)
    PROVE  UNCHANGED <<Fate, body>>
BY DEF Fate

\* The same, by the variables the fates are read from.
LEMMA SameFates ==
    ASSUME UNCHANGED <<top, body, evicted, taken, handled, dlq, blind, owner>>
    PROVE  UNCHANGED <<Fate, body>>
BY NoFate DEF FateOf

\* An XADD appends the next entry, and the queued ones it trims are evicted.
LEMMA PublishAppends ==
    ASSUME DeliveryInv, FatesOK, NEW m \in Messages, Publish(m)
    PROVE  Contract!Next
<1> USE DEF DeliveryInv, FatesOK, Ids
<1> DEFINE S == stream \cup {top + 1}
<1>1. PICK kept \in XaddTrims(S) : stream' = kept /\ evicted' = evicted \cup (S \ kept)
    BY DEF Publish
<1>2. PICK cut \in 0 .. MaxEntries : kept = {i \in S : i > cut}
    BY DEF XaddTrims
<1>3. top \in Nat /\ top + 1 \in Ids /\ MaxEntries \in Nat
    BY ConstantsAssumption DEF Publish, TypeOK
<1>4. /\ taken \subseteq 1 .. top /\ Finished \subseteq taken
      /\ stream \cup evicted \subseteq 1 .. top
    BY DEF TypeOK, PositionsOK, QueueOK
<1>5. UNCHANGED <<taken, handled, dlq, owner, blind>> /\ top' = top + 1
    BY DEF Publish, groupVars, guardVars
<1>6. FateOf(top + 1) = "absent"
    BY <1>3 DEF FateOf
<1>7. \A j \in Ids : j < top + 1 => FateOf(j) # "absent"
    BY <1>3 DEF FateOf
<1>8. \A j \in Ids :
         FateOf(j)' = IF (FateOf(j) = "queued" \/ j = top + 1) /\ j <= cut
                      THEN "evicted"
                      ELSE IF j = top + 1 THEN "queued" ELSE FateOf(j)
    <2> SUFFICES ASSUME NEW j \in Ids
                 PROVE  FateOf(j)' = IF (FateOf(j) = "queued" \/ j = top + 1) /\ j <= cut
                                     THEN "evicted"
                                     ELSE IF j = top + 1 THEN "queued" ELSE FateOf(j)
        OBVIOUS
    <2>1. CASE j > top + 1
        BY <1>3, <1>5, <2>1 DEF FateOf
    <2>2. CASE j = top + 1
        <3>1. j \notin taken /\ j \notin Finished /\ j \notin evicted
            BY <1>3, <1>4, <2>2
        <3>2. j \in evicted' <=> j <= cut
            BY <1>1, <1>2, <1>3, <2>2, <3>1
        <3>3. QED BY <1>3, <1>5, <2>2, <3>1, <3>2 DEF FateOf, Finished
    <2>3. CASE j <= top /\ (j \in taken \/ j \in evicted)
        BY <1>1, <1>3, <1>4, <1>5, <2>3 DEF FateOf, Finished
    <2>4. CASE j <= top /\ j \notin taken /\ j \notin evicted
        <3>1. j \in stream /\ j \notin Finished
            BY <1>3, <1>4, <2>4 DEF QueueOK
        <3>2. j \in evicted' <=> j <= cut
            BY <1>1, <1>2, <1>3, <2>4, <3>1
        <3>3. QED BY <1>3, <1>5, <2>4, <3>1, <3>2 DEF FateOf, Finished
    <2>5. QED BY <1>3, <2>1, <2>2, <2>3, <2>4
<1>9. body' = [body EXCEPT ![top + 1] = m]
    BY DEF Publish
<1>10. Contract!Append(top + 1, m, cut)
    BY <1>3, <1>6, <1>7, <1>8, <1>9 DEF Contract!Append
<1>11. cut \in Ids \cup {0}
    BY <1>2, <1>3
<1>12. QED BY <1>3, <1>10, <1>11 DEF Contract!Next

\* What the group delivers is the oldest entry that is queued.
LEMMA DeliverTakes ==
    ASSUME DeliveryInv, FatesOK, NEW c \in Consumers, NEW n \in Unread, Deliver(n, c),
           UNCHANGED <<streamVars, dlq, handled, blind>>
    PROVE  Contract!Next
<1> USE DEF DeliveryInv, FatesOK
<1>1. n \in Ids /\ n <= top /\ n \notin taken /\ n \notin Finished /\ n \in stream
    BY DEF Unread, Ids, TypeOK, PositionsOK, QueueOK
<1>2. FateOf(n) = "queued"
    BY <1>1 DEF FateOf, Finished, QueueOK, Ids, TypeOK
<1>3. \A j \in Ids : j < n => FateOf(j) # "queued"
    <2> SUFFICES ASSUME NEW j \in Ids, j < n PROVE FateOf(j) # "queued"
        OBVIOUS
    <2>1. j \in 1 .. top
        BY <1>1 DEF Ids, TypeOK
    <2>2. ~(j \in stream /\ delivered < j)
        <3>1. j \in Nat /\ n \in Nat /\ delivered \in Nat
            BY <1>1 DEF Ids, TypeOK
        <3>2. QED BY <3>1 DEF Deliver, Unread
    <2>3. QED BY <2>1, <2>2 DEF QueueOK, FateOf
<1>4. FateOf(n)' = "held"
    <2>1. n \in taken' /\ owner'[n] = c /\ c # Nobody
        BY <1>1, ConstantsAssumption DEF Deliver, TypeOK
    <2>2. UNCHANGED <<top, handled, dlq>>
        BY DEF streamVars
    <2>3. ~(n > top)
        BY <1>1 DEF Ids, TypeOK
    <2>4. QED BY <1>1, <2>1, <2>2, <2>3 DEF FateOf, Finished
<1>5. \A i \in Ids : i # n => FateOf(i)' = FateOf(i)
    BY DEF Deliver, FateOf, streamVars, TypeOK
<1>6. Contract!Become(n, "held")
    BY <1>1, <1>4, <1>5, OneFate DEF streamVars
<1>7. QED BY <1>1, <1>2, <1>3, <1>6 DEF Contract!Next, Contract!Take

\* A handler that returns finishes its entry, if it was not finished before.
LEMMA HandlerFinishes ==
    ASSUME DeliveryInv, FatesOK, NEW c \in Consumers, HandlerReturns(c)
    PROVE  Contract!Next \/ UNCHANGED <<Fate, body>>
<1> USE DEF DeliveryInv, FatesOK
<1>0. PICK n \in taken : n = cur[c]
    BY DEF HandlerReturns, PositionsOK, Busy, BusyStates
<1>1. n \in taken /\ n \in Ids /\ ~(n > top) /\ owner[n] # Nobody /\ n \notin dlq
    BY <1>0, TakenExist DEF HandlerReturns, HoldsOK
<1>2. /\ UNCHANGED <<top, body, evicted, taken, dlq, blind, owner>>
      /\ handled' = handled \cup {n}
    BY <1>0 DEF HandlerReturns, streamVars, groupVars, guardVars
<1>3. CASE n \in handled
    BY <1>2, <1>3, SameFates
<1>4. CASE n \notin handled
    <2>1. FateOf(n) = "held" /\ FateOf(n)' = "handled"
        BY <1>1, <1>2, <1>4 DEF FateOf
    <2>2. \A i \in Ids : i # n => FateOf(i)' = FateOf(i)
        BY <1>2 DEF FateOf
    <2>3. Contract!Become(n, "handled")
        BY <1>1, <1>2, <2>1, <2>2, OneFate
    <2>4. QED BY <1>1, <2>1, <2>3 DEF Contract!Next, Contract!Finish
<1>5. QED BY <1>3, <1>4

\* A DLQ copy buries the entry, if its handler has not returned.
LEMMA CopyBuries ==
    ASSUME DeliveryInv, FatesOK, NEW c \in Consumers, Bury(c) \/ BuryFails(c)
    PROVE  Contract!Next \/ UNCHANGED <<Fate, body>>
<1> USE DEF DeliveryInv, FatesOK
<1>0. PICK n \in taken : n = cur[c]
    BY DEF Bury, BuryFails, BuryStates, PositionsOK, Busy, BusyStates
<1>1. n \in taken /\ n \in Ids /\ ~(n > top)
    BY TakenExist
<1>2. n \in handled \/ owner[n] # Nobody
    BY <1>0 DEF Bury, BuryFails, BuryStates, HoldsOK
<1>3. /\ UNCHANGED <<top, body, evicted, taken, handled, blind, owner>>
      /\ dlq' \in {dlq, dlq \cup {n}}
    BY <1>0 DEF Bury, BuryFails, streamVars, groupVars, guardVars
<1>4. CASE n \in Finished \/ dlq' = dlq
    <2>1. \A i \in Ids : FateOf(i)' = FateOf(i)
        BY <1>3, <1>4 DEF FateOf, Finished
    <2>2. QED BY <1>3, <2>1, NoFate
<1>5. CASE n \notin Finished /\ dlq' = dlq \cup {n}
    <2>1. FateOf(n) = "held" /\ FateOf(n)' = "buried"
        BY <1>1, <1>2, <1>3, <1>5 DEF FateOf, Finished
    <2>2. \A i \in Ids : i # n => FateOf(i)' = FateOf(i)
        BY <1>3 DEF FateOf
    <2>3. Contract!Become(n, "buried")
        BY <1>1, <1>3, <2>1, <2>2, OneFate
    <2>4. QED BY <1>1, <2>1, <2>3 DEF Contract!Next, Contract!DeadLetter
<1>6. QED BY <1>3, <1>4, <1>5

\* An entry that leaves the group unfinished is lost with its lookup, or skipped
\* for the entry that has its key.
LEMMA SettleSkipsOrLoses ==
    ASSUME DlqEnabled, DeliveryInv, FatesOK, NEW c \in Consumers, pc[c] \in AckStates,
           Settle(cur[c]), UNCHANGED <<guardVars, dlq, handled>>
    PROVE  Contract!Next \/ UNCHANGED <<Fate, body>>
<1> USE DEF DeliveryInv, FatesOK
<1>0. PICK n \in taken : n = cur[c]
    BY DEF AckStates, PositionsOK, Busy, BusyStates
<1>1. n \in taken /\ n \in Ids /\ ~(n > top)
    BY TakenExist
<1>2. /\ UNCHANGED <<top, body, evicted, taken, handled, dlq, blind, acquired>>
      /\ owner' = [owner EXCEPT ![n] = Nobody]
    BY <1>0 DEF Settle, guardVars
<1>3. owner'[n] = Nobody /\ \A i \in Ids : i # n => owner'[i] = owner[i]
    BY <1>1, <1>2 DEF TypeOK
<1>4. \A i \in Ids : i # n => FateOf(i)' = FateOf(i)
    BY <1>2, <1>3 DEF FateOf
<1>5. CASE n \in Finished
    <2>1. FateOf(n)' = FateOf(n)
        BY <1>2, <1>5 DEF FateOf, Finished
    <2>2. QED BY <1>2, <1>4, <2>1, NoFate
<1>6. CASE n \notin Finished
    <2>1. pc[c] = "skip" /\ owner[n] # Nobody
        BY <1>0, <1>6 DEF AckStates, LoopOK, PlaceOK, HoldsOK, Finished
    <2>2. FateOf(n) = "held"
        BY <1>1, <1>6, <2>1 DEF FateOf, Finished
    <2>3. CASE n \in blind
        <3>1. FateOf(n)' = "lost"
            BY <1>1, <1>2, <1>3, <1>6, <2>3 DEF FateOf, Finished
        <3>2. Contract!Become(n, "lost")
            BY <1>1, <1>2, <1>4, <3>1, OneFate
        <3>3. QED BY <1>1, <2>2, <3>2 DEF Contract!Next, Contract!Lose
    <2>4. CASE n \notin blind
        <3>1. FateOf(n)' = "skipped"
            BY <1>1, <1>2, <1>3, <1>6, <2>4 DEF FateOf, Finished
        <3>2. Contract!Become(n, "skipped")
            BY <1>1, <1>2, <1>4, <3>1, OneFate
        <3>3. PICK j \in Ids : TookKeyFrom(j, n)
            BY <1>0, <2>1, <2>4 DEF LoopOK, PlaceOK
        <3>4. j \in Ids \ {n} /\ body[j] = body[n]
            BY <3>3 DEF TookKeyFrom
        <3>5. FateOf(j) \in {"held", "handled", "buried", "lost"}
            BY <3>3, KeepersCount DEF TookKeyFrom
        <3>6. Contract!Skip(n)
            BY <1>1, <2>2, <3>2, <3>4, <3>5 DEF Contract!Skip
        <3>7. QED BY <1>1, <3>6 DEF Contract!Next
    <2>5. QED BY <2>3, <2>4
<1>7. QED BY <1>5, <1>6

\* A lookup that raises leaves its entry held.
LEMMA LookupKeepsFates ==
    ASSUME DeliveryInv, FatesOK, NEW c \in Consumers, AcquireFails(c)
    PROVE  UNCHANGED <<Fate, body>>
<1>1. owner[cur[c]] # Nobody
    BY DEF AcquireFails, FatesOK, HoldsOK
<1>2. UNCHANGED <<top, body, evicted, taken, handled, dlq, owner>> /\ blind' = blind \cup {cur[c]}
    BY DEF AcquireFails, streamVars, groupVars
<1>3. \A i \in Ids : FateOf(i)' = FateOf(i)
    BY <1>1, <1>2 DEF FateOf
<1>4. QED BY <1>2, <1>3, NoFate

-----------------------------------------------------------------------------
(* The refinement *)

\* Nothing is appended at the start, here and in the contract.
LEMMA InitRefines == Init => Contract!Init
BY DEF Init, Contract!Init, FateOf, Ids

\* Every step of the loop is one of the contract, or none.
LEMMA StepRefines ==
    ASSUME DlqEnabled, DeliveryInv, FatesOK, [Next]_vars
    PROVE  Contract!Next \/ UNCHANGED <<Fate, body>>
<1>1. ASSUME NEW m \in Messages, Publish(m) PROVE Contract!Next
    BY <1>1, PublishAppends
<1>2. CASE UNCHANGED <<streamVars, groupVars, dlq, handled, blind>>
    BY <1>2, SameFates DEF streamVars, groupVars
<1>3. ASSUME NEW c \in Consumers, Read(c) \/ ReadFails(c)
      PROVE  Contract!Next \/ UNCHANGED <<Fate, body>>
    BY <1>2, <1>3, DeliverTakes DEF Read, ReadFails, guardVars
<1>4. ASSUME NEW c \in Consumers, Ack(c) \/ AckFails(c)
      PROVE  Contract!Next \/ UNCHANGED <<Fate, body>>
    BY <1>2, <1>4, SettleSkipsOrLoses DEF Ack, AckFails, guardVars
<1>5. ASSUME NEW c \in Consumers,
             AcquireFails(c) \/ HandlerReturns(c) \/ Bury(c) \/ BuryFails(c)
      PROVE  Contract!Next \/ UNCHANGED <<Fate, body>>
    BY <1>5, LookupKeepsFates, HandlerFinishes, CopyBuries
<1>6. ASSUME NEW c \in Consumers,
             \/ Start(c) \/ AcquireFirst(c) \/ AcquireDuplicate(c) \/ HandlerRaises(c)
             \/ Recover(c) \/ Crash(c)
      PROVE  UNCHANGED <<streamVars, groupVars, dlq, handled, blind>>
    BY <1>6 DEF Start, AcquireFirst, AcquireDuplicate, HandlerRaises, Recover, Crash,
                guardVars
<1>7. ASSUME NEW m \in Messages, Expire(m)
      PROVE  UNCHANGED <<streamVars, groupVars, dlq, handled, blind>>
    BY <1>7 DEF Expire
<1>8. CASE UNCHANGED vars
    BY <1>2, <1>8 DEF vars, guardVars
<1>9. QED
    BY <1>1, <1>2, <1>3, <1>4, <1>5, <1>6, <1>7, <1>8
       DEF Next, Consume, Answered, Failing

\* Every behaviour of the delivery loop is a behaviour of the contract: entries
\* are taken in order and once, and end handled, buried, skipped for a message
\* that was not, or lost with their lookup.
THEOREM LoopImplementsContract ==
    ASSUME DlqEnabled PROVE Spec => ImplementsContract
<1>1. Init => Contract!Init
    BY InitRefines
<1>2. DeliveryInv /\ FatesOK /\ [Next]_vars => [Contract!Next]_<<Fate, body>>
    BY StepRefines
<1>3. QED
    BY <1>1, <1>2, FatesInvariant, PTL DEF Spec, ImplementsContract, Contract!Spec, Fate
-----------------------------------------------------------------------------
(* The janitor beside the loops                                           *)

Traced(i) ==
    \/ Accounted(i)
    \/ i \in trimmed
    \/ \E c \in Consumers : <<i, c>> \in dropped

\* XINFO GROUPS gave a cut-off within what the group was delivered; after
\* XPENDING it is within what was pending.  Both only move up.
CutoffOK ==
    /\ jpc \in {"pending", "trim"} /\ jgroup => jcut <= delivered + 1
    /\ jpc = "trim" /\ jgroup => \A i \in Pending : jcut <= i

\* Names to remove are of processes that will not read again, or may stall.
Away(c) == pc[c] = "down" \/ (pc[c] = "fallen" /\ ~LoopRestarts)

PruneOK ==
    \A c \in jprune \ Stalling : Away(c) /\ \A i \in Ids : owner[i] # c

\* A payload leaves the stream before its entry leaves the group only by a
\* trim; the entry about to be acked has its copy or was trimmed.
BuryOK ==
    /\ \A i \in Ids : owner[i] # Nobody => i \in stream \cup evicted \cup trimmed
    /\ jbury \subseteq taken
    /\ jpc = "ack" =>
          \A i \in jbury :
              (\A j \in jbury : i <= j) /\ owner[i] # Nobody =>
                  i \in dlq \cup evicted \cup trimmed

\* What a consumer's place in the loop says of its entry.
PlaceOKJ(c) ==
    /\ pc[c] = "got" => cur[c] \notin acquired /\ (DlqEnabled => Traced(cur[c]))
    /\ pc[c] = "ack" => cur[c] \in handled
    /\ pc[c] = "skip" =>
          cur[c] \in blind \/ ( /\ cur[c] \notin acquired
                               /\ \E j \in Ids : TookKeyFrom(j, cur[c]) )
    /\ pc[c] \in {"rejectAck", "poisonAck"} /\ DlqEnabled => cur[c] \in dlq

LoopOKJ == \A c \in Consumers : PlaceOKJ(c)

KeysOKJ ==
    /\ \A m \in seen : \E j \in acquired : body[j] = m
    /\ DlqEnabled =>
          \A i \in taken :
              \/ Traced(i)
              \/ i \notin acquired /\ \E j \in Ids : TookKeyFrom(j, i)

JanitorInv ==
    /\ JTypeOK
    /\ PositionsOK
    /\ OneWorkerPerEntry
    /\ CutoffOK
    /\ PruneOK
    /\ RemovedHeldNothing
    /\ BuryOK
    /\ LoopOKJ
    /\ KeysOKJ

-----------------------------------------------------------------------------
(* What a step of the loops does to the variables the janitor reads *)

\* An entry becomes pending by the read of a polling consumer, past all that
\* was delivered, and stops by an ack of the consumer on it.
LoopMoves(i) ==
    \/ owner'[i] = owner[i]
    \/ /\ delivered < i /\ delivered' = i /\ i \in stream' /\ i \notin taken
       /\ pc[owner'[i]] = "poll"
    \/ /\ owner'[i] = Nobody /\ delivered' = delivered
       /\ acquired' = acquired
       /\ \E c \in Consumers : pc[c] \in AckStates /\ cur[c] = i

LEMMA LoopStep ==
    ASSUME TypeOK, PositionsOK, [Next]_vars
    PROVE  /\ \A i \in Ids : LoopMoves(i)
           /\ \A i \in stream : i \in stream' \cup evicted' \/ owner'[i] = Nobody
           /\ delivered <= delivered'
           /\ \A c \in Consumers : Away(c) => Away(c)'
<1> USE DEF streamVars, groupVars, guardVars, loopVars, vars
<1> DEFINE Owners == \A i \in Ids : LoopMoves(i)
           Entries == \A i \in stream : i \in stream' \cup evicted' \/ owner'[i] = Nobody
<1>0. delivered \in Nat /\ stream \subseteq Ids
    BY ConstantsAssumption DEF TypeOK
<1>1. ASSUME UNCHANGED <<streamVars, groupVars>> PROVE Owners /\ Entries /\ delivered <= delivered'
    <2>1. delivered' = delivered /\ owner' = owner /\ stream' = stream
        BY <1>1
    <2>2. QED BY <1>0, <2>1 DEF LoopMoves
<1>2. ASSUME NEW m \in Messages, Publish(m) PROVE Owners /\ Entries /\ delivered <= delivered'
    BY <1>0, <1>2 DEF Publish, LoopMoves
<1>3. ASSUME NEW n \in Unread, NEW c \in Consumers, Deliver(n, c), pc[c] = "poll",
             UNCHANGED streamVars
      PROVE  Owners /\ Entries /\ delivered <= delivered'
    <2>1. n \in stream /\ n \in Ids /\ delivered < n /\ n \notin taken
        BY <1>0, ConstantsAssumption DEF Unread, PositionsOK, Ids
    <2>2. /\ delivered' = n /\ owner'[n] = c
          /\ \A i \in Ids \ {n} : owner'[i] = owner[i]
        BY <1>3, <2>1 DEF Deliver, TypeOK
    <2>3. Owners
        BY <1>3, <2>1, <2>2 DEF LoopMoves
    <2>4. delivered <= delivered'
        BY <1>0, <2>1, <2>2, ConstantsAssumption DEF Ids
    <2>5. QED BY <1>3, <2>3, <2>4
<1>4. ASSUME NEW c \in Consumers, pc[c] \in AckStates, Settle(cur[c]), UNCHANGED guardVars
      PROVE  Owners /\ Entries /\ delivered <= delivered'
    <2>1. /\ \A i \in Ids \ {cur[c]} : owner'[i] = owner[i]
          /\ cur[c] \in Ids => owner'[cur[c]] = Nobody
          /\ delivered' = delivered
          /\ \A i \in stream : i = cur[c] \/ i \in stream'
        BY <1>4 DEF Settle, TypeOK
    <2>2. QED BY <1>0, <1>4, <2>1 DEF LoopMoves
<1>5. ASSUME NEW c \in Consumers, Read(c) \/ ReadFails(c)
      PROVE  Owners /\ Entries /\ delivered <= delivered'
    BY <1>1, <1>3, <1>5 DEF Read, ReadFails
<1>6. ASSUME NEW c \in Consumers, Ack(c) \/ AckFails(c)
      PROVE  Owners /\ Entries /\ delivered <= delivered'
    BY <1>1, <1>4, <1>6 DEF Ack, AckFails
<1>7. Owners /\ Entries /\ delivered <= delivered'
    BY <1>1, <1>2, <1>5, <1>6
       DEF Next, Consume, Answered, Failing, Expire, Start, AcquireFirst,
           AcquireDuplicate, AcquireFails, HandlerReturns, HandlerRaises,
           Bury, BuryFails, Recover, Crash
<1>8. ASSUME NEW c \in Consumers, Away(c) PROVE Away(c)'
    <2>1. CASE UNCHANGED loopVars
        BY <1>8, <2>1 DEF Away
    <2>2. ASSUME NEW d \in Consumers, Consume(d) PROVE Away(c)'
        <3>1. CASE d # c
            BY <1>8, <2>2, <3>1, OthersKeepTheirPlace DEF Away
        <3>2. CASE d = c
            <4>1. Crash(c)
                BY <1>8, <2>2, <3>2 DEF Away, Consume, Answered, Failing, Start, Read,
                   ReadFails, AcquireFirst, AcquireDuplicate, AcquireFails, HandlerReturns,
                   HandlerRaises, Ack, AckFails, AckStates, Bury, BuryFails, BuryStates, Recover
            <4>2. QED BY <4>1 DEF Away, Crash, Goto, TypeOK
        <3>3. QED BY <3>1, <3>2
    <2>3. QED BY <2>1, <2>2 DEF Next, Publish, Expire
<1>9. QED BY <1>7, <1>8

\* What a command of the janitor does to the loops' variables.
LEMMA JanitorStep ==
    ASSUME JanitorInv, Janitor
    PROVE  /\ UNCHANGED <<top, body, evicted, delivered, taken, guardVars, loopVars, handled>>
           /\ owner' \in [Ids -> Consumers \cup {Nobody}]
           /\ \A i \in Ids : \/ owner'[i] = owner[i]
                             \/ /\ owner'[i] = Nobody
                                /\ i \in dlq \cup evicted \cup trimmed
                                      \/ <<i, owner[i]>> \in dropped'
           /\ dlq \subseteq dlq' /\ dlq' \subseteq Ids
           /\ stream' \subseteq stream /\ stream \subseteq stream' \cup trimmed'
           /\ trimmed \subseteq trimmed' /\ dropped \subseteq dropped'
<1> USE DEF streamVars, groupVars, guardVars, loopVars, vars, historyVars, JanitorInv, JTypeOK, TypeOK
<1>1. CASE \/ BeginPass \/ ListStale \/ ListGroups \/ OldestPending \/ ListIdle
           \/ EndPass \/ FailPass
    BY <1>1 DEF BeginPass, ListStale, ListGroups, OldestPending, ListIdle, EndPass, FailPass, ToRest
<1>2. CASE Trim
    <2>1. \A i \in Ids : i >= jcut \/ i < jcut
        BY ConstantsAssumption DEF Ids
    <2>2. /\ stream' \subseteq stream /\ stream \subseteq stream' \cup trimmed'
          /\ trimmed \subseteq trimmed'
        BY <1>2, <2>1 DEF Trim
    <2>3. QED BY <1>2, <2>2 DEF Trim
<1>3. ASSUME NEW i \in Ids, BuryAbandoned(i) PROVE dlq \subseteq dlq' /\ dlq' \subseteq Ids
    BY <1>3 DEF BuryAbandoned
<1>4. CASE \E i \in Ids : BuryAbandoned(i)
    BY <1>3, <1>4 DEF BuryAbandoned
<1>5. ASSUME NEW i \in Ids, AckAbandoned(i)
      PROVE  \A k \in Ids : \/ owner'[k] = owner[k]
                            \/ owner'[k] = Nobody /\ k \in dlq \cup evicted \cup trimmed
    BY <1>5 DEF AckAbandoned, BuryOK
<1>6. CASE \E i \in Ids : AckAbandoned(i)
    BY <1>5, <1>6 DEF AckAbandoned
<1>7. CASE \E c \in Consumers : Prune(c)
    BY <1>7 DEF Prune
<1>8. QED BY <1>1, <1>2, <1>4, <1>6, <1>7 DEF Janitor

-----------------------------------------------------------------------------
(* The invariant, part by part.  Every part but the first has a step for the *)
(* loops, which leave the janitor's variables alone, and one for the janitor *)

LEMMA JStepTypes ==
    ASSUME JanitorInv, [JNext]_jvars
    PROVE  JTypeOK' /\ PositionsOK' /\ OneWorkerPerEntry'
<1> USE DEF JanitorInv
<1>1. CASE [Next]_vars /\ UNCHANGED <<janitorVars, historyVars>>
    <2>1. TypeOK' /\ PositionsOK' /\ OneWorkerPerEntry'
        BY <1>1, StepPositions, StepWorkers DEF JTypeOK
    <2>2. QED BY <1>1, <2>1 DEF JTypeOK, janitorVars, historyVars
<1>2. CASE Janitor
    <2>1. TypeOK'
        BY <1>2, JanitorStep DEF JTypeOK, TypeOK, guardVars, loopVars
    <2>2. PositionsOK' /\ OneWorkerPerEntry'
        BY <1>2, JanitorStep
           DEF PositionsOK, OneWorkerPerEntry, Busy, guardVars, loopVars
    <2>3. /\ jpc' \in {"rest", "list", "bury", "ack", "pending", "trim", "consumers", "prune"}
          /\ jold' \in 0 .. MaxEntries /\ jgroup' \in BOOLEAN
          /\ jbury' \subseteq Ids /\ jprune' \subseteq Consumers
        <3>1. CASE BeginPass \/ ListStale \/ ListGroups
            <4>1. CASE BeginPass
                <5>1. 0 .. top \subseteq 0 .. MaxEntries
                    BY ConstantsAssumption DEF JTypeOK, TypeOK
                <5>2. QED BY <4>1, <5>1 DEF BeginPass, JTypeOK
            <4>2. CASE ListStale
                BY <4>2 DEF ListStale, Pending, JTypeOK
            <4>3. CASE ListGroups
                BY <4>3 DEF ListGroups, Grouped, JTypeOK
            <4>4. QED BY <3>1, <4>1, <4>2, <4>3
        <3>2. CASE OldestPending \/ Trim \/ ListIdle
            BY <3>2 DEF OldestPending, Trim, ListIdle, JTypeOK
        <3>3. CASE EndPass \/ FailPass
            <4>1. 0 \in 0 .. MaxEntries
                BY ConstantsAssumption
            <4>2. QED BY <3>3, <4>1 DEF EndPass, FailPass, ToRest
        <3>4. CASE \/ \E i \in Ids : BuryAbandoned(i) \/ AckAbandoned(i)
                   \/ \E c \in Consumers : Prune(c)
            BY <3>4 DEF BuryAbandoned, AckAbandoned, Prune, JTypeOK
        <3>5. QED BY <1>2, <3>1, <3>2, <3>3, <3>4 DEF Janitor
    <2>4. jcut' \in 0 .. MaxEntries + 1
        <3>1. CASE ListGroups
            BY <3>1, ConstantsAssumption DEF ListGroups, JTypeOK, TypeOK
        <3>2. CASE OldestPending
            BY <3>2, ConstantsAssumption DEF OldestPending, Pending, Ids, JTypeOK
        <3>3. CASE EndPass \/ FailPass
            BY <3>3, ConstantsAssumption DEF EndPass, FailPass, ToRest
        <3>4. QED BY <1>2, <3>1, <3>2, <3>3
                  DEF Janitor, BeginPass, ListStale, Trim, ListIdle, BuryAbandoned,
                      AckAbandoned, Prune, JTypeOK
    <2>5. trimmed' \subseteq Ids /\ dropped' \subseteq Ids \X Consumers
        BY <1>2 DEF Janitor, BeginPass, ListStale, ListGroups, OldestPending, Trim, ListIdle,
                    EndPass, FailPass, ToRest, BuryAbandoned, AckAbandoned, Prune, historyVars,
                    JTypeOK, TypeOK
    <2>6. QED BY <2>1, <2>2, <2>3, <2>4, <2>5 DEF JTypeOK
<1>3. QED BY <1>1, <1>2 DEF JNext, jvars

LEMMA JStepCutoff == ASSUME JanitorInv, [JNext]_jvars PROVE CutoffOK'
<1> USE DEF JanitorInv, CutoffOK, Pending
<1>0. /\ jcut \in Nat /\ delivered \in Nat /\ jold \in Nat
      /\ \A i \in Ids : i \in Nat
    BY ConstantsAssumption DEF JTypeOK, TypeOK, Ids
<1>1. CASE [Next]_vars /\ UNCHANGED <<janitorVars, historyVars>>
    <2>1. delivered <= delivered' /\ delivered' \in Nat
        BY <1>0, <1>1, LoopStep, StepPositions, ConstantsAssumption DEF JTypeOK, TypeOK
    <2>2. \A i \in Ids : owner'[i] # Nobody => owner[i] # Nobody \/ delivered < i
        BY <1>1, LoopStep DEF LoopMoves, JTypeOK
    <2>3. QED BY <1>0, <1>1, <2>1, <2>2 DEF janitorVars
<1>2. CASE Janitor
    <2>1. delivered' = delivered /\ \A i \in Ids : owner'[i] # Nobody => owner[i] # Nobody
        BY <1>2, JanitorStep
    <2>2. CASE ListGroups
        BY <1>0, <2>1, <2>2 DEF ListGroups
    <2>3. CASE OldestPending
        BY <1>0, <2>1, <2>3 DEF OldestPending, vars, groupVars
    <2>4. CASE ~ListGroups /\ ~OldestPending
        <3>1. jpc' \notin {"pending", "trim"}
            BY <1>2, <2>4 DEF Janitor, BeginPass, ListStale, Trim, ListIdle, EndPass, FailPass,
                              ToRest, BuryAbandoned, AckAbandoned, Prune
        <3>2. QED BY <3>1
    <2>5. QED BY <2>2, <2>3, <2>4
<1>3. QED BY <1>1, <1>2 DEF JNext, jvars

LEMMA JStepPrune == ASSUME JanitorInv, [JNext]_jvars PROVE PruneOK' /\ RemovedHeldNothing'
<1> USE DEF JanitorInv, PruneOK, RemovedHeldNothing
<1>1. CASE [Next]_vars /\ UNCHANGED <<janitorVars, historyVars>>
    <2> SUFFICES ASSUME NEW c \in jprune \ Stalling
                 PROVE  Away(c)' /\ \A i \in Ids : owner'[i] # c
        BY <1>1 DEF janitorVars, historyVars
    <2>1. c \in Consumers /\ Away(c) /\ \A i \in Ids : owner[i] # c
        BY DEF JTypeOK
    <2>2. Away(c)'
        BY <1>1, <2>1, LoopStep DEF JTypeOK
    <2>3. pc[c] # "poll"
        BY <2>1 DEF Away
    <2>4. \A i \in Ids : owner'[i] # c
        BY <1>1, <2>1, <2>3, LoopStep, ConstantsAssumption DEF LoopMoves, JTypeOK
    <2>5. QED BY <2>2, <2>4
<1>2. CASE Janitor
    <2>1. \A i \in Ids : owner'[i] \in {owner[i], Nobody}
        BY <1>2, JanitorStep
    <2>2. \A c \in Consumers : Away(c)' <=> Away(c)
        BY <1>2, JanitorStep DEF Away, loopVars
    <2>3. CASE ListIdle
        <3>1. \A c \in jprune' : c \in Consumers /\ MayBeIdle(c) /\ \A i \in Ids : owner[i] # c
            BY <2>3 DEF ListIdle
        <3>2. \A c \in jprune' \ Stalling : Away(c) /\ \A i \in Ids : owner'[i] # c
            BY <2>1, <3>1, ConstantsAssumption DEF MayBeIdle, Away
        <3>3. QED BY <2>2, <2>3, <3>1, <3>2 DEF ListIdle, historyVars
    <2>4. CASE ~ListIdle
        <3>1. jprune' \subseteq jprune
            BY <1>2, <2>4 DEF Janitor, BeginPass, ListStale, ListGroups, OldestPending, Trim,
                              EndPass, FailPass, ToRest, BuryAbandoned, AckAbandoned, Prune
        <3>2. \A d \in dropped' : d[2] \in Stalling
            <4>1. ASSUME NEW c \in Consumers, Prune(c) PROVE \A d \in dropped' : d[2] \in Stalling
                <5>1. c \in Stalling \/ {i \in Ids : owner[i] = c} = {}
                    BY <4>1 DEF Prune
                <5>2. QED BY <4>1, <5>1 DEF Prune
            <4>2. CASE UNCHANGED dropped
                BY <4>2
            <4>3. QED BY <1>2, <4>1, <4>2
                      DEF Janitor, BeginPass, ListStale, ListGroups, OldestPending, Trim, ListIdle,
                          EndPass, FailPass, ToRest, BuryAbandoned, AckAbandoned, historyVars
        <3>3. \A c \in jprune' \ Stalling : Away(c)' /\ \A i \in Ids : owner'[i] # c
            BY <2>1, <2>2, <3>1, ConstantsAssumption DEF JTypeOK
        <3>4. QED BY <3>2, <3>3
    <2>5. QED BY <2>3, <2>4
<1>3. QED BY <1>1, <1>2 DEF JNext, jvars

LEMMA JStepBury == ASSUME JanitorInv, [JNext]_jvars PROVE BuryOK'
<1> USE DEF JanitorInv
<1>1. CASE [Next]_vars /\ UNCHANGED <<janitorVars, historyVars>>
    <2> USE <1>1 DEF janitorVars, historyVars, JTypeOK
    <2>1. \A i \in Ids : owner'[i] # Nobody => i \in stream' \cup evicted' \cup trimmed'
        BY LoopStep, HistoryGrows DEF BuryOK, LoopMoves
    <2>2. taken \subseteq taken'
        BY DEF Next, Consume, Answered, Failing, Publish, Expire, Start, Read, ReadFails, Deliver,
               AcquireFirst, AcquireDuplicate, AcquireFails, HandlerReturns, HandlerRaises, Ack,
               AckFails, Settle, Bury, BuryFails, Recover, Crash, vars, groupVars
    <2>3. \A i \in jbury : owner'[i] # Nobody => owner[i] # Nobody
        BY LoopStep DEF BuryOK, LoopMoves
    <2>4. QED BY <2>1, <2>2, <2>3, HistoryGrows DEF BuryOK
<1>2. CASE Janitor
    <2>1. \A i \in Ids : owner'[i] # Nobody => i \in stream' \cup evicted' \cup trimmed'
        BY <1>2, JanitorStep DEF BuryOK
    <2>2. jbury' \subseteq taken'
        <3>1. jbury' \subseteq jbury \cup Pending
            BY <1>2 DEF Janitor, BeginPass, ListStale, ListGroups, OldestPending, Trim, ListIdle,
                        EndPass, FailPass, ToRest, BuryAbandoned, AckAbandoned, Prune
        <3>2. Pending \subseteq taken
            BY DEF Pending, PositionsOK
        <3>3. QED BY <1>2, <3>1, <3>2, JanitorStep DEF BuryOK
    <2>3. ASSUME jpc' = "ack", NEW k \in jbury', \A j \in jbury' : k <= j, owner'[k] # Nobody
          PROVE  k \in dlq' \cup evicted' \cup trimmed'
        <3>1. PICK i \in Ids : BuryAbandoned(i)
            BY <1>2, <2>3 DEF Janitor, BeginPass, ListStale, ListGroups, OldestPending, Trim,
                              ListIdle, EndPass, FailPass, ToRest, AckAbandoned, Prune
        <3>2. i = k
            BY <2>3, <3>1, ConstantsAssumption DEF BuryAbandoned, JTypeOK, Ids
        <3>3. owner[k] # Nobody /\ k \in Ids
            BY <1>2, <2>3, <3>1, <3>2, JanitorStep
        <3>4. QED BY <3>1, <3>2, <3>3, <1>2, JanitorStep DEF BuryAbandoned, BuryOK
    <2>4. QED BY <2>1, <2>2, <2>3 DEF BuryOK
<1>3. QED BY <1>1, <1>2 DEF JNext, jvars

\* What is traced stays so, but for an entry whose own consumer acks it.
LEMMA TracesStay ==
    ASSUME JanitorInv, [JNext]_jvars, NEW i \in taken, Traced(i)
    PROVE  \/ Traced(i)'
           \/ /\ owner'[i] = Nobody /\ acquired' = acquired
              /\ \E c \in Consumers : pc[c] \in AckStates /\ cur[c] = i
<1> USE DEF JanitorInv
<1>0. i \in Ids
    BY DEF JTypeOK, TypeOK
<1>1. CASE [Next]_vars /\ UNCHANGED <<janitorVars, historyVars>>
    <2>1. CASE owner[i] # Nobody
        <3>1. \/ owner'[i] = owner[i]
              \/ /\ owner'[i] = Nobody /\ acquired' = acquired
                 /\ \E c \in Consumers : pc[c] \in AckStates /\ cur[c] = i
            BY <1>0, <1>1, LoopStep DEF LoopMoves, JTypeOK
        <3>2. QED BY <2>1, <3>1 DEF Traced, Accounted
    <2>2. CASE owner[i] = Nobody
        BY <1>1, <2>2, HistoryGrows DEF Traced, Accounted, historyVars, JTypeOK
    <2>3. QED BY <2>1, <2>2
<1>2. CASE Janitor
    <2>1. CASE owner[i] # Nobody /\ owner'[i] # owner[i]
        <3>1. owner[i] \in Consumers
            BY <1>0, <2>1 DEF JTypeOK, TypeOK
        <3>2. QED BY <1>0, <1>2, <2>1, <3>1, JanitorStep DEF Traced, Accounted
    <2>2. CASE owner[i] # Nobody /\ owner'[i] = owner[i]
        BY <2>2 DEF Traced, Accounted
    <2>3. CASE owner[i] = Nobody
        BY <1>2, <2>3, JanitorStep DEF Traced, Accounted, guardVars
    <2>4. QED BY <2>1, <2>2, <2>3
<1>3. QED BY <1>1, <1>2 DEF JNext, jvars

\* Nor is a duplicate forgotten.
LEMMA JDuplicatesStay ==
    ASSUME JanitorInv, [JNext]_jvars, NEW i \in taken, NEW j \in Ids, TookKeyFrom(j, i)
    PROVE  TookKeyFrom(j, i)'
<1> USE DEF JanitorInv
<1>1. CASE [Next]_vars
    BY <1>1, DuplicatesStay DEF JTypeOK
<1>2. CASE Janitor
    BY <1>2, JanitorStep DEF TookKeyFrom, guardVars
<1>3. QED BY <1>1, <1>2 DEF JNext, jvars

\* A step that is not of d leaves what d knows of its entry.
LEMMA JPlaceStays ==
    ASSUME JanitorInv, [JNext]_jvars, NEW d \in Consumers,
           pc'[d] = pc[d], cur'[d] = cur[d],
           Busy(d) /\ cur[d] \notin acquired => cur[d] \notin acquired',
           blind \subseteq blind', handled \subseteq handled', dlq \subseteq dlq'
    PROVE  PlaceOKJ(d)'
<1> USE DEF JanitorInv
<1>1. PlaceOKJ(d)
    BY DEF LoopOKJ
<1>2. CASE ~Busy(d)
    BY <1>2 DEF PlaceOKJ, Busy, BusyStates
<1>3. CASE Busy(d)
    <2>1. cur[d] \in taken
        BY <1>3 DEF PositionsOK
    <2>2. \A j \in Ids : TookKeyFrom(j, cur[d]) => TookKeyFrom(j, cur[d])'
        BY <2>1, JDuplicatesStay DEF TookKeyFrom
    <2>3. pc[d] = "got" /\ Traced(cur[d]) => Traced(cur[d])'
        <3> SUFFICES ASSUME pc[d] = "got", Traced(cur[d]) PROVE Traced(cur[d])'
            OBVIOUS
        <3>1. \A c \in Consumers : pc[c] \in AckStates => cur[c] # cur[d]
            BY <1>3 DEF OneWorkerPerEntry, Busy, BusyStates, AckStates
        <3>2. PICK i \in taken : i = cur[d]
            BY <2>1
        <3>3. Traced(i)'
            BY <3>1, <3>2, TracesStay
        <3>4. QED BY <3>2, <3>3 DEF Traced, Accounted
    <2>4. QED BY <1>1, <1>3, <2>2, <2>3 DEF PlaceOKJ
<1>4. QED BY <1>2, <1>3

LEMMA JStepLoop == ASSUME JanitorInv, [JNext]_jvars PROVE LoopOKJ'
<1> SUFFICES ASSUME NEW d \in Consumers PROVE PlaceOKJ(d)'
    BY DEF LoopOKJ
<1> USE DEF JanitorInv
<1>0. PlaceOKJ(d) /\ TypeOK
    BY DEF LoopOKJ, JTypeOK
<1>1. CASE Janitor
    BY <1>1, JanitorStep, JPlaceStays DEF guardVars, loopVars
<1>2. CASE UNCHANGED <<loopVars, acquired>> /\ [Next]_vars
    BY <1>0, <1>2, HistoryGrows, JPlaceStays DEF loopVars
<1>3. ASSUME NEW c \in Consumers, Consume(c), c # d PROVE PlaceOKJ(d)'
    <2>1. [Next]_vars
        BY <1>3 DEF Next
    <2>2. pc'[d] = pc[d] /\ cur'[d] = cur[d]
        BY <1>0, <1>3, OthersKeepTheirPlace
    <2>3. Busy(d) /\ cur[d] \notin acquired => cur[d] \notin acquired'
        BY <1>3 DEF OneWorkerPerEntry, Consume, Answered, Failing, Start, Read, ReadFails,
            AcquireFirst, AcquireDuplicate, AcquireFails, HandlerReturns, HandlerRaises, Ack,
            AckFails, Bury, BuryFails, Recover, Crash, guardVars, Busy, BusyStates
    <2>4. QED BY <1>0, <2>1, <2>2, <2>3, HistoryGrows, JPlaceStays
<1>4. CASE Consume(d)
    <2> USE DEF Goto, IdleStates
    <2>1. CASE \/ Start(d) \/ ReadFails(d) \/ AcquireFirst(d) \/ HandlerRaises(d)
               \/ BuryFails(d) \/ Ack(d) \/ Recover(d) \/ Crash(d)
        <3>1. pc'[d] \in {"poll", "fallen", "run", "reject", "down"}
            BY <1>0, <2>1 DEF Start, ReadFails, AcquireFirst, HandlerRaises, BuryFails,
                        Ack, Recover, Crash, TypeOK
        <3>2. QED BY <3>1 DEF PlaceOKJ
    <2>2. CASE AckFails(d)
        <3>1. pc'[d] \in {"poll", "fallen", "reject"}
            BY <1>0, <2>2 DEF AckFails, AckStates, AfterAckError, TypeOK
        <3>2. QED BY <3>1 DEF PlaceOKJ
    <2>3. CASE Read(d)
        <3>1. PICK n \in Unread : /\ Deliver(n, d)
                                  /\ cur'[d] = n
                                  /\ pc'[d] \in {"got", "poison"}
            BY <1>0, <2>3 DEF Read, TypeOK
        <3>2. n \notin acquired /\ acquired' = acquired
            BY <1>0, <2>3, ConstantsAssumption
               DEF Read, Unread, PositionsOK, TypeOK, Ids, guardVars
        <3>3. owner'[n] # Nobody
            BY <1>0, <3>1, ConstantsAssumption DEF Deliver, Unread, TypeOK
        <3>4. QED BY <3>1, <3>2, <3>3 DEF PlaceOKJ, Traced, Accounted
    <2>4. CASE AcquireDuplicate(d)
        <3>1. cur[d] \notin acquired
            BY <1>0, <2>4 DEF AcquireDuplicate, PlaceOKJ
        <3>2. PICK j \in acquired : body[j] = body[cur[d]]
            BY <2>4 DEF AcquireDuplicate, KeysOKJ
        <3>3. j \in Ids /\ TookKeyFrom(j, cur[d])
            BY <1>0, <3>1, <3>2 DEF TookKeyFrom, TypeOK
        <3>4. pc'[d] = "skip" /\ UNCHANGED <<cur[d], acquired, body>>
            BY <1>0, <2>4 DEF AcquireDuplicate, TypeOK, streamVars, guardVars
        <3>5. QED BY <3>1, <3>3, <3>4 DEF PlaceOKJ, TookKeyFrom
    <2>5. CASE AcquireFails(d)
        BY <1>0, <2>5 DEF AcquireFails, PlaceOKJ, TypeOK
    <2>6. CASE HandlerReturns(d)
        BY <1>0, <2>6 DEF HandlerReturns, PlaceOKJ, TypeOK
    <2>7. CASE Bury(d)
        BY <1>0, <2>7 DEF Bury, BuryStates, AfterBury, PlaceOKJ, TypeOK
    <2>8. QED BY <1>4, <2>1, <2>2, <2>3, <2>4, <2>5, <2>6, <2>7
              DEF Consume, Answered, Failing
<1>5. CASE [Next]_vars
    BY <1>2, <1>3, <1>4, <1>5 DEF Next, Publish, Expire, vars, guardVars
<1>6. QED BY <1>1, <1>5 DEF JNext, jvars

\* An entry leaves the pending list by the ack of its consumer, which knows what
\* became of it, or with a trace of the janitor's.
LEMMA JStepKeys == ASSUME JanitorInv, [JNext]_jvars PROVE KeysOKJ'
<1> USE DEF JanitorInv
<1>0. TypeOK
    BY DEF JTypeOK
<1>1. \A m \in seen' : \E j \in acquired' : body'[j] = m
    <2>1. CASE [Next]_vars
        BY <1>0, <2>1, StepSeen DEF KeysOKJ
    <2>2. CASE Janitor
        BY <2>2, JanitorStep DEF KeysOKJ, guardVars
    <2>3. QED BY <2>1, <2>2 DEF JNext, jvars
<1>2. ASSUME DlqEnabled, NEW i \in taken'
      PROVE  \/ Traced(i)'
             \/ i \notin acquired' /\ \E j \in Ids : TookKeyFrom(j, i)'
    <2>1. CASE i \notin taken
        <3>1. [Next]_vars
            BY <2>1, JanitorStep DEF JNext, jvars
        <3>2. PICK n \in Unread, c \in Consumers : Deliver(n, c)
            BY <2>1, <3>1 DEF Next, Consume, Answered, Failing, Publish, Expire,
                Start, Read, ReadFails, AcquireFirst, AcquireDuplicate,
                AcquireFails, HandlerReturns, HandlerRaises, Ack, AckFails,
                Settle, Bury, BuryFails, Recover, Crash, vars, groupVars
        <3>3. owner'[i] # Nobody
            BY <1>0, <2>1, <3>2, ConstantsAssumption DEF Deliver, Unread, TypeOK
        <3>4. QED BY <3>3 DEF Traced, Accounted
    <2>2. ASSUME i \in taken, acquired' = acquired,
                 NEW c \in Consumers, pc[c] \in AckStates, cur[c] = i
          PROVE  \/ Traced(i)'
                 \/ i \notin acquired' /\ \E j \in Ids : TookKeyFrom(j, i)'
        <3>1. \/ i \in handled \cup blind \cup dlq
              \/ i \notin acquired /\ \E j \in Ids : TookKeyFrom(j, i)
            BY <1>2, <2>2 DEF LoopOKJ, PlaceOKJ, AckStates
        <3>2. handled \subseteq handled' /\ blind \subseteq blind' /\ dlq \subseteq dlq'
            BY <1>0, HistoryGrows, JanitorStep DEF JNext, jvars, guardVars
        <3>3. QED BY <2>2, <3>1, <3>2, JDuplicatesStay DEF Traced, Accounted
    <2>3. CASE i \in taken /\ Traced(i)
        BY <2>2, <2>3, TracesStay
    <2>4. ASSUME i \in taken, i \notin acquired, NEW j \in Ids, TookKeyFrom(j, i)
          PROVE  \/ Traced(i)'
                 \/ i \notin acquired' /\ TookKeyFrom(j, i)'
        <3>1. CASE i \notin acquired'
            BY <2>4, <3>1, JDuplicatesStay
        <3>2. CASE i \in acquired'
            <4>1. [Next]_vars
                BY <2>4, <3>2, JanitorStep DEF JNext, jvars, guardVars
            <4>2. PICK c \in Consumers : pc[c] = "got" /\ cur[c] = i
                BY <2>4, <3>2, <4>1 DEF Next, Consume, Answered, Failing, Publish,
                    Expire, Start, Read, ReadFails, AcquireFirst,
                    AcquireDuplicate, AcquireFails, HandlerReturns,
                    HandlerRaises, Ack, AckFails, Bury, BuryFails, Recover,
                    Crash, vars, guardVars
            <4>3. Traced(i)
                BY <1>2, <4>2 DEF LoopOKJ, PlaceOKJ
            <4>4. acquired' # acquired
                BY <2>4, <3>2
            <4>5. QED BY <2>4, <4>3, <4>4, TracesStay
        <3>3. QED BY <3>1, <3>2
    <2>5. QED BY <1>2, <2>1, <2>3, <2>4 DEF KeysOKJ
<1>3. QED BY <1>1, <1>2 DEF KeysOKJ

-----------------------------------------------------------------------------
LEMMA InitJanitor == JInit => JanitorInv
<1> SUFFICES ASSUME JInit PROVE JanitorInv
    OBVIOUS
<1>1. TypeOK /\ PositionsOK
    BY InitPositions DEF JInit
<1>2. JTypeOK
    <2>1. 0 \in 0 .. MaxEntries /\ 0 \in 0 .. MaxEntries + 1
        BY ConstantsAssumption
    <2>2. QED BY <1>1, <2>1 DEF JInit, JTypeOK
<1>3. OneWorkerPerEntry /\ LoopOKJ
    BY DEF JInit, Init, OneWorkerPerEntry, LoopOKJ, PlaceOKJ, Busy, BusyStates
<1>4. CutoffOK /\ PruneOK /\ RemovedHeldNothing /\ BuryOK /\ KeysOKJ
    BY DEF JInit, Init, CutoffOK, PruneOK, RemovedHeldNothing, BuryOK, KeysOKJ
<1>5. QED BY <1>1, <1>2, <1>3, <1>4 DEF JanitorInv

LEMMA StepJanitor == JanitorInv /\ [JNext]_jvars => JanitorInv'
BY JStepTypes, JStepCutoff, JStepPrune, JStepBury, JStepLoop, JStepKeys DEF JanitorInv

\* The invariant of the loops and the janitor together.
THEOREM JanitorInvariant == JSpec => []JanitorInv
BY InitJanitor, StepJanitor, PTL DEF JSpec

\* The janitor's answers, kept between its commands, stay well typed.
THEOREM JanitorTypes == JSpec => []JTypeOK
<1>1. JanitorInv => JTypeOK
    BY DEF JanitorInv
<1>2. QED BY <1>1, JanitorInvariant, PTL

\* The cut-off computed from XINFO GROUPS and XPENDING is safe when XTRIM is
\* sent, however far the loops have read and acked since.
THEOREM TrimmingIsSafe == JSpec => []CutoffIsSafe
<1>1. JanitorInv => CutoffIsSafe
    <2> SUFFICES ASSUME JanitorInv, jpc = "trim", jgroup, NEW i \in Unread \cup Pending
                 PROVE  jcut <= i
        BY DEF CutoffIsSafe
    <2> USE DEF JanitorInv
    <2>1. CASE i \in Pending
        BY <2>1 DEF CutoffOK
    <2>2. CASE i \in Unread
        <3>1. i \in Nat /\ delivered \in Nat /\ jcut \in Nat /\ delivered < i
            BY <2>2, ConstantsAssumption DEF Unread, JTypeOK, TypeOK, Ids
        <3>2. jcut <= delivered + 1
            BY DEF CutoffOK
        <3>3. QED BY <3>1, <3>2
    <2>3. QED BY <2>1, <2>2
<1>2. QED BY <1>1, JanitorInvariant, PTL

\* Only the name of a process that may stall is removed with entries in hand.
THEOREM RemovalsAreSafe == JSpec => []RemovedHeldNothing
<1>1. JanitorInv => RemovedHeldNothing
    BY DEF JanitorInv
<1>2. QED BY <1>1, JanitorInvariant, PTL

\* With the janitor acking, trimming and removing beside the loops, an entry
\* still leaves the group only with a trace.
THEOREM NothingLostBesideJanitor == JSpec => []NoSilentLossJ
<1>1. JanitorInv => NoSilentLossJ
    <2> SUFFICES ASSUME JanitorInv, DlqEnabled, NEW i \in taken
                 PROVE  Traced(i) \/ \E j \in Ids : TookKeyFrom(j, i) /\ Traced(j)
        BY DEF NoSilentLossJ, Traced
    <2> USE DEF JanitorInv
    <2>1. CASE Traced(i)
        BY <2>1
    <2>2. ASSUME NEW j \in Ids, TookKeyFrom(j, i) PROVE Traced(j)
        BY <2>2 DEF KeysOKJ, TookKeyFrom, PositionsOK
    <2>3. QED BY <2>1, <2>2 DEF KeysOKJ
<1>2. QED BY <1>1, JanitorInvariant, PTL
================================================================================
