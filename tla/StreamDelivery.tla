---------------------------- MODULE StreamDelivery ----------------------------
(***************************************************************************)
(* One Redis stream of the VanessaAI broker, its consumer group and the    *)
(* delivery loop every process runs on it (infrastructure/broker:          *)
(* backends.py, redis_consumer.py, redis_entries.py, redis_dedup.py).      *)
(*                                                                         *)
(* A stream entry is its position in the stream (1, 2, ...).  A message is *)
(* a logical message, named by its message_id; the same message may be     *)
(* appended more than once.  A consumer is a consumer NAME: every process  *)
(* start takes a new one, so a restarted process is another consumer.      *)
(*                                                                         *)
(* Every await on Redis is a step of its own, and it can end in three      *)
(* ways: the command is applied and answered, it is applied and the answer *)
(* is lost, or it is not applied.  In the last two the caller sees an      *)
(* exception.                                                              *)
(***************************************************************************)
EXTENDS Naturals, FiniteSets

CONSTANTS Messages,      \* message_ids
          Undecodable,   \* the messages decode() raises on
          Consumers,     \* consumer names, one per process start
          NoMessage,     \* the body of a position nothing was appended at
          Nobody,        \* the owner of an entry that is not pending
          MaxEntries,    \* bound: entries ever appended
          MaxExpiries,   \* bound: times one dedup key expires
          MaxLen,        \* stream_maxlen: XADD trims no further than this
          DeleteOnAck,   \* the stream is one of delete_on_ack
          DlqEnabled,    \* broker_dlq_enabled
          LoopRestarts   \* the process restarts a consume loop that raised

ASSUME ConstantsAssumption ==
    /\ Undecodable \subseteq Messages
    /\ NoMessage \notin Messages
    /\ Nobody \notin Consumers
    /\ MaxEntries \in Nat
    /\ MaxExpiries \in Nat
    /\ MaxLen \in Nat
    /\ DeleteOnAck \in BOOLEAN
    /\ DlqEnabled \in BOOLEAN
    /\ LoopRestarts \in BOOLEAN

VARIABLES
    top,         \* the last position appended at
    body,        \* the message of each position
    stream,      \* the positions still in the stream
    delivered,   \* the group's last-delivered-id
    owner,       \* the group's pending entries: which consumer holds each
    seen,        \* the live dedup keys
    dlq,         \* the positions that have a copy in <stream>:dlq
    pc,          \* where each consumer's loop is
    cur,         \* the entry each consumer is working on, 0 for none
    \* History, read by no action: what happened to each entry.
    evicted,     \* trimmed by the MAXLEN of an XADD
    taken,       \* XREADGROUP delivered it
    acquired,    \* its dedup acquisition set the key
    blind,       \* its dedup acquisition raised
    handled,     \* its handler returned
    runs,        \* how often the handler was called for a message
    windows      \* how often the dedup key of a message expired

streamVars == <<top, body, stream, evicted>>
groupVars  == <<delivered, owner, taken>>
guardVars  == <<seen, acquired, blind, runs, windows>>
loopVars   == <<pc, cur>>
vars == <<streamVars, groupVars, guardVars, loopVars, dlq, handled>>

Ids  == 1 .. MaxEntries
None == 0

\* Idle consumers hold no entry: not started, polling, after an exception
\* left consume_forever, dead.  Busy ones are between a read and its end.
IdleStates == {"new", "poll", "fallen", "down"}
BusyStates == {"got", "run", "ack", "skip", "reject", "rejectAck",
               "poison", "poisonAck"}

TypeOK ==
    /\ top \in 0 .. MaxEntries
    /\ body \in [Ids -> Messages \cup {NoMessage}]
    /\ stream \subseteq Ids
    /\ delivered \in 0 .. MaxEntries
    /\ owner \in [Ids -> Consumers \cup {Nobody}]
    /\ seen \subseteq Messages
    /\ dlq \subseteq Ids
    /\ pc \in [Consumers -> IdleStates \cup BusyStates]
    /\ cur \in [Consumers -> Ids \cup {None}]
    /\ evicted \subseteq Ids
    /\ taken \subseteq Ids
    /\ acquired \subseteq Ids
    /\ blind \subseteq Ids
    /\ handled \subseteq Ids
    /\ runs \in [Messages -> Nat]
    /\ windows \in [Messages -> 0 .. MaxExpiries]

Init ==
    /\ top = 0
    /\ body = [i \in Ids |-> NoMessage]
    /\ stream = {}
    /\ delivered = 0
    /\ owner = [i \in Ids |-> Nobody]
    /\ seen = {}
    /\ dlq = {}
    /\ pc = [c \in Consumers |-> "new"]
    /\ cur = [c \in Consumers |-> None]
    /\ evicted = {}
    /\ taken = {}
    /\ acquired = {}
    /\ blind = {}
    /\ handled = {}
    /\ runs = [m \in Messages |-> 0]
    /\ windows = [m \in Messages |-> 0]

-----------------------------------------------------------------------------
(* Producers *)

\* XADD ... MAXLEN ~ drops the oldest entries, never below MaxLen, and may
\* drop fewer or none.
XaddTrims(S) ==
    {T \in {{i \in S : i > cut} : cut \in 0 .. MaxEntries} :
        T = S \/ Cardinality(T) >= MaxLen}

\* A producer appends m, perhaps not for the first time: a relay or a
\* scheduler that crashed after its XADD appends the same message again.
Publish(m) ==
    /\ top < MaxEntries
    /\ top' = top + 1
    /\ body' = [body EXCEPT ![top + 1] = m]
    /\ \E kept \in XaddTrims(stream \cup {top + 1}) :
          /\ stream' = kept
          /\ evicted' = evicted \cup ((stream \cup {top + 1}) \ kept)
    /\ UNCHANGED <<groupVars, guardVars, loopVars, dlq, handled>>

-----------------------------------------------------------------------------
(* The consumer group *)

\* Mutant: reads pending entries of the group again.
UnreadOrPending == {i \in stream : i > delivered \/ owner[i] # Nobody}

Unread == {i \in stream : i > delivered}

\* Moves consumer c to state s, dropping its entry when s is an idle state.
Goto(c, s) ==
    /\ pc' = [pc EXCEPT ![c] = s]
    /\ cur' = [cur EXCEPT ![c] = IF s \in IdleStates THEN None ELSE @]

\* A process starts with a fresh name; ensure_group (id "0") finds or makes
\* the group, so a group that is not there yet has delivered nothing.
Start(c) ==
    /\ pc[c] = "new"
    /\ Goto(c, "poll")
    /\ UNCHANGED <<streamVars, groupVars, guardVars, dlq, handled>>

\* Mutant: the group moves one entry too far.
DeliverTooFar(n, c) ==
    /\ n \in Unread
    /\ \A i \in Unread : n <= i
    /\ delivered' = n + 1
    /\ owner' = [owner EXCEPT ![n] = c]
    /\ taken' = taken \cup {n}

\* XREADGROUP ">" applied by Redis: the oldest undelivered entry becomes
\* pending for c.
Deliver(n, c) ==
    /\ n \in Unread
    /\ \A i \in Unread : n <= i
    /\ delivered' = n
    /\ owner' = [owner EXCEPT ![n] = c]
    /\ taken' = taken \cup {n}

\* The read is answered: an entry that decodes goes to dedup, one that does
\* not is poison.  (An empty answer is followed by a sleep and a new read.)
Read(c) ==
    /\ pc[c] = "poll"
    /\ \E n \in Unread :
          /\ Deliver(n, c)
          /\ cur' = [cur EXCEPT ![c] = n]
          /\ pc' = [pc EXCEPT ![c] =
                       IF body[n] \in Undecodable THEN "poison" ELSE "got"]
    /\ UNCHANGED <<streamVars, guardVars, dlq, handled>>

\* The read raises, and consume_forever with it.  If Redis had applied it,
\* the entry is pending for a consumer that never saw it.
ReadFails(c) ==
    /\ pc[c] = "poll"
    /\ \/ \E n \in Unread : Deliver(n, c)
       \/ UNCHANGED groupVars
    /\ Goto(c, "fallen")
    /\ UNCHANGED <<streamVars, guardVars, dlq, handled>>

-----------------------------------------------------------------------------
(* Dedup and the handler *)

\* SET NX succeeds: first delivery of the message, the handler is called.
AcquireFirst(c) ==
    /\ pc[c] = "got"
    /\ body[cur[c]] \notin seen
    /\ seen' = seen \cup {body[cur[c]]}
    /\ acquired' = acquired \cup {cur[c]}
    /\ runs' = [runs EXCEPT ![body[cur[c]]] = @ + 1]
    /\ Goto(c, "run")
    /\ UNCHANGED <<streamVars, groupVars, blind, windows, dlq, handled>>

\* SET NX finds the key: the handler is skipped.
AcquireDuplicate(c) ==
    /\ pc[c] = "got"
    /\ body[cur[c]] \in seen
    /\ Goto(c, "skip")
    /\ UNCHANGED <<streamVars, groupVars, guardVars, dlq, handled>>

\* Mutant: fails open, the handler runs when the lookup raises.
AcquireFailsOpen(c) ==
    /\ pc[c] = "got"
    /\ runs' = [runs EXCEPT ![body[cur[c]]] = @ + 1]
    /\ Goto(c, "run")
    /\ UNCHANGED <<streamVars, groupVars, seen, acquired, blind, windows,
                   dlq, handled>>

\* The lookup raises, whether or not Redis applied it: _already_handled
\* answers True and the handler is skipped as for a duplicate.
AcquireFails(c) ==
    /\ pc[c] = "got"
    /\ \/ /\ body[cur[c]] \notin seen
          /\ seen' = seen \cup {body[cur[c]]}
          /\ acquired' = acquired \cup {cur[c]}
       \/ UNCHANGED <<seen, acquired>>
    /\ blind' = blind \cup {cur[c]}
    /\ Goto(c, "skip")
    /\ UNCHANGED <<streamVars, groupVars, runs, windows, dlq, handled>>

HandlerReturns(c) ==
    /\ pc[c] = "run"
    /\ handled' = handled \cup {cur[c]}
    /\ Goto(c, "ack")
    /\ UNCHANGED <<streamVars, groupVars, guardVars, dlq>>

\* Mutant: the exception of a handler is swallowed and the entry acked.
HandlerRaisesUnseen(c) ==
    /\ pc[c] = "run"
    /\ Goto(c, "ack")
    /\ UNCHANGED <<streamVars, groupVars, guardVars, dlq, handled>>

HandlerRaises(c) ==
    /\ pc[c] = "run"
    /\ Goto(c, "reject")
    /\ UNCHANGED <<streamVars, groupVars, guardVars, dlq, handled>>

-----------------------------------------------------------------------------
(* Ack, reject, poison *)

\* XACK, in one transaction with XDEL on a delete_on_ack stream.
Settle(i) ==
    /\ owner' = [owner EXCEPT ![i] = Nobody]
    /\ stream' = IF DeleteOnAck THEN stream \ {i} ELSE stream
    /\ UNCHANGED <<top, body, evicted, delivered, taken>>

AckStates == {"ack", "skip", "rejectAck", "poisonAck"}

\* What an ack that raises leads to, by the ack it is: _run_handler rejects,
\* _reject_delivery swallows the error, nothing catches the other two.
AfterAckError ==
    [s \in AckStates |-> IF s = "ack" THEN "reject"
                         ELSE IF s = "rejectAck" THEN "poll" ELSE "fallen"]

Ack(c) ==
    /\ pc[c] \in AckStates
    /\ Settle(cur[c])
    /\ Goto(c, "poll")
    /\ UNCHANGED <<guardVars, dlq, handled>>

AckFails(c) ==
    /\ pc[c] \in AckStates
    /\ \/ Settle(cur[c])
       \/ UNCHANGED <<streamVars, groupVars>>
    /\ Goto(c, AfterAckError[pc[c]])
    /\ UNCHANGED <<guardVars, dlq, handled>>

\* The DLQ copy comes before the ack, in reject and in _dlq_raw alike;
\* without a DLQ only the ack is left.
BuryStates == {"reject", "poison"}

AfterBury == [s \in BuryStates |-> IF s = "reject" THEN "rejectAck" ELSE "poisonAck"]

Bury(c) ==
    /\ pc[c] \in BuryStates
    /\ dlq' = IF DlqEnabled THEN dlq \cup {cur[c]} ELSE dlq
    /\ Goto(c, AfterBury[pc[c]])
    /\ UNCHANGED <<streamVars, groupVars, guardVars, handled>>

\* Mutant: acks although the DLQ copy failed.
BuryFailsButAcks(c) ==
    /\ DlqEnabled
    /\ pc[c] \in BuryStates
    /\ Goto(c, AfterBury[pc[c]])
    /\ UNCHANGED <<streamVars, groupVars, guardVars, dlq, handled>>

\* The XADD to the DLQ raises: a reject gives up and the entry stays pending,
\* a poison entry takes the loop down.
BuryFails(c) ==
    /\ DlqEnabled
    /\ pc[c] \in BuryStates
    /\ dlq' \in {dlq, dlq \cup {cur[c]}}
    /\ Goto(c, IF pc[c] = "reject" THEN "poll" ELSE "fallen")
    /\ UNCHANGED <<streamVars, groupVars, guardVars, handled>>

-----------------------------------------------------------------------------
(* Process and time *)

\* run_outbound_loop starts consume_forever again under the same name; the
\* agent's task set does not.
Recover(c) ==
    /\ LoopRestarts
    /\ pc[c] = "fallen"
    /\ Goto(c, "poll")
    /\ UNCHANGED <<streamVars, groupVars, guardVars, dlq, handled>>

\* The process dies or is cancelled; its name is never used again.
Crash(c) ==
    /\ pc[c] \notin {"new", "down"}
    /\ Goto(c, "down")
    /\ UNCHANGED <<streamVars, groupVars, guardVars, dlq, handled>>

\* The EX of a dedup key runs out.
Expire(m) ==
    /\ m \in seen
    /\ windows[m] < MaxExpiries
    /\ seen' = seen \ {m}
    /\ windows' = [windows EXCEPT ![m] = @ + 1]
    /\ UNCHANGED <<streamVars, groupVars, loopVars, acquired, blind, runs,
                   dlq, handled>>

Answered(c) ==
    \/ Read(c) \/ AcquireFirst(c) \/ AcquireDuplicate(c)
    \/ HandlerReturns(c) \/ HandlerRaises(c)
    \/ Bury(c) \/ Ack(c) \/ Recover(c)

Failing(c) ==
    \/ ReadFails(c) \/ AcquireFails(c) \/ BuryFails(c) \/ AckFails(c)
    \/ Crash(c)

Consume(c) == Start(c) \/ Answered(c) \/ Failing(c)

Next ==
    \/ \E m \in Messages : Publish(m) \/ Expire(m)
    \/ \E c \in Consumers : Consume(c)

Spec == Init /\ [][Next]_vars

-----------------------------------------------------------------------------
(* Properties *)

Busy(c) == pc[c] \in BusyStates

\* An entry is accounted for while it is pending, and once its handler
\* returned, the DLQ has it, XADD trimmed it or its dedup lookup raised.
Accounted(i) ==
    \/ owner[i] # Nobody
    \/ i \in handled \cup dlq \cup evicted \cup blind

TookKeyFrom(j, i) == j # i /\ j \in acquired /\ body[j] = body[i]

\* Whatever fails, whoever dies and however often a message is appended, no
\* entry leaves the group (ack of a skip, of a reject, of poison, of a handled
\* entry) without a trace: each entry that was read is accounted for, or was
\* skipped for another entry of the same message that is.
NoSilentLoss ==
    DlqEnabled =>
        \A i \in taken :
            Accounted(i) \/ \E j \in Ids : TookKeyFrom(j, i) /\ Accounted(j)

\* Across processes, duplicates of a message and crashes, the handler runs at
\* most once per window of the message's dedup key.
OneRunPerWindow ==
    \A m \in Messages :
        runs[m] <= windows[m] + (IF m \in seen THEN 1 ELSE 0)

\* Two live consumers of the group never work on the same entry: nothing in
\* this code claims or re-reads a pending one.
OneWorkerPerEntry ==
    \A c, d \in Consumers : Busy(c) /\ Busy(d) /\ cur[c] = cur[d] => c = d

\* Whoever still owes an entry its handler or its DLQ copy finds the payload:
\* ack deletes an entry of a delete_on_ack stream only as it leaves the group,
\* so a pending entry is in the stream unless an XADD trimmed it.
PendingKeepsPayload ==
    \A i \in Ids : owner[i] # Nobody => i \in stream \cup evicted

\* What the broker documents of its groups (redis_streams.py: "At-least-once
\* via consumer groups"): an entry that left the group was handled, or is in
\* the DLQ, or is a duplicate of an entry that was or still is to be.
AtLeastOnce ==
    \A i \in taken :
        \/ owner[i] # Nobody \/ i \in handled \cup dlq
        \/ \E j \in Ids : TookKeyFrom(j, i)

-----------------------------------------------------------------------------
(* The inductive invariant behind the properties above. *)

\* Positions only ever name entries that exist, in the order stream, group,
\* consumer: a busy consumer's entry was taken, a taken one delivered, a
\* delivered one appended.
PositionsOK ==
    /\ \A i \in Ids : i <= top => body[i] \in Messages
    /\ stream \cup evicted \subseteq 1 .. top
    /\ delivered <= top
    /\ taken \subseteq 1 .. delivered
    /\ acquired \subseteq taken
    /\ \A i \in Ids : owner[i] # Nobody => i \in taken
    /\ \A c \in Consumers : Busy(c) => cur[c] \in taken

\* What a consumer's place in the loop says of its entry.
PlaceOK(c) ==
    /\ pc[c] \in {"got", "poison"} =>
          cur[c] \notin acquired /\ owner[cur[c]] # Nobody
    /\ pc[c] = "ack" => cur[c] \in handled
    /\ pc[c] = "skip" =>
          cur[c] \in blind \/ ( /\ cur[c] \notin acquired
                               /\ \E j \in Ids : TookKeyFrom(j, cur[c]) )
    /\ pc[c] \in {"rejectAck", "poisonAck"} /\ DlqEnabled => cur[c] \in dlq

LoopOK == \A c \in Consumers : PlaceOK(c)

\* A live key was set for some entry, and an entry that set its key is
\* accounted for; one that left the group and is not had its key taken.
KeysOK ==
    /\ \A m \in seen : \E j \in acquired : body[j] = m
    /\ DlqEnabled =>
          \A i \in taken :
              \/ Accounted(i)
              \/ i \notin acquired /\ \E j \in Ids : TookKeyFrom(j, i)

DeliveryInv ==
    /\ TypeOK
    /\ PositionsOK
    /\ OneWorkerPerEntry
    /\ PendingKeepsPayload
    /\ LoopOK
    /\ KeysOK

-----------------------------------------------------------------------------
(* The delivery contract this loop implements, see DeliveryContract. *)

FateOf(i) ==
    IF i > top THEN "absent"
    ELSE IF i \in handled THEN "handled"
    ELSE IF i \in dlq THEN "buried"
    ELSE IF i \notin taken THEN IF i \in evicted THEN "evicted" ELSE "queued"
    ELSE IF owner[i] # Nobody THEN "held"
    ELSE IF i \in blind THEN "lost" ELSE "skipped"

Contract == INSTANCE DeliveryContract WITH
    fate <- [i \in Ids |-> FateOf(i)], message <- body

\* Every behaviour of the delivery loop is one of the delivery contract.
ImplementsContract == Contract!Spec
===============================================================================
