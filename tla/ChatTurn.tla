-------------------------------- MODULE ChatTurn --------------------------------
(***************************************************************************)
(* One turn of a chat across the processes: the bot asks over the broker   *)
(* (services/bot/services/broker_client.py, redis_rpc.py), an agent runs   *)
(* the stages of the pipeline on one database session, submits the         *)
(* tasks of the worker, commits and replies (services/agent/broker_worker, *)
(* vanessa/pipeline/orchestrator), the worker runs the tasks.  The         *)
(* transaction is committed twice: before the lookups of the retrieve      *)
(* stage, which must not hold it open, and at the end.                     *)
(*                                                                         *)
(* The turns stream is a queue that hands each request to one agent, or    *)
(* loses it: that is what StreamDelivery shows of it.  A reply stream is   *)
(* private to its request and outlives the bot's wait for it.              *)
(***************************************************************************)
EXTENDS Naturals, Sequences

CONSTANTS Turns,      \* messages of one chat
          FromBot,    \* those another bot wrote
          WithPhoto,  \* those with a photo to caption
          Agents,     \* agent processes: two while one replaces the other
          NoTurn

ASSUME ChatTurnAssumption ==
    /\ FromBot \subseteq Turns
    /\ WithPhoto \subseteq Turns
    /\ NoTurn \notin Turns

Kinds == {"memory", "caption"}

VARIABLES
    bot,       \* the bot's handler of each message
    typing,    \* messages whose handler shows "typing..."
    seen,      \* what it read of the reply stream
    queue,     \* requests on the turns stream
    stage,     \* the stage each agent is in
    turn,      \* the turn each agent has
    user,      \* the row of each message
    answer,    \* the row of each reply
    result,    \* how the pipeline ended each turn
    replies,   \* what each reply stream holds
    task,      \* the tasks of each turn
    \* History
    passed,    \* turns the gate let pass
    before,    \* replies the chat showed when a message was written
    window     \* replies in the session a turn was given

botVars   == <<bot, typing, seen>>
agentVars == <<stage, turn>>
rows      == <<user, answer>>
history   == <<passed, before, window>>
vars == <<botVars, queue, agentVars, rows, result, replies, task, history>>

Working == {"gate", "signal", "retrieve", "compose", "finalize", "commit"}

TypeOK ==
    /\ bot \in [Turns -> {"new", "waiting", "answered", "ignored", "failed"}]
    /\ typing \subseteq {t \in Turns : bot[t] = "waiting"}
    /\ seen \in [Turns -> SUBSET {"started"}]
    /\ queue \in Seq(Turns)
    /\ stage \in [Agents -> {"idle", "reply"} \cup Working]
    /\ turn \in [Agents -> Turns \cup {NoTurn}]
    /\ user \in [Turns -> {"none", "open", "kept"}]
    /\ answer \in [Turns -> {"none", "open", "kept"}]
    /\ \A t \in Turns : "open" \in {user[t], answer[t]} =>
          \E a \in Agents : turn[a] = t /\ stage[a] \in Working
    /\ result \in [Turns -> {"none", "reply", "ignore"}]
    /\ replies \in [Turns -> SUBSET {"started", "reply"}]
    /\ task \in [Turns \X Kinds ->
                   {"none", "pending", "queued", "done", "missed", "lost"}]
    /\ passed \subseteq Turns
    /\ before \in [Turns -> SUBSET Turns]
    /\ window \in [Turns -> SUBSET Turns]

Init ==
    /\ bot = [t \in Turns |-> "new"]
    /\ typing = {}
    /\ seen = [t \in Turns |-> {}]
    /\ queue = <<>>
    /\ stage = [a \in Agents |-> "idle"]
    /\ turn = [a \in Agents |-> NoTurn]
    /\ user = [t \in Turns |-> "none"]
    /\ answer = [t \in Turns |-> "none"]
    /\ result = [t \in Turns |-> "none"]
    /\ replies = [t \in Turns |-> {}]
    /\ task = [k \in Turns \X Kinds |-> "none"]
    /\ passed = {}
    /\ before = [t \in Turns |-> {}]
    /\ window = [t \in Turns |-> {}]

-----------------------------------------------------------------------------
(* The bot *)

Shown == {t \in Turns : bot[t] = "answered"}

\* The request is on the stream, and the handler reads its reply stream.
Ask(t) ==
    /\ bot[t] = "new"
    /\ bot' = [bot EXCEPT ![t] = "waiting"]
    /\ queue' = Append(queue, t)
    /\ before' = [before EXCEPT ![t] = Shown]
    /\ UNCHANGED <<typing, seen, agentVars, rows, result, replies, task, passed, window>>

\* A command before the wait raises, the XADD perhaps after it was applied.
AskFails(t) ==
    /\ bot[t] = "new"
    /\ bot' = [bot EXCEPT ![t] = "failed"]
    /\ queue' = Append(queue, t) \/ UNCHANGED queue
    /\ before' = [before EXCEPT ![t] = Shown]
    /\ UNCHANGED <<typing, seen, agentVars, rows, result, replies, task, passed, window>>

\* TurnStarted is forwarded to the handler, which starts typing.
HearStarted(t) ==
    /\ bot[t] = "waiting"
    /\ "started" \in replies[t] \ seen[t]
    /\ seen' = [seen EXCEPT ![t] = {"started"}]
    /\ typing' = typing \cup {t}
    /\ UNCHANGED <<bot, queue, agentVars, rows, result, replies, task, history>>

\* The indicator goes off on every way out of the handler.
EndWait(t, outcome) ==
    /\ bot' = [bot EXCEPT ![t] = outcome]
    /\ typing' = typing \ {t}
    /\ UNCHANGED <<seen, queue, agentVars, rows, result, replies, task, history>>

\* The reply stream is read in order, from its start.
HearReply(t) ==
    /\ bot[t] = "waiting"
    /\ "reply" \in replies[t]
    /\ replies[t] \ seen[t] = {"reply"}
    /\ EndWait(t, IF result[t] = "reply" THEN "answered" ELSE "ignored")

TimeOut(t) ==
    /\ bot[t] = "waiting"
    /\ EndWait(t, "failed")

-----------------------------------------------------------------------------
(* An agent *)

Goto(a, s) == stage' = [stage EXCEPT ![a] = s]

\* The handler ends.
Rest(a) ==
    /\ Goto(a, "idle")
    /\ turn' = [turn EXCEPT ![a] = NoTurn]

\* The request leaves the stream without its handler.
LoseRequest ==
    /\ queue # <<>>
    /\ queue' = Tail(queue)
    /\ UNCHANGED <<botVars, agentVars, rows, result, replies, task, history>>

\* Ingress: the row of the message, the session from what is committed.
Take(a) ==
    /\ stage[a] = "idle"
    /\ queue # <<>>
    /\ queue' = Tail(queue)
    /\ turn' = [turn EXCEPT ![a] = Head(queue)]
    /\ user' = [user EXCEPT ![Head(queue)] = "open"]
    /\ window' = [window EXCEPT ![Head(queue)] = {t \in Turns : answer[t] = "kept"}]
    /\ Goto(a, "gate")
    /\ UNCHANGED <<botVars, answer, result, replies, task, passed, before>>

\* The gate refuses: the message stays in the history, unanswered.
GateIgnores(a) ==
    /\ stage[a] = "gate"
    /\ result' = [result EXCEPT ![turn[a]] = "ignore"]
    /\ Goto(a, "commit")
    /\ UNCHANGED <<botVars, queue, turn, rows, replies, task, history>>

GatePasses(a) ==
    /\ stage[a] = "gate"
    /\ passed' = passed \cup {turn[a]}
    /\ Goto(a, "signal")
    /\ UNCHANGED <<botVars, queue, turn, rows, result, replies, task, before, window>>

\* A signal that cannot be sent does not stop the turn.
Signal(a) ==
    /\ stage[a] = "signal"
    /\ \/ replies' = [replies EXCEPT ![turn[a]] = @ \cup {"started"}]
       \/ UNCHANGED replies
    /\ Goto(a, "retrieve")
    /\ UNCHANGED <<botVars, queue, turn, rows, result, task, history>>

\* Mutant: the transaction stays open until the end of the turn.
RetrieveUncommitted(a) ==
    /\ stage[a] = "retrieve"
    /\ \/ Goto(a, "compose") /\ UNCHANGED result
       \/ /\ turn[a] \in FromBot
          /\ result' = [result EXCEPT ![turn[a]] = "ignore"]
          /\ Goto(a, "commit")
    /\ UNCHANGED <<botVars, queue, turn, rows, replies, task, history>>

\* What was written so far is committed; then the lookup, joined with the
\* scene.  Another bot gets no answer now if the lookup goes on.
Retrieve(a) ==
    /\ stage[a] = "retrieve"
    /\ user' = [user EXCEPT ![turn[a]] = "kept"]
    /\ \/ Goto(a, "compose") /\ UNCHANGED result
       \/ /\ turn[a] \in FromBot
          /\ result' = [result EXCEPT ![turn[a]] = "ignore"]
          /\ Goto(a, "commit")
    /\ UNCHANGED <<botVars, queue, turn, answer, replies, task, history>>

\* An empty answer or a repeated one ends the turn like a refusal of the gate.
Compose(a) ==
    /\ stage[a] = "compose"
    /\ \/ Goto(a, "finalize") /\ UNCHANGED result
       \/ /\ result' = [result EXCEPT ![turn[a]] = "ignore"]
          /\ Goto(a, "commit")
    /\ UNCHANGED <<botVars, queue, turn, rows, replies, task, history>>

TasksOf(t) ==
    IF t \in FromBot THEN {}
    ELSE {t} \X (IF t \in WithPhoto THEN Kinds ELSE {"memory"})

\* The row of the reply; the tasks are submitted, to be published by tasks of
\* the event loop that nobody awaits.
Finalize(a) ==
    /\ stage[a] = "finalize"
    /\ answer' = [answer EXCEPT ![turn[a]] = "open"]
    /\ result' = [result EXCEPT ![turn[a]] = "reply"]
    /\ task' = [k \in Turns \X Kinds |->
                  IF k \in TasksOf(turn[a]) THEN "pending" ELSE task[k]]
    /\ Goto(a, "commit")
    /\ UNCHANGED <<botVars, queue, turn, user, replies, history>>

\* The rows of t at the end of a transaction: what was committed stays.
EndRows(t, kept) ==
    LET Ended(row) == IF row = "open" THEN kept ELSE row
    IN  /\ user' = [user EXCEPT ![t] = Ended(@)]
        /\ answer' = [answer EXCEPT ![t] = Ended(@)]

Commit(a) ==
    /\ stage[a] = "commit"
    /\ EndRows(turn[a], "kept")
    /\ Goto(a, "reply")
    /\ UNCHANGED <<botVars, queue, turn, result, replies, task, history>>

\* A stage or a commit raises: the rows not yet committed are rolled back, the
\* request is dead-lettered, the tasks already submitted are not recalled.
Fail(a) ==
    /\ stage[a] \in Working
    /\ EndRows(turn[a], "none")
    /\ result' = [result EXCEPT ![turn[a]] = "none"]
    /\ Rest(a)
    /\ UNCHANGED <<botVars, queue, replies, task, history>>

\* The publish may raise, before or after it was applied.
Reply(a) ==
    /\ stage[a] = "reply"
    /\ \/ replies' = [replies EXCEPT ![turn[a]] = @ \cup {"reply"}]
       \/ UNCHANGED replies
    /\ Rest(a)
    /\ UNCHANGED <<botVars, queue, rows, result, task, history>>

\* The process dies: its transaction is gone, and its unpublished tasks.
Die(a) ==
    /\ stage[a] # "idle"
    /\ IF stage[a] = "reply" THEN UNCHANGED <<rows, result>>
       ELSE /\ EndRows(turn[a], "none")
            /\ result' = [result EXCEPT ![turn[a]] = "none"]
    /\ task' = [k \in Turns \X Kinds |->
                  IF k[1] = turn[a] /\ task[k] = "pending" THEN "lost" ELSE task[k]]
    /\ Rest(a)
    /\ UNCHANGED <<botVars, queue, replies, history>>

-----------------------------------------------------------------------------
(* The tasks *)

Becomes(k, s) ==
    /\ task' = [task EXCEPT ![k] = s]
    /\ UNCHANGED <<botVars, queue, agentVars, rows, result, replies, history>>

PublishTask(k) == task[k] = "pending" /\ (Becomes(k, "queued") \/ Becomes(k, "lost"))

\* The memory task carries its messages.
Remember(t) == task[<<t, "memory">>] = "queued" /\ Becomes(<<t, "memory">>, "done")

\* The caption task looks its message up, and ends if there is none.
Caption(t) ==
    /\ task[<<t, "caption">>] = "queued"
    /\ Becomes(<<t, "caption">>, IF user[t] = "kept" THEN "done" ELSE "missed")

-----------------------------------------------------------------------------
Next ==
    \/ \E t \in Turns :
          \/ Ask(t) \/ AskFails(t) \/ HearStarted(t) \/ HearReply(t) \/ TimeOut(t)
          \/ Remember(t) \/ Caption(t)
    \/ LoseRequest
    \/ \E a \in Agents :
          \/ Take(a) \/ GateIgnores(a) \/ GatePasses(a) \/ Signal(a) \/ Retrieve(a)
          \/ Compose(a) \/ Finalize(a) \/ Commit(a) \/ Fail(a) \/ Reply(a) \/ Die(a)
    \/ \E k \in Turns \X Kinds : PublishTask(k)

Spec == Init /\ [][Next]_vars

-----------------------------------------------------------------------------
(* Properties *)

\* The history holds an answer with its message or not at all, whatever raises
\* and whoever dies between the two commits; a message alone was ignored, or
\* its turn got past the gate and raised.
HistoryHoldsWholeTurns ==
    \A t \in Turns :
        /\ answer[t] = "kept" => user[t] = "kept" /\ result[t] = "reply"
        /\ user[t] = "kept" /\ answer[t] # "kept" => result[t] = "ignore" \/ t \in passed

\* What the chat was shown is in the database.
ShownIsRecorded ==
    \A t \in Shown : user[t] = "kept" /\ answer[t] = "kept"

\* Who writes after seeing a reply is understood as having seen it: the session
\* of the turn holds that reply, whichever agent runs it.
SessionHoldsWhatWasShown ==
    \A t \in Turns : user[t] # "none" => before[t] \subseteq window[t]

\* "typing..." is shown only for a message the gate let pass.
TypingAfterGate == typing \subseteq passed

\* A turn that was ignored, or that another bot wrote, starts no task of memory
\* or captions.  (Its row is still read with the session of a later turn, by the
\* task of that one, post_reply.py:106, and by the sweep.)
OnlyRepliesAreLearned ==
    \A k \in Turns \X Kinds : task[k] # "none" =>
        k[1] \notin FromBot /\ result[k[1]] # "ignore"

\* The caption task is published before the last commit of its turn, and its
\* message may never be answered; it finds the row of the message all the same.
CaptionFindsItsMessage == \A t \in Turns : task[<<t, "caption">>] # "missed"

\* README.md: memory updates and captions "run after the message is already in
\* the chat".
LearnedAfterShown ==
    \A t \in Turns : task[<<t, "memory">>] = "done" => t \in Shown

\* What the chat, the history, the sessions and the tasks know of a turn is one
\* story, whatever raises, dies or comes late.
TurnsAreWhole ==
    /\ HistoryHoldsWholeTurns
    /\ ShownIsRecorded
    /\ SessionHoldsWhatWasShown
    /\ TypingAfterGate
    /\ OnlyRepliesAreLearned
    /\ CaptionFindsItsMessage
===============================================================================
