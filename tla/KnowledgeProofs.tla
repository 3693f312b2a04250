---------------------------- MODULE KnowledgeProofs ----------------------------
(***************************************************************************)
(* Proofs about the parts of MCKnowledge: the turn of a message (ChatTurn),*)
(* how messages reach the vault (MemoryIntake), the cards of the vault as  *)
(* they are merged into and cut (VaultCards) and the merging of people's   *)
(* cards (MergePeople), for any number of messages, agents, pollers,       *)
(* writers, cards and lines.  At the end, what they say of the whole.      *)
(***************************************************************************)
EXTENDS MCKnowledge, OrderingProofs, FunctionTheorems, SequenceTheorems

-----------------------------------------------------------------------------
(***************************************************************************)
(* THE TURN (ChatTurn)                                                     *)
(***************************************************************************)


\* TypeOK without its two clauses about who has what.
Types ==
    /\ bot \in [Turns -> {"new", "waiting", "answered", "ignored", "failed"}]
    /\ seen \in [Turns -> SUBSET {"started"}]
    /\ queue \in Seq(Turns)
    /\ stage \in [Agents -> {"idle", "reply"} \cup Working]
    /\ turn \in [Agents -> Turns \cup {NoTurn}]
    /\ user \in [Turns -> {"none", "open", "kept"}]
    /\ answer \in [Turns -> {"none", "open", "kept"}]
    /\ result \in [Turns -> {"none", "reply", "ignore"}]
    /\ replies \in [Turns -> SUBSET {"started", "reply"}]
    /\ task \in [Turns \X Kinds ->
                   {"none", "pending", "queued", "done", "missed", "lost"}]
    /\ passed \subseteq Turns
    /\ before \in [Turns -> SUBSET Turns]
    /\ window \in [Turns -> SUBSET Turns]

Open(t) == "open" \in {user[t], answer[t]}
Has(a, t) == turn[a] = t /\ stage[a] \in Working

\* An uncommitted row belongs to the transaction of some agent's turn.
OpenRowsOK == \A t \in Turns : Open(t) => \E a \in Agents : Has(a, t)

TypingOK == typing \subseteq {t \in Turns : bot[t] = "waiting"}

LEMMA TypesSplit == TypeOK <=> Types /\ OpenRowsOK /\ TypingOK
BY DEF TypeOK, Types, OpenRowsOK, TypingOK, Open, Has

NoTasks(t) == \A k \in Kinds : task[<<t, k>>] = "none"

\* No agent has seen t yet.
Fresh(t) ==
    /\ user[t] = "none" /\ answer[t] = "none" /\ result[t] = "none"
    /\ replies[t] = {} /\ NoTasks(t) /\ t \notin passed
    /\ \A a \in Agents : turn[a] # t

\* A message is asked once, so one agent at most ever has it.
QueueOK ==
    /\ \A t \in Turns : bot[t] = "new" => Fresh(t)
    /\ \A i \in 1 .. Len(queue) : Fresh(queue[i]) /\ bot[queue[i]] # "new"
    /\ \A i, j \in 1 .. Len(queue) : queue[i] = queue[j] => i = j
    /\ \A a, b \in Agents : turn[a] = turn[b] /\ turn[a] # NoTurn => a = b

\* What the stage of an agent says of its turn.
StageOK(a) ==
    /\ stage[a] = "idle" <=> turn[a] = NoTurn
    /\ stage[a] \in {"gate", "signal", "retrieve"} => user[turn[a]] = "open"
    /\ stage[a] \in {"compose", "finalize"} => user[turn[a]] = "kept"
    /\ stage[a] \in Working \ {"commit"} =>
          answer[turn[a]] = "none" /\ result[turn[a]] = "none" /\ NoTasks(turn[a])
    /\ stage[a] \in Working \ {"gate", "commit"} => turn[a] \in passed
    /\ stage[a] \in Working /\ user[turn[a]] = "kept" => turn[a] \in passed
    /\ stage[a] \in {"commit", "reply"} =>
          /\ user[turn[a]] = "kept" \/ (stage[a] = "commit" /\ user[turn[a]] = "open")
          /\ \/ result[turn[a]] = "ignore" /\ answer[turn[a]] = "none" /\ NoTasks(turn[a])
             \/ /\ result[turn[a]] = "reply" /\ user[turn[a]] = "kept"
                /\ answer[turn[a]] = IF stage[a] = "commit" THEN "open" ELSE "kept"
    /\ stage[a] # "idle" => "reply" \notin replies[turn[a]]

\* What is known of a message, whoever has it.
RecordOK(t) ==
    /\ answer[t] = "kept" => user[t] = "kept" /\ result[t] = "reply"
    /\ user[t] = "kept" /\ answer[t] # "kept" => result[t] = "ignore" \/ t \in passed
    /\ "started" \in replies[t] => t \in passed
    /\ "reply" \in replies[t] =>
          user[t] = "kept" /\ (result[t] = "ignore" \/ answer[t] = "kept")
    /\ bot[t] = "answered" => "reply" \in replies[t] /\ result[t] = "reply"
    /\ \A k \in Kinds :
          /\ task[<<t, k>>] # "none" => t \notin FromBot /\ user[t] = "kept" /\ result[t] # "ignore"
          /\ task[<<t, k>>] # "missed"
    /\ t \in typing => t \in passed
    /\ \A u \in before[t] : answer[u] = "kept"
    /\ user[t] # "none" => before[t] \subseteq window[t]

TurnInv ==
    /\ Types
    /\ OpenRowsOK
    /\ TypingOK
    /\ QueueOK
    /\ \A a \in Agents : StageOK(a)
    /\ \A t \in Turns : RecordOK(t)

-----------------------------------------------------------------------------
(* What a step leaves alone *)

OnlyTurn(t) ==
    \A u \in Turns \ {t} :
        /\ user'[u] = user[u] /\ answer'[u] = answer[u] /\ result'[u] = result[u]
        /\ replies'[u] = replies[u] /\ window'[u] = window[u]
        /\ \A k \in Kinds : task'[<<u, k>>] = task[<<u, k>>]
        /\ u \in passed' <=> u \in passed

OnlyAgent(a) ==
    \A b \in Agents \ {a} : stage'[b] = stage[b] /\ turn'[b] = turn[b]

\* A step of one agent on the turn it has: what remains to be shown of it.
LEMMA AgentStep ==
    ASSUME TurnInv, NEW a \in Agents, NEW t \in Turns, turn[a] = t,
           OnlyTurn(t), OnlyAgent(a), turn'[a] \in {t, NoTurn},
           UNCHANGED <<botVars, queue, before>>,
           answer[t] = "kept" => answer'[t] = "kept",
           Open(t)' => Has(a, t)',
           Types', StageOK(a)', RecordOK(t)'
    PROVE  TurnInv'
<1> USE ChatTurnAssumption DEF TurnInv
<1>1. QueueOK'
    <2>1. \A i \in 1 .. Len(queue) : queue[i] \in Turns
        BY DEF Types
    <2>2. \A u \in Turns : Fresh(u) => Fresh(u)'
        <3>1. ASSUME NEW u \in Turns, Fresh(u) PROVE u # t
            BY <3>1 DEF Fresh
        <3>2. QED BY <3>1 DEF Fresh, OnlyTurn, OnlyAgent, NoTasks
    <2>3. \A b, c \in Agents : turn'[b] = turn'[c] /\ turn'[b] # NoTurn => b = c
        BY DEF QueueOK, OnlyAgent
    <2>4. QED BY <2>1, <2>2, <2>3 DEF QueueOK, botVars
<1>2. \A b \in Agents : StageOK(b)'
    <2> SUFFICES ASSUME NEW b \in Agents, b # a PROVE StageOK(b)'
        OBVIOUS
    <2>1. stage'[b] = stage[b] /\ turn'[b] = turn[b] /\ turn[b] \in (Turns \ {t}) \cup {NoTurn}
        BY DEF OnlyAgent, QueueOK, Types
    <2>2. CASE turn[b] = NoTurn
        BY <2>1, <2>2 DEF StageOK, Working
    <2>3. CASE turn[b] \in Turns \ {t}
        BY <2>1, <2>3 DEF StageOK, OnlyTurn, NoTasks
    <2>4. QED BY <2>1, <2>2, <2>3
<1>3. \A u \in Turns : RecordOK(u)'
    <2> SUFFICES ASSUME NEW u \in Turns, u # t PROVE RecordOK(u)'
        OBVIOUS
    <2>1. \A v \in Turns : answer[v] = "kept" => answer'[v] = "kept"
        BY DEF OnlyTurn
    <2>2. before[u] \subseteq Turns
        BY DEF Types
    <2>3. QED BY <2>1, <2>2 DEF RecordOK, OnlyTurn, botVars
<1>4. OpenRowsOK'
    <2> SUFFICES ASSUME NEW u \in Turns, Open(u)' PROVE \E b \in Agents : Has(b, u)'
        BY DEF OpenRowsOK
    <2>1. CASE u = t
        BY <2>1
    <2>2. CASE u # t
        <3>1. Open(u)
            BY <2>2 DEF Open, OnlyTurn
        <3>2. PICK b \in Agents : Has(b, u)
            BY <3>1 DEF OpenRowsOK
        <3>3. Has(b, u)'
            BY <2>2, <3>2 DEF Has, OnlyAgent
        <3>4. QED BY <3>3
    <2>3. QED BY <2>1, <2>2
<1>5. TypingOK'
    BY DEF TypingOK, botVars
<1>6. QED BY <1>1, <1>2, <1>3, <1>4, <1>5

\* A step of the bot changes nothing of the agents'.
LEMMA BotStep ==
    ASSUME TurnInv, NEW t \in Turns,
           UNCHANGED <<agentVars, rows, result, replies, task, passed, window>>,
           Types', TypingOK', QueueOK', RecordOK(t)',
           \A u \in Turns \ {t} :
               /\ bot'[u] = bot[u] /\ before'[u] = before[u]
               /\ u \in typing' <=> u \in typing
    PROVE  TurnInv'
<1> USE DEF TurnInv
<1>1. \A a \in Agents : StageOK(a)'
    BY DEF StageOK, NoTasks, agentVars, rows
<1>2. \A u \in Turns : RecordOK(u)'
    BY DEF RecordOK, rows
<1>3. OpenRowsOK'
    BY DEF OpenRowsOK, Open, Has, agentVars, rows
<1>4. QED BY <1>1, <1>2, <1>3

\* A task that was submitted stays submitted, so nothing else has to be shown of its step.
LEMMA TaskStep ==
    ASSUME TurnInv, NEW k \in Turns \X Kinds, NEW s \in {"queued", "done", "lost"},
           task[k] # "none", Becomes(k, s)
    PROVE  TurnInv'
<1> USE DEF TurnInv
<1> USE DEF botVars, agentVars, rows, history, Becomes
<1>1. /\ task' \in [Turns \X Kinds ->
                      {"none", "pending", "queued", "done", "missed", "lost"}]
      /\ \A j \in Turns \X Kinds : task'[j] = "none" <=> task[j] = "none"
      /\ \A j \in Turns \X Kinds : task'[j] = "missed" => task[j] = "missed"
    BY DEF Types
<1>2. \A t \in Turns : NoTasks(t)' <=> NoTasks(t)
    BY <1>1 DEF NoTasks
<1>3. Types' /\ OpenRowsOK' /\ TypingOK'
    BY <1>1 DEF Types, OpenRowsOK, TypingOK, Open, Has
<1>4. QueueOK'
    <2>1. \A t \in Turns : Fresh(t) => Fresh(t)'
        BY <1>2 DEF Fresh
    <2>2. \A i \in 1 .. Len(queue) : queue[i] \in Turns
        BY DEF Types
    <2>3. QED BY <2>1, <2>2 DEF QueueOK
<1>5. \A a \in Agents : StageOK(a)'
    <2> SUFFICES ASSUME NEW a \in Agents PROVE StageOK(a)'
        OBVIOUS
    <2>1. turn[a] \in Turns \cup {NoTurn}
        BY DEF Types
    <2>2. CASE turn[a] \in Turns
        BY <1>2, <2>2 DEF StageOK
    <2>3. CASE turn[a] = NoTurn
        BY <2>3 DEF StageOK, Working
    <2>4. QED BY <2>1, <2>2, <2>3
<1>6. \A t \in Turns : RecordOK(t)'
    BY <1>1 DEF RecordOK
<1>7. QED BY <1>3, <1>4, <1>5, <1>6

-----------------------------------------------------------------------------
(* The agents' steps *)

\* The agent at work has a turn of its own.
LEMMA AtWork ==
    ASSUME TurnInv, NEW a \in Agents, stage[a] # "idle"
    PROVE  \E t \in Turns : turn[a] = t /\ t # NoTurn /\ StageOK(a) /\ RecordOK(t)
BY ChatTurnAssumption DEF TurnInv, Types, botVars, StageOK

LEMMA GateIgnoresTurns == \A a \in Agents : TurnInv /\ GateIgnores(a) => TurnInv'
<1> SUFFICES ASSUME NEW a \in Agents, TurnInv, GateIgnores(a) PROVE TurnInv'
    OBVIOUS
<1>1. PICK t \in Turns : turn[a] = t /\ t # NoTurn /\ StageOK(a) /\ RecordOK(t)
    BY AtWork DEF GateIgnores, Working
<1>2. Types'
    BY <1>1, ChatTurnAssumption DEF TurnInv, Types, botVars, GateIgnores, Working, Goto, rows, history
<1>3. OnlyTurn(t) /\ OnlyAgent(a)
    BY <1>1 DEF TurnInv, Types, OnlyTurn, OnlyAgent, GateIgnores, Goto, rows, history
<1>4. StageOK(a)'
    BY <1>1, ChatTurnAssumption DEF TurnInv, Types, StageOK, NoTasks, Working, GateIgnores, Goto, rows, history
<1>5. RecordOK(t)'
    BY <1>1 DEF TurnInv, Types, botVars, StageOK, RecordOK, NoTasks, Working, GateIgnores, Goto, rows, history
<1>6. /\ turn'[a] \in {t, NoTurn}
      /\ answer[t] = "kept" => answer'[t] = "kept"
      /\ UNCHANGED <<botVars, queue, before>>
    BY <1>1 DEF TurnInv, Types, botVars, GateIgnores, StageOK, Working, Goto, rows, history
<1>7. Open(t)' => Has(a, t)'
    BY <1>1 DEF TurnInv, Types, StageOK, Open, Has, Working, GateIgnores, Goto, rows, history
<1>8. QED BY <1>1, <1>2, <1>3, <1>4, <1>5, <1>6, <1>7, AgentStep

LEMMA GatePassesTurns == \A a \in Agents : TurnInv /\ GatePasses(a) => TurnInv'
<1> SUFFICES ASSUME NEW a \in Agents, TurnInv, GatePasses(a) PROVE TurnInv'
    OBVIOUS
<1>1. PICK t \in Turns : turn[a] = t /\ t # NoTurn /\ StageOK(a) /\ RecordOK(t)
    BY AtWork DEF GatePasses, Working
<1>2. Types'
    BY <1>1, ChatTurnAssumption DEF TurnInv, Types, botVars, GatePasses, Working, Goto, rows
<1>3. OnlyTurn(t) /\ OnlyAgent(a)
    BY <1>1 DEF TurnInv, Types, OnlyTurn, OnlyAgent, GatePasses, Goto, rows
<1>4. StageOK(a)'
    BY <1>1, ChatTurnAssumption DEF TurnInv, Types, StageOK, NoTasks, Working, GatePasses, Goto, rows
<1>5. RecordOK(t)'
    BY <1>1 DEF TurnInv, Types, botVars, StageOK, RecordOK, NoTasks, Working, GatePasses, Goto, rows
<1>6. /\ turn'[a] \in {t, NoTurn}
      /\ answer[t] = "kept" => answer'[t] = "kept"
      /\ UNCHANGED <<botVars, queue, before>>
    BY <1>1 DEF TurnInv, Types, botVars, GatePasses, StageOK, Working, Goto, rows
<1>7. Open(t)' => Has(a, t)'
    BY <1>1 DEF TurnInv, Types, StageOK, Open, Has, Working, GatePasses, Goto, rows
<1>8. QED BY <1>1, <1>2, <1>3, <1>4, <1>5, <1>6, <1>7, AgentStep

LEMMA SignalTurns == \A a \in Agents : TurnInv /\ Signal(a) => TurnInv'
<1> SUFFICES ASSUME NEW a \in Agents, TurnInv, Signal(a) PROVE TurnInv'
    OBVIOUS
<1>1. PICK t \in Turns : turn[a] = t /\ t # NoTurn /\ StageOK(a) /\ RecordOK(t)
    BY AtWork DEF Signal, Working
<1>2. Types'
    BY <1>1, ChatTurnAssumption DEF TurnInv, Types, botVars, Signal, Working, Goto, rows, history
<1>3. OnlyTurn(t) /\ OnlyAgent(a)
    BY <1>1 DEF TurnInv, Types, OnlyTurn, OnlyAgent, Signal, Goto, rows, history
<1>4. StageOK(a)'
    BY <1>1, ChatTurnAssumption DEF TurnInv, Types, StageOK, NoTasks, Working, Signal, Goto, rows, history
<1>5. RecordOK(t)'
    BY <1>1 DEF TurnInv, Types, botVars, StageOK, RecordOK, NoTasks, Working, Signal, Goto, rows, history
<1>6. /\ turn'[a] \in {t, NoTurn}
      /\ answer[t] = "kept" => answer'[t] = "kept"
      /\ UNCHANGED <<botVars, queue, before>>
    BY <1>1 DEF TurnInv, Types, botVars, Signal, StageOK, Working, Goto, rows, history
<1>7. Open(t)' => Has(a, t)'
    BY <1>1 DEF TurnInv, Types, StageOK, Open, Has, Working, Signal, Goto, rows, history
<1>8. QED BY <1>1, <1>2, <1>3, <1>4, <1>5, <1>6, <1>7, AgentStep

LEMMA RetrieveTurns == \A a \in Agents : TurnInv /\ Retrieve(a) => TurnInv'
<1> SUFFICES ASSUME NEW a \in Agents, TurnInv, Retrieve(a) PROVE TurnInv'
    OBVIOUS
<1>1. PICK t \in Turns : turn[a] = t /\ t # NoTurn /\ StageOK(a) /\ RecordOK(t)
    BY AtWork DEF Retrieve, Working
<1>2. Types'
    BY <1>1, ChatTurnAssumption DEF TurnInv, Types, botVars, Retrieve, Working, Goto, history
<1>3. OnlyTurn(t) /\ OnlyAgent(a)
    BY <1>1 DEF TurnInv, Types, OnlyTurn, OnlyAgent, Retrieve, Goto, history
<1>4. StageOK(a)'
    BY <1>1, ChatTurnAssumption DEF TurnInv, Types, StageOK, NoTasks, Working, Retrieve, Goto, history
<1>5. RecordOK(t)'
    BY <1>1 DEF TurnInv, Types, botVars, StageOK, RecordOK, NoTasks, Working, Retrieve, Goto, history
<1>6. /\ turn'[a] \in {t, NoTurn}
      /\ answer[t] = "kept" => answer'[t] = "kept"
      /\ UNCHANGED <<botVars, queue, before>>
    BY <1>1 DEF TurnInv, Types, botVars, Retrieve, StageOK, Working, Goto, history
<1>7. Open(t)' => Has(a, t)'
    BY <1>1 DEF TurnInv, Types, StageOK, Open, Has, Working, Retrieve, Goto, history
<1>8. QED BY <1>1, <1>2, <1>3, <1>4, <1>5, <1>6, <1>7, AgentStep

LEMMA ComposeTurns == \A a \in Agents : TurnInv /\ Compose(a) => TurnInv'
<1> SUFFICES ASSUME NEW a \in Agents, TurnInv, Compose(a) PROVE TurnInv'
    OBVIOUS
<1>1. PICK t \in Turns : turn[a] = t /\ t # NoTurn /\ StageOK(a) /\ RecordOK(t)
    BY AtWork DEF Compose, Working
<1>2. Types'
    BY <1>1, ChatTurnAssumption, SMTT(30) DEF TurnInv, Types, botVars, Compose, Working, Goto, rows, history
<1>3. OnlyTurn(t) /\ OnlyAgent(a)
    BY <1>1 DEF TurnInv, Types, OnlyTurn, OnlyAgent, Compose, Goto, rows, history
<1>4. StageOK(a)'
    BY <1>1, ChatTurnAssumption DEF TurnInv, Types, StageOK, NoTasks, Working, Compose, Goto, rows, history
<1>5. RecordOK(t)'
    BY <1>1 DEF TurnInv, Types, botVars, StageOK, RecordOK, NoTasks, Working, Compose, Goto, rows, history
<1>6. /\ turn'[a] \in {t, NoTurn}
      /\ answer[t] = "kept" => answer'[t] = "kept"
      /\ UNCHANGED <<botVars, queue, before>>
    BY <1>1 DEF TurnInv, Types, botVars, Compose, StageOK, Working, Goto, rows, history
<1>7. Open(t)' => Has(a, t)'
    BY <1>1 DEF TurnInv, Types, StageOK, Open, Has, Working, Compose, Goto, rows, history
<1>8. QED BY <1>1, <1>2, <1>3, <1>4, <1>5, <1>6, <1>7, AgentStep

LEMMA FinalizeTurns == \A a \in Agents : TurnInv /\ Finalize(a) => TurnInv'
<1> SUFFICES ASSUME NEW a \in Agents, TurnInv, Finalize(a) PROVE TurnInv'
    OBVIOUS
<1>1. PICK t \in Turns : turn[a] = t /\ t # NoTurn /\ StageOK(a) /\ RecordOK(t)
    BY AtWork DEF Finalize, Working
<1>2. Types'
    BY <1>1, ChatTurnAssumption DEF TurnInv, Types, botVars, Finalize, Working, Goto, history, TasksOf, Kinds
<1>3. OnlyTurn(t) /\ OnlyAgent(a)
    BY <1>1 DEF TurnInv, Types, OnlyTurn, OnlyAgent, Finalize, Goto, history, TasksOf, Kinds
<1>4. StageOK(a)'
    BY <1>1, ChatTurnAssumption DEF TurnInv, Types, StageOK, NoTasks, Working, Finalize, Goto, history, TasksOf, Kinds
<1>5. RecordOK(t)'
    BY <1>1 DEF TurnInv, Types, botVars, StageOK, RecordOK, NoTasks, Working, Finalize, Goto, history, TasksOf, Kinds
<1>6. /\ turn'[a] \in {t, NoTurn}
      /\ answer[t] = "kept" => answer'[t] = "kept"
      /\ UNCHANGED <<botVars, queue, before>>
    BY <1>1 DEF TurnInv, Types, botVars, Finalize, StageOK, Working, Goto, history, TasksOf, Kinds
<1>7. Open(t)' => Has(a, t)'
    BY <1>1 DEF TurnInv, Types, StageOK, Open, Has, Working, Finalize, Goto, history, TasksOf, Kinds
<1>8. QED BY <1>1, <1>2, <1>3, <1>4, <1>5, <1>6, <1>7, AgentStep

LEMMA CommitTurns == \A a \in Agents : TurnInv /\ Commit(a) => TurnInv'
<1> SUFFICES ASSUME NEW a \in Agents, TurnInv, Commit(a) PROVE TurnInv'
    OBVIOUS
<1>1. PICK t \in Turns : turn[a] = t /\ t # NoTurn /\ StageOK(a) /\ RecordOK(t)
    BY AtWork DEF Commit, Working
<1>2. Types'
    BY <1>1, ChatTurnAssumption DEF TurnInv, Types, botVars, Commit, Working, Goto, history, EndRows
<1>3. OnlyTurn(t) /\ OnlyAgent(a)
    BY <1>1 DEF TurnInv, Types, OnlyTurn, OnlyAgent, Commit, Goto, history, EndRows
<1>4. StageOK(a)'
    BY <1>1, ChatTurnAssumption DEF TurnInv, Types, StageOK, NoTasks, Working, Commit, Goto, history, EndRows
<1>5. RecordOK(t)'
    BY <1>1 DEF TurnInv, Types, botVars, StageOK, RecordOK, NoTasks, Working, Commit, Goto, history, EndRows
<1>6. /\ turn'[a] \in {t, NoTurn}
      /\ answer[t] = "kept" => answer'[t] = "kept"
      /\ UNCHANGED <<botVars, queue, before>>
    BY <1>1 DEF TurnInv, Types, botVars, Commit, StageOK, Working, Goto, history, EndRows
<1>7. Open(t)' => Has(a, t)'
    BY <1>1 DEF TurnInv, Types, StageOK, Open, Has, Working, Commit, Goto, history, EndRows
<1>8. QED BY <1>1, <1>2, <1>3, <1>4, <1>5, <1>6, <1>7, AgentStep

LEMMA FailTurns == \A a \in Agents : TurnInv /\ Fail(a) => TurnInv'
<1> SUFFICES ASSUME NEW a \in Agents, TurnInv, Fail(a) PROVE TurnInv'
    OBVIOUS
<1>1. PICK t \in Turns : turn[a] = t /\ t # NoTurn /\ StageOK(a) /\ RecordOK(t)
    BY AtWork DEF Fail, Working
<1>2. Types'
    BY <1>1, ChatTurnAssumption DEF TurnInv, Types, botVars, Fail, Working, Goto, history, EndRows, Rest
<1>3. OnlyTurn(t) /\ OnlyAgent(a)
    BY <1>1 DEF TurnInv, Types, OnlyTurn, OnlyAgent, Fail, Goto, history, EndRows, Rest
<1>4. StageOK(a)'
    BY <1>1, ChatTurnAssumption DEF TurnInv, Types, StageOK, NoTasks, Working, Fail, Goto, history, EndRows, Rest
<1>5. RecordOK(t)'
    BY <1>1 DEF TurnInv, Types, botVars, StageOK, RecordOK, NoTasks, Working, Fail, Goto, history, EndRows, Rest
<1>6. /\ turn'[a] \in {t, NoTurn}
      /\ answer[t] = "kept" => answer'[t] = "kept"
      /\ UNCHANGED <<botVars, queue, before>>
    BY <1>1 DEF TurnInv, Types, botVars, Fail, StageOK, Working, Goto, history, EndRows, Rest
<1>7. Open(t)' => Has(a, t)'
    BY <1>1 DEF TurnInv, Types, StageOK, Open, Has, Working, Fail, Goto, history, EndRows, Rest
<1>8. QED BY <1>1, <1>2, <1>3, <1>4, <1>5, <1>6, <1>7, AgentStep

LEMMA ReplyTurns == \A a \in Agents : TurnInv /\ Reply(a) => TurnInv'
<1> SUFFICES ASSUME NEW a \in Agents, TurnInv, Reply(a) PROVE TurnInv'
    OBVIOUS
<1>1. PICK t \in Turns : turn[a] = t /\ t # NoTurn /\ StageOK(a) /\ RecordOK(t)
    BY AtWork DEF Reply, Working
<1>2. Types'
    BY <1>1, ChatTurnAssumption DEF TurnInv, Types, botVars, Reply, Working, Goto, Rest, rows, history
<1>3. OnlyTurn(t) /\ OnlyAgent(a)
    BY <1>1 DEF TurnInv, Types, OnlyTurn, OnlyAgent, Reply, Goto, Rest, rows, history
<1>4. StageOK(a)'
    BY <1>1, ChatTurnAssumption DEF TurnInv, Types, StageOK, NoTasks, Working, Reply, Goto, Rest, rows, history
<1>5. RecordOK(t)'
    BY <1>1 DEF TurnInv, Types, botVars, StageOK, RecordOK, NoTasks, Working, Reply, Goto, Rest, rows, history
<1>6. /\ turn'[a] \in {t, NoTurn}
      /\ answer[t] = "kept" => answer'[t] = "kept"
      /\ UNCHANGED <<botVars, queue, before>>
    BY <1>1 DEF TurnInv, Types, botVars, Reply, StageOK, Working, Goto, Rest, rows, history
<1>7. Open(t)' => Has(a, t)'
    BY <1>1 DEF TurnInv, Types, StageOK, Open, Has, Working, Reply, Goto, Rest, rows, history
<1>8. QED BY <1>1, <1>2, <1>3, <1>4, <1>5, <1>6, <1>7, AgentStep

LEMMA DieTurns == \A a \in Agents : TurnInv /\ Die(a) => TurnInv'
<1> SUFFICES ASSUME NEW a \in Agents, TurnInv, Die(a) PROVE TurnInv'
    OBVIOUS
<1>1. PICK t \in Turns : turn[a] = t /\ t # NoTurn /\ StageOK(a) /\ RecordOK(t)
    BY AtWork DEF Die, Working
<1>2. Types'
    <2>1. task' \in [Turns \X Kinds ->
                       {"none", "pending", "queued", "done", "missed", "lost"}]
        BY DEF TurnInv, Types, Die
    <2>2. /\ user' \in [Turns -> {"none", "open", "kept"}]
          /\ answer' \in [Turns -> {"none", "open", "kept"}]
          /\ result' \in [Turns -> {"none", "reply", "ignore"}]
        <3>1. CASE stage[a] = "reply"
            BY <3>1 DEF TurnInv, Types, Die, rows
        <3>2. CASE stage[a] # "reply"
            <4>1. EndRows(t, "none") /\ result' = [result EXCEPT ![t] = "none"]
                BY <1>1, <3>2 DEF Die
            <4>2. QED BY <4>1 DEF TurnInv, Types, EndRows
        <3>3. QED BY <3>1, <3>2
    <2>3. stage' \in [Agents -> {"idle", "reply"} \cup Working] /\ turn' \in [Agents -> Turns \cup {NoTurn}]
        BY <1>1 DEF TurnInv, Types, Die, Goto, Rest
    <2>4. QED BY <2>1, <2>2, <2>3 DEF TurnInv, Types, botVars, Die, history
<1>3. OnlyTurn(t) /\ OnlyAgent(a)
    BY <1>1 DEF TurnInv, Types, OnlyTurn, OnlyAgent, Die, Goto, Rest, rows, history, EndRows
<1>4. StageOK(a)'
    BY <1>1, ChatTurnAssumption DEF TurnInv, Types, StageOK, NoTasks, Working, Die, Goto, Rest, rows, history, EndRows
<1>5. RecordOK(t)'
    BY <1>1 DEF TurnInv, Types, botVars, StageOK, RecordOK, NoTasks, Working, Die, Goto, Rest, rows, history, EndRows
<1>6. /\ turn'[a] \in {t, NoTurn}
      /\ answer[t] = "kept" => answer'[t] = "kept"
      /\ UNCHANGED <<botVars, queue, before>>
    BY <1>1 DEF TurnInv, Types, botVars, Die, StageOK, Working, Goto, Rest, rows, history, EndRows
<1>7. Open(t)' => Has(a, t)'
    BY <1>1 DEF TurnInv, Types, StageOK, Open, Has, Working, Die, Goto, Rest, rows, history, EndRows
<1>8. QED BY <1>1, <1>2, <1>3, <1>4, <1>5, <1>6, <1>7, AgentStep

\* A request reaches an agent, which is the only one to have it.
LEMMA TakeTurns == \A a \in Agents : TurnInv /\ Take(a) => TurnInv'
<1> SUFFICES ASSUME NEW a \in Agents, TurnInv, Take(a) PROVE TurnInv'
    OBVIOUS
<1> USE ChatTurnAssumption DEF TurnInv
<1>1. PICK t \in Turns : t = Head(queue)
    BY DEF Take, Types
<1>2. /\ Fresh(t) /\ bot[t] # "new" /\ t # NoTurn /\ RecordOK(t)
      /\ \A i \in 1 .. Len(queue) : queue[i] = t => i = 1
    BY <1>1 DEF Take, Types, QueueOK
<1>3. /\ stage[a] = "idle" /\ turn[a] = NoTurn
      /\ stage' = [stage EXCEPT ![a] = "gate"]
      /\ turn' = [turn EXCEPT ![a] = t]
      /\ user' = [user EXCEPT ![t] = "open"]
      /\ window' = [window EXCEPT ![t] = {u \in Turns : answer[u] = "kept"}]
      /\ UNCHANGED <<botVars, answer, result, replies, task, passed, before>>
    BY <1>1 DEF Take, Goto, StageOK
<1>4. /\ queue' \in Seq(Turns) /\ Len(queue') = Len(queue) - 1
      /\ \A i \in 1 .. Len(queue') : i + 1 \in 1 .. Len(queue) /\ queue'[i] = queue[i + 1]
    BY DEF Take, Types
<1>5. Types'
    <2>1. {u \in Turns : answer[u] = "kept"} \in SUBSET Turns
        OBVIOUS
    <2>2. window' \in [Turns -> SUBSET Turns]
        BY <1>3, <2>1 DEF Types
    <2>3. "gate" \in Working
        BY DEF Working
    <2>4. QED BY <1>3, <1>4, <2>2, <2>3 DEF Types, botVars
<1>6. OpenRowsOK'
    <2> SUFFICES ASSUME NEW u \in Turns, Open(u)' PROVE \E b \in Agents : Has(b, u)'
        BY DEF OpenRowsOK
    <2>1. CASE u = t
        <3>1. Has(a, u)'
            BY <1>3, <2>1 DEF Has, Types, Working
        <3>2. QED BY <3>1
    <2>2. CASE u # t
        <3>1. Open(u)
            BY <1>3, <2>2 DEF Open, Types
        <3>2. PICK b \in Agents : Has(b, u)
            BY <3>1 DEF OpenRowsOK
        <3>3. b # a
            BY <1>3, <3>2 DEF Has
        <3>4. Has(b, u)'
            BY <1>3, <3>2, <3>3 DEF Has, Types
        <3>5. QED BY <3>4
    <2>3. QED BY <2>1, <2>2
<1>7. TypingOK'
    BY <1>3 DEF TypingOK, botVars
<1>8. QueueOK'
    <2>1. \A u \in Turns : Fresh(u) /\ u # t => Fresh(u)'
        BY <1>3 DEF Fresh, NoTasks, Types
    <2>2. \A u \in Turns : bot'[u] = "new" => Fresh(u)'
        BY <1>2, <1>3, <2>1 DEF QueueOK, botVars
    <2>3. \A i \in 1 .. Len(queue') : \A u \in Turns :
              u = queue'[i] => Fresh(u)' /\ bot'[u] # "new"
        <3> SUFFICES ASSUME NEW i \in 1 .. Len(queue'), NEW u \in Turns, u = queue'[i]
                     PROVE  Fresh(u)' /\ bot'[u] # "new"
            OBVIOUS
        <3>1. Fresh(u) /\ u # t /\ bot[u] # "new"
            BY <1>2, <1>4 DEF QueueOK
        <3>2. QED BY <1>3, <2>1, <3>1 DEF botVars
    <2>4. \A i, j \in 1 .. Len(queue') : queue'[i] = queue'[j] => i = j
        BY <1>4 DEF QueueOK
    <2>5. \A b, c \in Agents : turn'[b] = turn'[c] /\ turn'[b] # NoTurn => b = c
        BY <1>2, <1>3 DEF QueueOK, Fresh, Types
    <2>6. \A i \in 1 .. Len(queue') : queue'[i] \in Turns
        BY <1>4
    <2>7. QED BY <2>2, <2>3, <2>4, <2>5, <2>6 DEF QueueOK
<1>9. \A b \in Agents : StageOK(b)'
    <2> SUFFICES ASSUME NEW b \in Agents PROVE StageOK(b)'
        OBVIOUS
    <2>1. CASE b = a
        BY <1>2, <1>3, <2>1 DEF StageOK, Fresh, NoTasks, Types, Working
    <2>2. CASE b # a
        <3>1. turn[b] # t /\ turn'[b] = turn[b] /\ stage'[b] = stage[b]
            BY <1>2, <1>3, <2>2 DEF Fresh, Types
        <3>2. QED BY <1>3, <3>1 DEF StageOK, NoTasks, Types, Working
    <2>3. QED BY <2>1, <2>2
<1>10. \A u \in Turns : RecordOK(u)'
    <2> SUFFICES ASSUME NEW u \in Turns PROVE RecordOK(u)'
        OBVIOUS
    <2>1. before[u] \subseteq Turns
        BY DEF Types
    <2>2. CASE u = t
        BY <1>2, <1>3, <2>1, <2>2 DEF RecordOK, Fresh, NoTasks, Types, botVars
    <2>3. CASE u # t
        BY <1>3, <2>3 DEF RecordOK, Types, botVars
    <2>4. QED BY <2>2, <2>3
<1>11. QED BY <1>5, <1>6, <1>7, <1>8, <1>9, <1>10

-----------------------------------------------------------------------------
(* The bot's steps, and a request that is lost *)

LEMMA LoseRequestTurns == TurnInv /\ LoseRequest => TurnInv'
<1> SUFFICES ASSUME TurnInv, LoseRequest PROVE TurnInv'
    OBVIOUS
<1> USE DEF TurnInv, LoseRequest, botVars, agentVars, rows, history
<1>1. /\ queue' \in Seq(Turns) /\ Len(queue') = Len(queue) - 1
      /\ \A i \in 1 .. Len(queue') : i + 1 \in 1 .. Len(queue) /\ queue'[i] = queue[i + 1]
    BY DEF Types
<1>2. Types' /\ OpenRowsOK' /\ TypingOK'
    BY <1>1 DEF Types, OpenRowsOK, Open, Has, TypingOK
<1>3. QueueOK'
    <2>1. \A u : Fresh(u)' <=> Fresh(u)
        BY DEF Fresh, NoTasks
    <2>2. QED BY <1>1, <2>1 DEF QueueOK
<1>4. (\A a \in Agents : StageOK(a)') /\ (\A t \in Turns : RecordOK(t)')
    BY DEF StageOK, RecordOK, NoTasks
<1>5. QED BY <1>2, <1>3, <1>4

\* A message is asked about for the first time: its request is nowhere yet.
LEMMA AskTurns == \A t \in Turns : TurnInv /\ (Ask(t) \/ AskFails(t)) => TurnInv'
<1> SUFFICES ASSUME NEW t \in Turns, TurnInv, Ask(t) \/ AskFails(t) PROVE TurnInv'
    OBVIOUS
<1> USE DEF TurnInv
<1>1. PICK outcome \in {"waiting", "failed"} : bot' = [bot EXCEPT ![t] = outcome]
    BY DEF Ask, AskFails
<1>2. /\ bot[t] = "new"
      /\ queue' = Append(queue, t) \/ queue' = queue
      /\ before' = [before EXCEPT ![t] = Shown]
      /\ UNCHANGED <<typing, seen, agentVars, rows, result, replies, task, passed, window>>
    BY DEF Ask, AskFails
<1>3. Fresh(t) /\ RecordOK(t) /\ t \notin typing
    BY <1>2 DEF QueueOK, TypingOK
<1>4. Types'
    <2>1. Shown \in SUBSET Turns
        BY DEF Shown
    <2>2. before' \in [Turns -> SUBSET Turns]
        BY <1>2, <2>1 DEF Types
    <2>3. queue' \in Seq(Turns)
        <3>1. queue \in Seq(Turns)
            BY DEF Types
        <3>2. Append(queue, t) \in Seq(Turns)
            BY <3>1
        <3>3. QED BY <1>2, <3>1, <3>2
    <2>4. QED BY <1>1, <1>2, <2>2, <2>3 DEF Types, agentVars, rows
<1>5. TypingOK'
    BY <1>1, <1>2, <1>3 DEF TypingOK, Types
<1>6. QueueOK'
    <2>1. \A u : Fresh(u)' <=> Fresh(u)
        BY <1>2 DEF Fresh, NoTasks, agentVars, rows
    <2>2. \A i \in 1 .. Len(queue) : queue[i] \in Turns /\ queue[i] # t
        BY <1>2 DEF QueueOK, Types
    <2>3. \A u \in Turns : bot'[u] = "new" => bot[u] = "new"
        BY <1>1 DEF Types
    <2>4. \A i \in 1 .. Len(queue) : bot'[queue[i]] # "new"
        BY <2>2, <2>3 DEF QueueOK
    <2>5. \A a, b \in Agents : turn'[a] = turn'[b] /\ turn'[a] # NoTurn => a = b
        BY <1>2 DEF QueueOK, agentVars
    <2>6. CASE queue' = queue
        BY <2>1, <2>3, <2>4, <2>5, <2>6 DEF QueueOK
    <2>7. CASE queue' = Append(queue, t)
        <3>1. /\ Len(queue') = Len(queue) + 1
              /\ queue'[Len(queue) + 1] = t
              /\ \A i \in 1 .. Len(queue) : queue'[i] = queue[i]
            BY <2>7 DEF Types
        <3>2. bot'[t] # "new"
            BY <1>1 DEF Types
        <3>3. \A i \in 1 .. Len(queue') : Fresh(queue'[i]) /\ bot'[queue'[i]] # "new"
            BY <1>3, <2>4, <3>1, <3>2, SMTT(30) DEF QueueOK, Types
        <3>4. \A i, j \in 1 .. Len(queue') : queue'[i] = queue'[j] => i = j
            BY <2>2, <3>1 DEF QueueOK, Types
        <3>5. QED BY <2>1, <2>3, <2>5, <3>3, <3>4 DEF QueueOK
    <2>8. QED BY <1>2, <2>6, <2>7
<1>7. RecordOK(t)'
    <2>1. \A u \in Shown : u \in Turns /\ answer[u] = "kept"
        BY DEF Shown, RecordOK
    <2>2. QED BY <1>1, <1>2, <1>3, <2>1 DEF RecordOK, Fresh, NoTasks, Types, rows
<1>8. QED BY <1>1, <1>2, <1>4, <1>5, <1>6, <1>7, BotStep DEF Types

LEMMA HearStartedTurns == \A t \in Turns : TurnInv /\ HearStarted(t) => TurnInv'
<1> SUFFICES ASSUME NEW t \in Turns, TurnInv, HearStarted(t) PROVE TurnInv'
    OBVIOUS
<1> USE DEF TurnInv, HearStarted, history
<1>1. Types' /\ TypingOK'
    BY DEF Types, TypingOK, agentVars, rows
<1>2. QueueOK'
    BY DEF QueueOK, Fresh, NoTasks, agentVars, rows
<1>3. RecordOK(t)'
    BY DEF RecordOK, rows
<1>4. QED BY <1>1, <1>2, <1>3, BotStep

\* The wait ends: with what the reply stream holds, or without.
LEMMA EndWaitTurns ==
    ASSUME TurnInv, NEW t \in Turns, NEW outcome \in {"answered", "ignored", "failed"},
           bot[t] = "waiting", EndWait(t, outcome),
           outcome = "answered" => "reply" \in replies[t] /\ result[t] = "reply"
    PROVE  TurnInv'
<1> USE DEF TurnInv, EndWait, history
<1>1. Types' /\ TypingOK'
    BY DEF Types, TypingOK, agentVars, rows
<1>2. QueueOK'
    <2>1. \A u : Fresh(u)' <=> Fresh(u)
        BY DEF Fresh, NoTasks, agentVars, rows
    <2>2. \A u \in Turns : bot'[u] = "new" <=> bot[u] = "new"
        BY DEF Types
    <2>3. \A i \in 1 .. Len(queue) : queue[i] \in Turns
        BY DEF Types
    <2>4. QED BY <2>1, <2>2, <2>3 DEF QueueOK, agentVars
<1>3. RecordOK(t)'
    BY DEF RecordOK, rows, Types
<1>4. QED BY <1>1, <1>2, <1>3, BotStep DEF Types

LEMMA HearReplyTurns == \A t \in Turns : TurnInv /\ HearReply(t) => TurnInv'
<1> SUFFICES ASSUME NEW t \in Turns, TurnInv, HearReply(t) PROVE TurnInv'
    OBVIOUS
<1>1. CASE result[t] = "reply"
    BY <1>1, EndWaitTurns DEF HearReply
<1>2. CASE result[t] # "reply"
    BY <1>2, EndWaitTurns DEF HearReply
<1>3. QED BY <1>1, <1>2

LEMMA TimeOutTurns == \A t \in Turns : TurnInv /\ TimeOut(t) => TurnInv'
BY EndWaitTurns DEF TimeOut

-----------------------------------------------------------------------------
(* The tasks *)

LEMMA PublishTurns == \A k \in Turns \X Kinds : TurnInv /\ PublishTask(k) => TurnInv'
BY TaskStep DEF PublishTask

LEMMA RememberTurns == \A t \in Turns : TurnInv /\ Remember(t) => TurnInv'
BY TaskStep DEF Remember, Kinds

\* The row is there: the lookup before it committed it, and nobody deletes it.
LEMMA CaptionTurns == \A t \in Turns : TurnInv /\ Caption(t) => TurnInv'
<1> SUFFICES ASSUME NEW t \in Turns, TurnInv, Caption(t) PROVE TurnInv'
    OBVIOUS
<1>1. <<t, "caption">> \in Turns \X Kinds
    BY DEF Kinds
<1>2. user[t] = "kept"
    BY DEF TurnInv, RecordOK, Caption, Kinds
<1>3. QED BY <1>1, <1>2, TaskStep DEF Caption

-----------------------------------------------------------------------------

LEMMA InitTurns == Init => TurnInv
BY ChatTurnAssumption
   DEF Init, TurnInv, Types, OpenRowsOK, TypingOK, Open, Has, QueueOK, Fresh, NoTasks,
       StageOK, RecordOK, Working, Kinds

LEMMA NextTurns == TurnInv /\ [Next]_vars => TurnInv'
<1> SUFFICES ASSUME TurnInv, [Next]_vars PROVE TurnInv'
    OBVIOUS
<1>1. CASE UNCHANGED vars
    BY <1>1 DEF vars, botVars, agentVars, rows, history, TurnInv, Types, OpenRowsOK, TypingOK,
                Open, Has, QueueOK, Fresh, NoTasks, StageOK, RecordOK
<1>2. CASE Next
    BY <1>2, AskTurns, HearStartedTurns, HearReplyTurns, TimeOutTurns, RememberTurns, CaptionTurns,
       LoseRequestTurns, TakeTurns, GateIgnoresTurns, GatePassesTurns, SignalTurns, RetrieveTurns,
       ComposeTurns, FinalizeTurns, CommitTurns, FailTurns, ReplyTurns, DieTurns, PublishTurns
       DEF Next
<1>3. QED BY <1>1, <1>2

\* Whatever the number of messages, bots and agents, every reachable state
\* satisfies the invariant.
THEOREM TurnInvariant == Spec => []TurnInv
BY InitTurns, NextTurns, PTL DEF Spec

\* The variables hold what they are declared to, and an uncommitted row
\* belongs to the transaction of an agent at work on its turn.
THEOREM TurnTypes == Spec => []TypeOK
<1>1. TurnInv => TypeOK
    BY TypesSplit DEF TurnInv
<1>2. QED BY <1>1, TurnInvariant, PTL

\* Transaction boundaries of the pipeline: an answer is in the history with
\* its message, and a message alone was ignored or got past the gate.
THEOREM WholeTurns == Spec => []HistoryHoldsWholeTurns
<1>1. TurnInv => HistoryHoldsWholeTurns
    BY DEF TurnInv, RecordOK, HistoryHoldsWholeTurns
<1>2. QED BY <1>1, TurnInvariant, PTL

\* The reply is published after the commit: no failure or death leaves the
\* chat with an answer the database does not have.
THEOREM ShownAfterCommit == Spec => []ShownIsRecorded
<1>1. TurnInv => ShownIsRecorded
    BY DEF TurnInv, RecordOK, Shown, ShownIsRecorded
<1>2. QED BY <1>1, TurnInvariant, PTL

\* A session is read at ingress, after the messages it must hold were
\* committed, by any agent.
THEOREM SessionsHoldReplies == Spec => []SessionHoldsWhatWasShown
<1>1. TurnInv => SessionHoldsWhatWasShown
    BY DEF TurnInv, RecordOK, SessionHoldsWhatWasShown
<1>2. QED BY <1>1, TurnInvariant, PTL

\* TurnStarted is published by the stage after the gate.
THEOREM NoTypingBeforeGate == Spec => []TypingAfterGate
<1>1. TurnInv => TypingAfterGate
    BY DEF TurnInv, RecordOK, Types, TypingOK, TypingAfterGate
<1>2. QED BY <1>1, TurnInvariant, PTL

\* The tasks are submitted by the stage that writes the reply of a person's
\* turn, and no later stage makes it an ignored one.
THEOREM LearnedFromReplies == Spec => []OnlyRepliesAreLearned
<1>1. TurnInv => OnlyRepliesAreLearned
    BY DEF TurnInv, RecordOK, OnlyRepliesAreLearned
<1>2. QED BY <1>1, TurnInvariant, PTL

\* The row a caption is for was committed before its task existed.
THEOREM CaptionsFindRows == Spec => []CaptionFindsItsMessage
<1>1. TurnInv => CaptionFindsItsMessage
    BY DEF TurnInv, RecordOK, CaptionFindsItsMessage, Kinds
<1>2. QED BY <1>1, TurnInvariant, PTL
\* All of it at once: the story of a turn, for any number of messages, bots and
\* agents.
THEOREM TurnsStayWhole == Spec => []TurnsAreWhole
<1>1. TurnsAreWhole <=>
         /\ HistoryHoldsWholeTurns /\ ShownIsRecorded /\ SessionHoldsWhatWasShown
         /\ TypingAfterGate /\ OnlyRepliesAreLearned /\ CaptionFindsItsMessage
    BY DEF TurnsAreWhole
<1>2. QED
    BY <1>1, WholeTurns, ShownAfterCommit, SessionsHoldReplies, NoTypingBeforeGate,
       LearnedFromReplies, CaptionsFindRows, PTL
-----------------------------------------------------------------------------
(***************************************************************************)
(* FROM MESSAGES TO THE VAULT (MemoryIntake)                               *)
(***************************************************************************)

-----------------------------------------------------------------------------
Known(i) == i \in swept \cup late
Rows == stored \ HerRows

\* What a poller holds: the cursor it read passed no row in silence, and what
\* it fetched has the rows up to its end that were not committed since; the
\* windows before the next were offered.
HeldIsCovered(r) ==
    /\ \A i \in Rows : i <= sweep[r].from => Known(i)
    /\ sweep[r].at = "loaded" => sweep[r].start = 0
    /\ sweep[r].at = "windows" =>
           /\ sweep[r].got # <<>>
           /\ \A i \in Rows : i <= BatchEnd(r) /\ i > sweep[r].from =>
                  i \in ToSet(sweep[r].got) \cup late
           /\ \A k \in DOMAIN sweep[r].got : k <= sweep[r].start => sweep[r].got[k] \in swept

\* What one executor holds is newer than its mark, which is the last message
\* that was planned.
PlannedIsMarked ==
    /\ \A w \in Executors : \A i \in exec[w] : i > mark
    /\ \A i \in planned : i <= mark
    /\ NoRepeatedAnalysis

IntakeInv ==
    /\ IntakeTypeOK
    /\ PassedRowsWereOffered
    /\ \A r \in Runners : HeldIsCovered(r)
    /\ MarkedWasPlanned
    /\ OneAtATime => PlannedIsMarked

-----------------------------------------------------------------------------
(* What a cycle fetches                                                    *)

\* The next rows in the order of their ids, none left out.
LEMMA NewerThanIs ==
    ASSUME IntakeTypeOK, NEW from \in Nat, NEW got, got = NewerThan(from)
    PROVE  /\ got \in Seq(Ids)
           /\ \A i \in ToSet(got) : i \in Rows
           /\ got # <<>> => \A i \in Rows : i <= Last(got) /\ i > from => i \in ToSet(got)
<1>1. PICK S : S = {j \in Rows : j > from}
    OBVIOUS
<1>2. S \in SUBSET Ids /\ S \in SUBSET Int /\ IsFiniteSet(S)
    <2>5. MaxRow \in Nat
        BY IntakeAssumption
    <2>6. stored \subseteq Ids
        BY DEF IntakeTypeOK
    <2>7. Ids \in SUBSET Int
        BY <2>5 DEF Ids
    <2>8. S \in SUBSET Ids
        BY <1>1, <2>6 DEF Rows
    <2>1. S \in SUBSET Ids /\ S \in SUBSET Int
        BY <2>7, <2>8
    <2>2. IsFiniteSet(Ids)
        BY <2>5, FS_Interval DEF Ids
    <2>3. IsFiniteSet(S)
        BY <2>1, <2>2, FS_Subset
    <2>4. QED
        BY <2>1, <2>3
<1>3. PICK newer : newer = Ascending(S)
    OBVIOUS
<1>4. PICK n \in Nat : n = Cardinality(S)
    BY <1>2, FS_CardinalityType
<1>5. /\ newer \in [1..n -> S]
      /\ \A x \in S : \E k \in 1..n : newer[k] = x
      /\ \A i, j \in 1..n : newer[i] < newer[j] <=> i < j
    BY <1>2, <1>3, <1>4, AscendingIs
<1>6. newer \in Seq(S) /\ Len(newer) = n
    <2>1. newer \in Seq(S)
        BY <1>5
    <2>2. QED
        BY <1>5, <2>1, LenProperties
<1>15. PICK m \in Nat : m = Min({Batch, n}) /\ m <= n
    <2>1. Batch \in Nat
        BY IntakeAssumption
    <2>2. {Batch, n} \in SUBSET Nat /\ {Batch, n} # {}
        BY <2>1
    <2>3. Min({Batch, n}) \in {Batch, n} /\ \A k \in {Batch, n} : Min({Batch, n}) <= k
        BY <2>2, LeastOfNaturals
    <2>4. QED
        BY <2>1, <2>3
<1>8. got = SubSeq(newer, 1, m)
    BY <1>1, <1>3, <1>6, <1>15 DEF NewerThan, Rows
<1>7. m \in Nat /\ m <= n /\ 1..m \subseteq 1..n /\ m - 1 + 1 = m
    BY <1>15
<1>9. got \in Seq(S) /\ Len(got) = m /\ \A i \in 1..m : got[i] = newer[i]
    <2>1. \A i \in 1..m : newer[i] \in S
        BY <1>5, <1>7
    <2>2. /\ got \in Seq(S) /\ Len(got) = IF 1 <= m THEN m - 1 + 1 ELSE 0
          /\ \A i \in 1..(m - 1 + 1) : got[i] = newer[1 + i - 1]
        BY <1>8, <2>1, SubSeqProperties
    <2>3. \A i \in 1..m : 1 + i - 1 = i
        OBVIOUS
    <2>4. Len(got) = m
        BY <1>7, <2>2
    <2>5. QED
        BY <1>7, <2>2, <2>3, <2>4
<1>10. DOMAIN got = 1..m
    BY <1>9, LenProperties
<1>11. got \in Seq(Ids)
    <2>1. \A i \in 1..m : got[i] \in Ids
        BY <1>2, <1>9, ElementOfSeq
    <2>2. got = [i \in 1..m |-> got[i]]
        BY <1>9, <1>10
    <2>3. QED
        BY <1>7, <2>1, <2>2
<1>12. ASSUME NEW i \in ToSet(got) PROVE i \in Rows
    <2>1. PICK k \in 1..m : i = got[k]
        BY <1>10, <1>12 DEF ToSet
    <2>2. got[k] \in S
        BY <1>9, <2>1, ElementOfSeq
    <2>3. QED
        BY <1>1, <2>1, <2>2
<1>13. ASSUME got # <<>>, NEW i \in Rows, i <= Last(got), i > from PROVE i \in ToSet(got)
    <2>1. m > 0 /\ Last(got) = newer[m]
        <3>1. m # 0
            BY <1>9, <1>13, EmptySeq
        <3>2. m > 0 /\ m \in 1..m
            BY <1>7, <3>1
        <3>3. QED
            BY <1>9, <3>2 DEF Last
    <2>2. PICK k \in 1..n : newer[k] = i
        BY <1>1, <1>5, <1>13
    <2>3. ~(newer[m] < newer[k])
        <3>1. m \in 1..n
            BY <1>7, <2>1
        <3>2. newer[m] \in Int /\ newer[k] \in Int
            BY <1>2, <1>5, <2>2, <3>1
        <3>3. QED
            BY <1>13, <2>1, <2>2, <3>2
    <2>4. k \in 1..m
        BY <1>5, <1>7, <2>1, <2>3
    <2>5. QED
        BY <1>9, <1>10, <2>2, <2>4 DEF ToSet
<1>14. QED
    BY <1>11, <1>12, <1>13

\* The last of a row of ids.
LEMMA LastIs ==
    ASSUME NEW T, NEW s \in Seq(T), s # <<>>
    PROVE  Last(s) \in ToSet(s) /\ Last(s) \in T
<1>1. Len(s) \in Nat /\ DOMAIN s = 1..Len(s) /\ Len(s) # 0
    BY LenProperties, EmptySeq
<1>2. Len(s) \in DOMAIN s
    BY <1>1
<1>3. QED
    BY <1>1, <1>2, ElementOfSeq DEF Last, ToSet

\* The window at a place: the rows after it, as many as a window has.
LEMMA WindowIs ==
    ASSUME NEW got \in Seq(Ids), NEW start \in Nat
    PROVE  /\ \A k \in DOMAIN got : k > start /\ k <= start + Window => got[k] \in ToSet(WindowAt(got, start))
           /\ ToSet(WindowAt(got, start)) \subseteq ToSet(got)
<1>1. Len(got) \in Nat /\ DOMAIN got = 1..Len(got) /\ Window \in Nat
    BY LenProperties, IntakeAssumption
<1>2. PICK end \in Nat : end = Min({start + Window, Len(got)}) /\ end <= Len(got)
                         /\ (end = start + Window \/ end = Len(got))
    <2>5. start + Window \in Nat /\ Len(got) \in Nat
        BY <1>1
    <2>1. PICK a, b \in Nat : a = start + Window /\ b = Len(got)
        BY <2>5
    <2>2. {a, b} \in SUBSET Nat /\ {a, b} # {}
        OBVIOUS
    <2>3. Min({a, b}) \in {a, b} /\ \A k \in {a, b} : Min({a, b}) <= k
        BY <2>2, LeastOfNaturals
    <2>4. QED
        BY <2>1, <2>3
<1>3. PICK win : win = SubSeq(got, start + 1, end)
    OBVIOUS
<1>4. WindowAt(got, start) = win
    BY <1>2, <1>3 DEF WindowAt
<1>5. \A k \in (start + 1)..end : got[k] \in Ids
    BY <1>1, <1>2, ElementOfSeq
<1>6. /\ win \in Seq(Ids)
      /\ Len(win) = IF start + 1 <= end THEN end - (start + 1) + 1 ELSE 0
      /\ \A k \in 1..(end - (start + 1) + 1) : win[k] = got[start + 1 + k - 1]
    BY <1>3, <1>5, SubSeqProperties
<1>7. DOMAIN win = 1..Len(win)
    BY <1>6, LenProperties
<1>8. ASSUME NEW k \in DOMAIN got, k > start, k <= start + Window PROVE got[k] \in ToSet(win)
    <2>1. k \in Nat /\ k <= end /\ start + 1 <= end
        BY <1>1, <1>2, <1>8
    <2>2. PICK j \in Nat : j = k - start
        BY <2>1, <1>8
    <2>3. j \in 1..(end - (start + 1) + 1) /\ start + 1 + j - 1 = k
        BY <1>2, <1>8, <2>1, <2>2
    <2>4. j \in DOMAIN win /\ win[j] = got[k]
        BY <1>6, <1>7, <2>1, <2>3
    <2>5. QED
        BY <2>4 DEF ToSet
<1>9. ASSUME NEW j \in DOMAIN win PROVE win[j] \in ToSet(got)
    <2>1. j \in 1..(end - (start + 1) + 1) /\ start + 1 + j - 1 \in DOMAIN got
        BY <1>1, <1>2, <1>6, <1>7
    <2>2. QED
        BY <1>6, <2>1 DEF ToSet
<1>10. QED
    BY <1>4, <1>8, <1>9 DEF ToSet

\* The newest of some ids is one of them.
LEMMA MaxIs ==
    ASSUME NEW S \in SUBSET Ids, S # {}
    PROVE  Max(S) \in S /\ \A i \in S : i <= Max(S)
<1>1. S \in SUBSET Nat /\ \A i \in S : i <= MaxRow
    BY IntakeAssumption DEF Ids
<1>2. PICK n \in Nat : n = MaxRow
    BY IntakeAssumption
<1>3. QED
    BY <1>1, <1>2, GreatestOfNaturals

\* Neighbours are in the window that starts at the last step before them.
LEMMA StepsReachAll ==
    ASSUME NEW n \in Nat, NEW d \in Nat \ {0}
    PROVE  \E s \in 0..n : s % d = 0 /\ n < s + d
<1>1. n - (n % d) \in 0..n /\ n < n - (n % d) + d
    OBVIOUS
<1>2. (n - (n % d)) % d = 0
    <2>1. PICK q \in Int : n = d * q + (n % d)
        <3>1. n \div d \in Int /\ n = d * (n \div d) + (n % d)
            OBVIOUS
        <3>2. QED
            BY <3>1
    <2>2. PICK s \in Int : s = n - (n % d) /\ s = d * q
        <3>1. n - (n % d) \in Int /\ n - (n % d) = d * q
            BY <2>1
        <3>2. QED
            BY <3>1
    <2>3. PICK p \in Int : s = d * p + (s % d)
        <3>1. s \div d \in Int /\ s = d * (s \div d) + (s % d)
            OBVIOUS
        <3>2. QED
            BY <3>1
    <2>4. s % d \in 0..(d - 1)
        OBVIOUS
    <2>5. d * (q - p) = s % d
        <3>1. d * (q - p) = d * q - d * p
            OBVIOUS
        <3>2. d * q = d * p + (s % d) /\ d * q \in Int /\ d * p \in Int /\ s % d \in Int
            BY <2>2, <2>3, <2>4
        <3>3. QED
            BY <3>1, <3>2
    <2>6. CASE q - p = 0
        BY <2>2, <2>5, <2>6
    <2>7. CASE q - p >= 1
        <3>1. d * (q - p) >= d
            BY <2>7
        <3>2. QED
            BY <2>4, <2>5, <3>1
    <2>8. CASE q - p <= -1
        <3>1. d * (q - p) <= -d
            BY <2>8
        <3>2. QED
            BY <2>4, <2>5, <3>1
    <2>9. QED
        BY <2>6, <2>7, <2>8
<1>3. QED
    BY <1>1, <1>2

LEMMA WindowsShare ==
    ASSUME NEW got \in Seq(Ids), NEW i \in DOMAIN got, i + Overlap <= Len(got), Overlap < Window
    PROVE  \E s \in {k \in 0..Len(got) : k % Step = 0} :
               ToSet(SubSeq(got, i, i + Overlap)) \subseteq ToSet(WindowAt(got, s))
<1>1. /\ Len(got) \in Nat /\ DOMAIN got = 1..Len(got) /\ i \in Nat /\ i > 0
      /\ Window \in Nat /\ Overlap \in Nat
    BY LenProperties, IntakeAssumption
<1>2. PICK d \in Nat \ {0} : d = Step /\ d = Window - Overlap
    BY <1>1 DEF Step
<1>3. i - 1 \in Nat
    BY <1>1
<1>4. PICK s \in 0..(i - 1) : s % d = 0 /\ i - 1 < s + d
    BY <1>3, StepsReachAll
<1>5. s \in {k \in 0..Len(got) : k % Step = 0}
    BY <1>1, <1>2, <1>4
<1>6. PICK piece : piece = SubSeq(got, i, i + Overlap)
    OBVIOUS
<1>7. \A k \in DOMAIN piece : \E j \in DOMAIN got : j >= i /\ j <= i + Overlap /\ piece[k] = got[j]
    <2>1. \A k \in i..(i + Overlap) : got[k] \in Ids
        BY <1>1, ElementOfSeq
    <2>2. i \in Int /\ i + Overlap \in Int
        BY <1>1
    <2>7. PICK a, b \in Int : a = i /\ b = i + Overlap
        BY <2>2
    <2>3. /\ piece \in Seq(Ids)
          /\ Len(piece) = IF a <= b THEN b - a + 1 ELSE 0
          /\ \A k \in 1..(b - a + 1) : piece[k] = got[a + k - 1]
        <3>1. \A k \in a..b : got[k] \in Ids
            BY <2>1, <2>7
        <3>2. piece = SubSeq(got, a, b)
            BY <1>6, <2>7
        <3>3. QED
            BY <3>1, <3>2, SubSeqProperties
    <2>4. DOMAIN piece = 1..(Overlap + 1)
        BY <1>1, <2>3, <2>7, LenProperties
    <2>5. \A k \in 1..(Overlap + 1) :
              /\ i + k - 1 \in DOMAIN got /\ i + k - 1 >= i /\ i + k - 1 <= i + Overlap
              /\ k \in 1..(b - a + 1)
        BY <1>1, <2>7, SMTT(20)
    <2>6. QED
        BY <2>3, <2>4, <2>5, <2>7
<1>8. ASSUME NEW k \in DOMAIN piece PROVE piece[k] \in ToSet(WindowAt(got, s))
    <2>1. PICK j \in DOMAIN got : j >= i /\ j <= i + Overlap /\ piece[k] = got[j]
        BY <1>7
    <2>2. j > s /\ j <= s + Window
        BY <1>1, <1>2, <1>4, <2>1
    <2>3. s \in Nat
        BY <1>1, <1>4
    <2>4. QED
        BY <2>1, <2>2, <2>3, WindowIs
<1>9. ToSet(piece) \subseteq ToSet(WindowAt(got, s))
    BY <1>8 DEF ToSet
<1>10. QED
    BY <1>5, <1>6, <1>9

-----------------------------------------------------------------------------
(* The steps                                                               *)

SweepRecords == [at : {"idle", "loaded", "windows"}, from : 0..MaxRow, got : Seq(Ids), start : Nat]

LEMMA RestingIs == Resting \in SweepRecords /\ Resting.at = "idle" /\ Resting.from = 0
BY IntakeAssumption DEF Resting, SweepRecords

LEMMA InitIntake == IntakeInit => IntakeInv
<1> SUFFICES ASSUME IntakeInit PROVE IntakeInv
    OBVIOUS
<1> USE DEF IntakeInit
<1>1. IntakeTypeOK
    <2>1. MaxRow \in Nat /\ MaxFails \in Nat
        BY IntakeAssumption
    <2>2. 0 \in 0..MaxRow /\ 0 \in 0..MaxFails
        BY <2>1
    <2>3. sweep \in [Runners -> SweepRecords]
        BY RestingIs
    <2>4. exec \in [Executors -> SUBSET Ids] /\ jobs \in Seq(SUBSET Ids)
        OBVIOUS
    <2>5. QED
        BY <2>2, <2>3, <2>4 DEF IntakeTypeOK, SweepRecords
<1>2. PassedRowsWereOffered /\ \A r \in Runners : HeldIsCovered(r)
    BY RestingIs DEF PassedRowsWereOffered, HeldIsCovered, Rows
<1>3. MarkedWasPlanned /\ PlannedIsMarked
    BY DEF MarkedWasPlanned, PlannedIsMarked, NoRepeatedAnalysis
<1>4. QED
    BY <1>1, <1>2, <1>3 DEF IntakeInv

\* A poller that takes no step holds what it held.
LEMMA HeldStays ==
    ASSUME NEW q \in Runners, HeldIsCovered(q), sweep'[q] = sweep[q],
           stored' = stored, late \subseteq late', swept \subseteq swept'
    PROVE  HeldIsCovered(q)'
BY DEF HeldIsCovered, Known, Rows, BatchEnd

\* The steps of the sweep leave the jobs alone, and those of the jobs the sweep.
LEMMA ReplySideStays ==
    ASSUME UNCHANGED <<exec, mark, planned, twice>>,
           MarkedWasPlanned, OneAtATime => PlannedIsMarked
    PROVE  MarkedWasPlanned' /\ (OneAtATime => PlannedIsMarked)'
BY DEF MarkedWasPlanned, PlannedIsMarked, NoRepeatedAnalysis, OneAtATime

LEMMA SweepSideStays ==
    ASSUME UNCHANGED <<stored, cursor, sweep, swept, late>>,
           PassedRowsWereOffered, \A r \in Runners : HeldIsCovered(r)
    PROVE  PassedRowsWereOffered' /\ \A r \in Runners : HeldIsCovered(r)'
BY DEF PassedRowsWereOffered, HeldIsCovered, Known, Rows, BatchEnd

LEMMA InsertRowKeeps == IntakeInv /\ InsertRow => IntakeInv'
<1> SUFFICES ASSUME IntakeInv, InsertRow PROVE IntakeInv'
    OBVIOUS
<1> USE DEF InsertRow, sweepSide, replySide
<1>1. IntakeTypeOK'
    <2>1. MaxRow \in Nat
        BY IntakeAssumption
    <2>2. issued \in 0..MaxRow /\ issued' = issued + 1 /\ issued < MaxRow
        BY DEF IntakeInv, IntakeTypeOK
    <2>3. issued' \in 0..MaxRow /\ issued + 1 \in Ids
        BY <2>1, <2>2 DEF Ids
    <2>4. QED
        BY <2>3 DEF IntakeInv, IntakeTypeOK
<1>2. QED
    BY <1>1, ReplySideStays, SweepSideStays DEF IntakeInv

LEMMA CommitRowKeeps ==
    \A i \in Ids, answered \in BOOLEAN : IntakeInv /\ CommitRow(i, answered) => IntakeInv'
<1> SUFFICES ASSUME NEW i \in Ids, NEW answered \in BOOLEAN, IntakeInv, CommitRow(i, answered)
             PROVE  IntakeInv'
    OBVIOUS
<1>0. /\ IntakeTypeOK /\ PassedRowsWereOffered /\ \A r \in Runners : HeldIsCovered(r)
      /\ MarkedWasPlanned /\ (OneAtATime => PlannedIsMarked)
    BY DEF IntakeInv
<1>1. /\ open' = open \ {i} /\ stored' = stored \cup {i}
      /\ late' = IF Overtaken(i) THEN late \cup {i} ELSE late
      /\ UNCHANGED <<issued, exec, mark, warm, planned, twice, cursor, sweep, swept, known, fails>>
    BY DEF CommitRow, sweepSide
<1>2. jobs' \in Seq(SUBSET Ids)
    <2>1. jobs \in Seq(SUBSET Ids) /\ stored \subseteq Ids
        BY <1>0 DEF IntakeTypeOK
    <2>2. Recent(i) \in SUBSET Ids
        BY <2>1 DEF Recent
    <2>3. PICK job \in SUBSET Ids : job = Recent(i)
        BY <2>2
    <2>4. Append(jobs, job) \in Seq(SUBSET Ids)
        BY <2>1, AppendProperties
    <2>5. jobs' = jobs \/ jobs' = Append(jobs, job)
        BY <2>3 DEF CommitRow, SubmitJob
    <2>6. QED
        BY <2>1, <2>4, <2>5
<1>3. IntakeTypeOK'
    BY <1>0, <1>1, <1>2 DEF IntakeTypeOK
<1>4. PassedRowsWereOffered'
    BY <1>0, <1>1 DEF PassedRowsWereOffered, Overtaken
<1>5. ASSUME NEW r \in Runners PROVE HeldIsCovered(r)'
    <2>1. PICK e \in SweepRecords : e = sweep[r] /\ e = sweep'[r]
        BY <1>0, <1>1 DEF IntakeTypeOK, SweepRecords
    <2>2. /\ \A j \in Rows : j <= e.from => Known(j)
          /\ e.at = "loaded" => e.start = 0
          /\ e.at = "windows" =>
                 /\ e.got # <<>>
                 /\ \A j \in Rows : j <= Last(e.got) /\ j > e.from => j \in ToSet(e.got) \cup late
                 /\ \A k \in DOMAIN e.got : k <= e.start => e.got[k] \in swept
        BY <1>0, <2>1 DEF HeldIsCovered, BatchEnd
    <2>3. i \in late' \/ /\ ~(i <= e.from)
                         /\ e.at = "windows" => ~(i < Last(e.got))
        BY <1>1, <2>1 DEF Overtaken, BatchEnd
    <2>4. late \subseteq late' /\ Rows' \subseteq Rows \cup {i} /\ swept' = swept
        BY <1>1 DEF Rows
    <2>5. \A j \in Rows' : j <= e.from => j \in swept' \cup late'
        BY <2>2, <2>3, <2>4 DEF Known
    <2>6. ASSUME e.at = "windows", NEW j \in Rows', j <= Last(e.got), j > e.from
          PROVE  j \in ToSet(e.got) \cup late'
        <3>1. CASE j \in Rows
            BY <2>2, <2>4, <2>6, <3>1
        <3>2. CASE j = i
            <4>1. e.got \in Seq(Ids) /\ e.got # <<>>
                BY <2>2, <2>6 DEF SweepRecords
            <4>2. Last(e.got) \in ToSet(e.got) /\ Last(e.got) \in Ids
                BY <4>1, LastIs
            <4>3. i \in Int /\ Last(e.got) \in Int
                BY <4>2, IntakeAssumption DEF Ids
            <4>4. i \in late' \/ i = Last(e.got)
                BY <2>3, <2>6, <3>2, <4>3
            <4>5. QED
                BY <3>2, <4>2, <4>4
        <3>3. QED
            BY <2>4, <3>1, <3>2
    <2>7. QED
        BY <2>1, <2>2, <2>4, <2>5, <2>6 DEF HeldIsCovered, Known, BatchEnd
<1>6. MarkedWasPlanned' /\ (OneAtATime => PlannedIsMarked)'
    BY <1>0, <1>1, ReplySideStays
<1>7. QED
    BY <1>3, <1>4, <1>5, <1>6 DEF IntakeInv

LEMMA TakeJobKeeps == \A w \in Executors : IntakeInv /\ TakeJob(w) => IntakeInv'
<1> SUFFICES ASSUME NEW w \in Executors, IntakeInv, TakeJob(w) PROVE IntakeInv'
    OBVIOUS
<1>0. /\ IntakeTypeOK /\ PassedRowsWereOffered /\ \A r \in Runners : HeldIsCovered(r)
      /\ MarkedWasPlanned /\ (OneAtATime => PlannedIsMarked)
    BY DEF IntakeInv
<1>1. /\ exec[w] = {} /\ jobs # <<>> /\ jobs' = Tail(jobs)
      /\ UNCHANGED <<issued, open, stored, mark, warm, planned, twice, cursor, sweep, swept,
                     known, fails, late>>
    BY DEF TakeJob, table, sweepSide
<1>2. jobs \in Seq(SUBSET Ids) /\ exec \in [Executors -> SUBSET Ids]
    BY <1>0 DEF IntakeTypeOK
<1>3. Head(jobs) \in SUBSET Ids /\ jobs' \in Seq(SUBSET Ids)
    BY <1>1, <1>2, HeadTailProperties
<1>4. PICK new : new = NewMessages(Head(jobs))
    OBVIOUS
<1>5. new \in SUBSET Ids /\ \A i \in new : i > mark
    BY <1>3, <1>4 DEF NewMessages
<1>6. /\ exec' \in [Executors -> SUBSET Ids]
      /\ \A v \in Executors : exec'[v] = exec[v] \/ exec'[v] = new
    <2>1. exec' = exec \/ exec' = [exec EXCEPT ![w] = new]
        BY <1>4 DEF TakeJob
    <2>2. QED
        BY <1>2, <1>5, <2>1
<1>7. IntakeTypeOK'
    BY <1>0, <1>1, <1>3, <1>6 DEF IntakeTypeOK
<1>8. (OneAtATime => PlannedIsMarked)'
    <2>1. ASSUME OneAtATime PROVE \A v \in Executors : \A i \in exec'[v] : i > mark
        BY <1>0, <1>5, <1>6, <2>1 DEF PlannedIsMarked
    <2>2. QED
        BY <1>0, <1>1, <2>1 DEF PlannedIsMarked, NoRepeatedAnalysis, OneAtATime
<1>9. MarkedWasPlanned'
    BY <1>0, <1>1 DEF MarkedWasPlanned
<1>10. QED
    BY <1>0, <1>1, <1>7, <1>8, <1>9, SweepSideStays DEF IntakeInv

LEMMA PlanJobKeeps ==
    \A w \in Executors, o \in {"noplan", "unwritten", "written"} :
        IntakeInv /\ PlanJob(w, o) => IntakeInv'
<1> SUFFICES ASSUME NEW w \in Executors, NEW o \in {"noplan", "unwritten", "written"},
                    IntakeInv, PlanJob(w, o)
             PROVE  IntakeInv'
    OBVIOUS
<1>0. /\ IntakeTypeOK /\ PassedRowsWereOffered /\ \A r \in Runners : HeldIsCovered(r)
      /\ MarkedWasPlanned /\ (OneAtATime => PlannedIsMarked)
    BY DEF IntakeInv
<1>1. /\ exec[w] # {} /\ exec' = [exec EXCEPT ![w] = {}]
      /\ UNCHANGED <<issued, open, stored, jobs, cursor, sweep, swept, fails, late>>
      /\ known' = known \cup exec[w] \/ known' = known
    BY DEF PlanJob, table, sweepSide
<1>2. exec \in [Executors -> SUBSET Ids]
    BY <1>0 DEF IntakeTypeOK
<1>3. PICK read \in SUBSET Ids : read = exec[w] /\ read # {}
    BY <1>1, <1>2
<1>4. PICK m : m = Max(read)
    OBVIOUS
<1>5. m \in read /\ \A i \in read : i <= m
    BY <1>3, <1>4, MaxIs
<1>6. \/ UNCHANGED <<mark, warm, planned, twice>>
      \/ /\ mark' = m /\ warm' = HasCooldown
         /\ planned' = planned \cup read /\ twice' = twice \cup (planned \cap read)
    BY <1>3, <1>4 DEF PlanJob
<1>7. mark \in 0..MaxRow /\ mark' \in 0..MaxRow /\ m \in Nat /\ m > 0
    <2>1. mark \in 0..MaxRow /\ MaxRow \in Nat
        BY <1>0, IntakeAssumption DEF IntakeTypeOK
    <2>2. m \in 1..MaxRow
        BY <1>3, <1>5 DEF Ids
    <2>3. mark' = mark \/ mark' = m
        BY <1>6
    <2>4. QED
        BY <2>1, <2>2, <2>3
<1>8. warm' \in BOOLEAN
    BY <1>0, <1>6, IntakeAssumption DEF IntakeTypeOK
<1>9. IntakeTypeOK'
    <2>1. known' \subseteq Ids /\ planned' \subseteq Ids /\ twice' \subseteq Ids
        BY <1>0, <1>1, <1>3, <1>6 DEF IntakeTypeOK
    <2>2. exec' \in [Executors -> SUBSET Ids]
        BY <1>1, <1>2
    <2>3. QED
        BY <1>0, <1>1, <1>7, <1>8, <2>1, <2>2 DEF IntakeTypeOK
<1>10. MarkedWasPlanned'
    BY <1>0, <1>5, <1>6 DEF MarkedWasPlanned
<1>11. ASSUME OneAtATime PROVE PlannedIsMarked'
    <2>1. \A v \in Executors : exec'[v] = {}
        BY <1>1, <1>2, <1>11 DEF OneAtATime
    <2>2. /\ \A i \in read : i > mark
          /\ \A i \in planned : i <= mark
          /\ twice = {}
        BY <1>0, <1>3, <1>11 DEF PlannedIsMarked, NoRepeatedAnalysis
    <2>3. planned \subseteq Ids
        BY <1>0 DEF IntakeTypeOK
    <2>4. \A i \in Ids : i \in Int
        BY IntakeAssumption DEF Ids
    <2>5. planned \cap read = {}
        BY <1>7, <2>2, <2>3, <2>4
    <2>6. mark <= m
        BY <1>3, <1>5, <1>7, <2>2, <2>4
    <2>7. ASSUME NEW i \in planned' PROVE i <= mark'
        <3>1. CASE planned' = planned /\ mark' = mark
            BY <2>2, <2>7, <3>1
        <3>2. CASE mark' = m /\ planned' = planned \cup read
            <4>1. CASE i \in read
                BY <1>5, <3>2, <4>1
            <4>2. CASE i \in planned
                <5>1. i <= mark /\ i \in Int
                    BY <2>2, <2>3, <2>4, <4>2
                <5>2. QED
                    BY <1>7, <2>6, <3>2, <5>1
            <4>3. QED
                BY <2>7, <3>2, <4>1, <4>2
        <3>3. QED
            BY <1>6, <3>1, <3>2
    <2>8. twice' = {}
        BY <1>6, <2>2, <2>5
    <2>9. QED
        BY <2>1, <2>7, <2>8 DEF PlannedIsMarked, NoRepeatedAnalysis
<1>12. PassedRowsWereOffered' /\ \A r \in Runners : HeldIsCovered(r)'
    BY <1>0, <1>1, SweepSideStays
<1>13. QED
    BY <1>9, <1>10, <1>11, <1>12 DEF IntakeInv, OneAtATime

LEMMA CooldownKeeps == IntakeInv /\ CooldownEnds => IntakeInv'
<1> SUFFICES ASSUME IntakeInv, CooldownEnds PROVE IntakeInv'
    OBVIOUS
<1>1. /\ warm' = FALSE
      /\ UNCHANGED <<issued, open, stored, jobs, exec, mark, planned, twice, cursor, sweep, swept,
                     known, fails, late>>
    BY DEF CooldownEnds, table, sweepSide
<1>2. IntakeTypeOK'
    BY <1>1 DEF IntakeInv, IntakeTypeOK
<1>3. QED
    BY <1>1, <1>2, ReplySideStays, SweepSideStays DEF IntakeInv

-----------------------------------------------------------------------------
(* The sweep's steps                                                       *)

\* A step of one poller: what remains to be shown is what it holds after it.
LEMMA SweepStepKeeps ==
    ASSUME IntakeInv, NEW r \in Runners, NEW e \in SweepRecords, sweep' = [sweep EXCEPT ![r] = e],
           UNCHANGED <<table, replySide, late>>, swept \subseteq swept', swept' \subseteq Ids,
           known' \subseteq Ids, cursor' \in 0..MaxRow, fails' \in 0..MaxFails,
           \A i \in Rows : i <= cursor' => i \in swept' \cup late,
           \A i \in Rows : i <= e.from => i \in swept' \cup late,
           e.at = "loaded" => e.start = 0,
           e.at = "windows" =>
               /\ e.got # <<>>
               /\ \A i \in Rows : i <= Last(e.got) /\ i > e.from => i \in ToSet(e.got) \cup late
               /\ \A k \in DOMAIN e.got : k <= e.start => e.got[k] \in swept'
    PROVE  IntakeInv'
<1>0. /\ IntakeTypeOK /\ PassedRowsWereOffered /\ \A q \in Runners : HeldIsCovered(q)
      /\ MarkedWasPlanned /\ (OneAtATime => PlannedIsMarked)
    BY DEF IntakeInv
<1>1. UNCHANGED <<issued, open, stored, jobs, exec, mark, warm, planned, twice, late>>
    BY DEF table, replySide
<1>2. sweep \in [Runners -> SweepRecords]
    BY <1>0 DEF IntakeTypeOK, SweepRecords
<1>3. sweep' \in [Runners -> SweepRecords] /\ \A q \in Runners : sweep'[q] = IF q = r THEN e ELSE sweep[q]
    BY <1>2
<1>4. IntakeTypeOK'
    BY <1>0, <1>1, <1>3 DEF IntakeTypeOK, SweepRecords
<1>5. PassedRowsWereOffered'
    BY <1>1 DEF PassedRowsWereOffered, Rows
<1>6. ASSUME NEW q \in Runners PROVE HeldIsCovered(q)'
    <2>1. CASE q = r
        <3>1. sweep'[q] = e
            BY <1>3, <2>1
        <3>2. QED
            BY <1>1, <3>1 DEF HeldIsCovered, Known, Rows, BatchEnd
    <2>2. CASE q # r
        BY <1>0, <1>1, <1>3, <2>2, HeldStays
    <2>3. QED
        BY <2>1, <2>2
<1>7. MarkedWasPlanned' /\ (OneAtATime => PlannedIsMarked)'
    BY <1>0, <1>1, ReplySideStays
<1>8. QED
    BY <1>4, <1>5, <1>6, <1>7 DEF IntakeInv

\* What a poller holds, and the cursor, for the lemmas about its steps.
LEMMA HeldIs ==
    ASSUME IntakeInv, NEW r \in Runners, NEW e, e = sweep[r]
    PROVE  /\ e \in SweepRecords
           /\ swept \subseteq Ids /\ known \subseteq Ids
           /\ cursor \in 0..MaxRow /\ fails \in 0..MaxFails
           /\ \A i \in Rows : i <= cursor => i \in swept \cup late
           /\ \A i \in Rows : i <= e.from => i \in swept \cup late
           /\ e.at = "loaded" => e.start = 0
           /\ e.at = "windows" =>
                  /\ e.got # <<>> /\ BatchEnd(r) = Last(e.got)
                  /\ \A i \in Rows : i <= Last(e.got) /\ i > e.from => i \in ToSet(e.got) \cup late
                  /\ \A k \in DOMAIN e.got : k <= e.start => e.got[k] \in swept
BY DEF IntakeInv, IntakeTypeOK, SweepRecords, PassedRowsWereOffered, HeldIsCovered, Known, Rows, BatchEnd

\* A row has an id.
LEMMA RowsAreNumbers == IntakeTypeOK => \A i \in Rows : i \in Nat /\ i > 0 /\ i <= MaxRow
BY IntakeAssumption DEF IntakeTypeOK, Rows, Ids

\* A poller rests: whether its cycle ended, failed or died.
LEMMA RestKeeps ==
    ASSUME IntakeInv, NEW r \in Runners, SetSweep(r, Resting),
           UNCHANGED <<table, replySide, swept, late>>, known' = known,
           cursor' \in 0..MaxRow, fails' \in 0..MaxFails,
           \A i \in Rows : i <= cursor' => i \in swept \cup late
    PROVE  IntakeInv'
<1>1. PICK e \in SweepRecords : e = Resting /\ e.at = "idle" /\ e.from = 0
    BY RestingIs
<1>2. sweep' = [sweep EXCEPT ![r] = e]
    BY <1>1 DEF SetSweep
<1>3. swept \subseteq Ids /\ known \subseteq Ids
    BY DEF IntakeInv, IntakeTypeOK
<1>4. \A i \in Rows : i <= e.from => i \in swept' \cup late
    BY <1>1, RowsAreNumbers DEF IntakeInv
<1>5. QED
    BY <1>1, <1>2, <1>3, <1>4, SweepStepKeeps

LEMMA LoadCursorKeeps == \A r \in Runners : IntakeInv /\ LoadCursor(r) => IntakeInv'
<1> SUFFICES ASSUME NEW r \in Runners, IntakeInv, LoadCursor(r) PROVE IntakeInv'
    OBVIOUS
<1>1. PICK held : held = sweep[r]
    OBVIOUS
<1>2. /\ swept \subseteq Ids /\ known \subseteq Ids
      /\ cursor \in 0..MaxRow /\ fails \in 0..MaxFails
      /\ \A i \in Rows : i <= cursor => i \in swept \cup late
    BY <1>1, HeldIs
<1>3. PICK e : e = [Resting EXCEPT !.at = "loaded", !.from = cursor]
    OBVIOUS
<1>4. e \in SweepRecords /\ e.at = "loaded" /\ e.from = cursor /\ e.start = 0
    <2>1. e = [at |-> "loaded", from |-> cursor, got |-> <<>>, start |-> 0]
        BY <1>3 DEF Resting
    <2>2. QED
        BY <1>2, <2>1 DEF SweepRecords
<1>5. sweep' = [sweep EXCEPT ![r] = e] /\ UNCHANGED <<table, replySide, cursor, swept, known, fails, late>>
    BY <1>3 DEF LoadCursor, SetSweep
<1>6. QED
    BY <1>2, <1>4, <1>5, SweepStepKeeps

LEMMA FetchKeeps == \A r \in Runners : IntakeInv /\ Fetch(r) => IntakeInv'
<1> SUFFICES ASSUME NEW r \in Runners, IntakeInv, Fetch(r) PROVE IntakeInv'
    OBVIOUS
<1>1. PICK held : held = sweep[r]
    OBVIOUS
<1>2. /\ held \in SweepRecords /\ swept \subseteq Ids /\ known \subseteq Ids
      /\ cursor \in 0..MaxRow /\ fails \in 0..MaxFails
      /\ \A i \in Rows : i <= cursor => i \in swept \cup late
      /\ \A i \in Rows : i <= held.from => i \in swept \cup late
      /\ held.start = 0
    BY <1>1, HeldIs DEF Fetch
<1>3. held.from \in Nat
    BY <1>2, IntakeAssumption DEF SweepRecords
<1>4. PICK got : got = NewerThan(held.from)
    OBVIOUS
<1>5. /\ got \in Seq(Ids)
      /\ \A i \in ToSet(got) : i \in Rows
      /\ got # <<>> => \A i \in Rows : i <= Last(got) /\ i > held.from => i \in ToSet(got)
    BY <1>3, <1>4, NewerThanIs DEF IntakeInv
<1>6. UNCHANGED <<table, replySide, cursor, swept, known, fails, late>>
    BY DEF Fetch
<1>7. CASE Len(got) < Interval
    <2>1. SetSweep(r, Resting)
        BY <1>1, <1>4, <1>7 DEF Fetch
    <2>2. QED
        BY <1>2, <1>6, <2>1, RestKeeps
<1>8. CASE ~(Len(got) < Interval)
    <2>1. PICK e : e = [held EXCEPT !.at = "windows", !.got = got]
        OBVIOUS
    <2>2. sweep' = [sweep EXCEPT ![r] = e]
        BY <1>1, <1>4, <1>8, <2>1 DEF Fetch, SetSweep
    <2>3. /\ e \in SweepRecords /\ e.at = "windows" /\ e.from = held.from /\ e.got = got
          /\ e.start = held.start
        BY <1>2, <1>5, <2>1 DEF SweepRecords
    <2>4. got # <<>>
        BY <1>8, IntakeAssumption
    <2>5. \A k \in DOMAIN e.got : k <= e.start => e.got[k] \in swept'
        <3>1. \A k \in DOMAIN got : k \in Int /\ k > 0
            BY <1>5, LenProperties
        <3>2. QED
            BY <1>2, <2>3, <3>1
    <2>6. \A i \in Rows : i <= Last(e.got) /\ i > e.from => i \in ToSet(e.got) \cup late
        BY <1>5, <2>3, <2>4
    <2>7. \A i \in Rows : i <= e.from => i \in swept' \cup late
        BY <1>2, <1>6, <2>3
    <2>8. QED
        BY <1>2, <1>6, <2>2, <2>3, <2>4, <2>5, <2>6, <2>7, SweepStepKeeps
<1>9. QED
    BY <1>7, <1>8

LEMMA SweepWindowKeeps ==
    \A r \in Runners, ok \in BOOLEAN : IntakeInv /\ SweepWindow(r, ok) => IntakeInv'
<1> SUFFICES ASSUME NEW r \in Runners, NEW ok \in BOOLEAN, IntakeInv, SweepWindow(r, ok)
             PROVE  IntakeInv'
    OBVIOUS
<1>1. PICK held : held = sweep[r]
    OBVIOUS
<1>2. /\ held \in SweepRecords /\ swept \subseteq Ids /\ known \subseteq Ids
      /\ cursor \in 0..MaxRow /\ fails \in 0..MaxFails /\ held.at = "windows"
      /\ \A i \in Rows : i <= cursor => i \in swept \cup late
      /\ \A i \in Rows : i <= held.from => i \in swept \cup late
      /\ held.got # <<>>
      /\ \A i \in Rows : i <= Last(held.got) /\ i > held.from => i \in ToSet(held.got) \cup late
      /\ \A k \in DOMAIN held.got : k <= held.start => held.got[k] \in swept
    BY <1>1, HeldIs DEF SweepWindow
<1>3. held.got \in Seq(Ids) /\ held.start \in Nat
    BY <1>2 DEF SweepRecords
<1>4. PICK win : win = ToSet(WindowAt(held.got, held.start))
    OBVIOUS
<1>5. /\ \A k \in DOMAIN held.got :
             k > held.start /\ k <= held.start + Window => held.got[k] \in win
      /\ win \subseteq ToSet(held.got)
    BY <1>3, <1>4, WindowIs
<1>6. win \subseteq Ids
    BY <1>3, <1>5, ElementOfSeq, LenProperties DEF ToSet
<1>7. /\ swept' = swept \cup win /\ known' \subseteq known \cup win
      /\ UNCHANGED <<table, replySide, cursor, fails, late>>
    BY <1>1, <1>4 DEF SweepWindow
<1>8. Step \in Nat /\ Step <= Window /\ Window \in Nat
    BY IntakeAssumption DEF Step
<1>9. PICK e : e = [held EXCEPT !.start = @ + Step]
    OBVIOUS
<1>10. sweep' = [sweep EXCEPT ![r] = e]
    BY <1>1, <1>9 DEF SweepWindow, SetSweep
<1>11. /\ e \in SweepRecords /\ e.at = "windows" /\ e.from = held.from /\ e.got = held.got
       /\ e.start = held.start + Step
    BY <1>2, <1>3, <1>8, <1>9 DEF SweepRecords
<1>12. ASSUME NEW k \in DOMAIN e.got, k <= e.start PROVE e.got[k] \in swept'
    <2>1. k \in Nat /\ k \in DOMAIN held.got
        BY <1>3, <1>11, LenProperties
    <2>2. k <= held.start \/ (k > held.start /\ k <= held.start + Window)
        BY <1>3, <1>8, <1>11, <1>12, <2>1
    <2>3. QED
        BY <1>2, <1>5, <1>7, <1>11, <2>1, <2>2
<1>13. swept \subseteq swept' /\ swept' \subseteq Ids /\ known' \subseteq Ids
    BY <1>2, <1>6, <1>7
<1>14. /\ \A i \in Rows : i <= cursor' => i \in swept' \cup late
       /\ \A i \in Rows : i <= e.from => i \in swept' \cup late
       /\ \A i \in Rows : i <= Last(e.got) /\ i > e.from => i \in ToSet(e.got) \cup late
    BY <1>2, <1>7, <1>11, <1>13
<1>15. QED
    BY <1>2, <1>7, <1>10, <1>11, <1>12, <1>13, <1>14, SweepStepKeeps

LEMMA SaveCursorKeeps == \A r \in Runners : IntakeInv /\ SaveCursor(r) => IntakeInv'
<1> SUFFICES ASSUME NEW r \in Runners, IntakeInv, SaveCursor(r) PROVE IntakeInv'
    OBVIOUS
<1>1. PICK held : held = sweep[r]
    OBVIOUS
<1>2. /\ held \in SweepRecords /\ held.at = "windows"
      /\ fails \in 0..MaxFails
      /\ \A i \in Rows : i <= held.from => i \in swept \cup late
      /\ held.got # <<>> /\ BatchEnd(r) = Last(held.got)
      /\ \A i \in Rows : i <= Last(held.got) /\ i > held.from => i \in ToSet(held.got) \cup late
      /\ \A k \in DOMAIN held.got : k <= held.start => held.got[k] \in swept
    BY <1>1, HeldIs DEF SaveCursor
<1>3. held.got \in Seq(Ids) /\ held.start \in Nat /\ held.from \in 0..MaxRow
    BY <1>2 DEF SweepRecords
<1>4. /\ held.start >= Len(held.got) /\ cursor' = Last(held.got)
      /\ SetSweep(r, Resting) /\ UNCHANGED <<table, replySide, swept, known, fails, late>>
    BY <1>1, <1>2 DEF SaveCursor
<1>5. ToSet(held.got) \subseteq swept
    <2>1. DOMAIN held.got = 1..Len(held.got) /\ Len(held.got) \in Nat
        BY <1>3, LenProperties
    <2>2. \A k \in DOMAIN held.got : k <= held.start
        BY <1>3, <1>4, <2>1
    <2>3. QED
        BY <1>2, <2>2 DEF ToSet
<1>6. cursor' \in 0..MaxRow
    <2>1. Last(held.got) \in Ids
        BY <1>2, <1>3, LastIs
    <2>2. QED
        BY <1>4, <2>1, IntakeAssumption DEF Ids
<1>7. ASSUME NEW i \in Rows, i <= cursor' PROVE i \in swept \cup late
    <2>1. i \in Nat
        BY RowsAreNumbers DEF IntakeInv
    <2>2. i <= held.from \/ i > held.from
        BY <1>3, <2>1, IntakeAssumption
    <2>3. QED
        BY <1>2, <1>4, <1>5, <1>7, <2>2
<1>8. QED
    BY <1>2, <1>4, <1>6, <1>7, RestKeeps

LEMMA CycleFailsKeeps == \A r \in Runners : IntakeInv /\ CycleFails(r) => IntakeInv'
<1> SUFFICES ASSUME NEW r \in Runners, IntakeInv, CycleFails(r) PROVE IntakeInv'
    OBVIOUS
<1>1. PICK held : held = sweep[r]
    OBVIOUS
<1>2. /\ cursor \in 0..MaxRow /\ fails \in 0..MaxFails
      /\ \A i \in Rows : i <= cursor => i \in swept \cup late
    BY <1>1, HeldIs
<1>3. /\ fails < MaxFails /\ fails' = fails + 1
      /\ SetSweep(r, Resting) /\ UNCHANGED <<table, replySide, cursor, swept, known, late>>
    BY DEF CycleFails
<1>4. fails' \in 0..MaxFails
    BY <1>2, <1>3, IntakeAssumption
<1>5. QED
    BY <1>2, <1>3, <1>4, RestKeeps

LEMMA RestartKeeps == IntakeInv /\ AgentRestart => IntakeInv'
<1> SUFFICES ASSUME IntakeInv, AgentRestart PROVE IntakeInv'
    OBVIOUS
<1>0. /\ IntakeTypeOK /\ PassedRowsWereOffered /\ \A q \in Runners : HeldIsCovered(q)
    BY DEF IntakeInv
<1>1. /\ fails < MaxFails /\ fails' = fails + 1
      /\ jobs' = <<>> /\ exec' = [w \in Executors |-> {}] /\ mark' = 0 /\ warm' = FALSE
      /\ planned' = {} /\ twice' = {}
      /\ sweep' = [sweep EXCEPT ![Home] = Resting]
      /\ UNCHANGED <<issued, open, stored, cursor, swept, known, late>>
    BY DEF AgentRestart, SetSweep, table
<1>2. /\ sweep' \in [Runners -> SweepRecords]
      /\ \A q \in Runners : sweep'[q] = sweep[q] \/ sweep'[q] = Resting
    <2>1. sweep \in [Runners -> SweepRecords]
        BY <1>0 DEF IntakeTypeOK, SweepRecords
    <2>2. QED
        BY <1>1, <2>1, RestingIs
<1>3. fails' \in 0..MaxFails /\ mark' \in 0..MaxRow
    <2>1. fails \in 0..MaxFails
        BY <1>0 DEF IntakeTypeOK
    <2>2. QED
        BY <1>1, <2>1, IntakeAssumption
<1>4. exec' \in [Executors -> SUBSET Ids] /\ jobs' \in Seq(SUBSET Ids)
    BY <1>1
<1>5. IntakeTypeOK'
    BY <1>0, <1>1, <1>2, <1>3, <1>4 DEF IntakeTypeOK, SweepRecords
<1>6. PassedRowsWereOffered'
    BY <1>0, <1>1 DEF PassedRowsWereOffered
<1>7. ASSUME NEW q \in Runners PROVE HeldIsCovered(q)'
    <2>1. CASE sweep'[q] = sweep[q]
        BY <1>0, <1>1, <2>1, HeldStays
    <2>2. CASE sweep'[q] = Resting
        <3>1. \A i \in Rows' : ~(i <= Resting.from)
            BY <1>0, <1>1, RestingIs, RowsAreNumbers DEF Rows
        <3>2. QED
            BY <2>2, <3>1, RestingIs DEF HeldIsCovered
    <2>3. QED
        BY <1>2, <2>1, <2>2
<1>8. MarkedWasPlanned' /\ PlannedIsMarked'
    BY <1>1 DEF MarkedWasPlanned, PlannedIsMarked, NoRepeatedAnalysis
<1>9. QED
    BY <1>5, <1>6, <1>7, <1>8 DEF IntakeInv

LEMMA IntakeStep == IntakeInv /\ [IntakeNext]_intakeVars => IntakeInv'
<1> SUFFICES ASSUME IntakeInv, [IntakeNext]_intakeVars PROVE IntakeInv'
    OBVIOUS
<1>1. CASE IntakeNext
    BY <1>1, InsertRowKeeps, CommitRowKeeps, TakeJobKeeps, PlanJobKeeps, CooldownKeeps,
       LoadCursorKeeps, FetchKeeps, SweepWindowKeeps, SaveCursorKeeps, CycleFailsKeeps, RestartKeeps
       DEF IntakeNext, SweepStep
<1>2. CASE UNCHANGED intakeVars
    <2>1. UNCHANGED <<issued, open, stored, jobs, exec, mark, warm, planned, twice, cursor, sweep,
                      swept, known, fails, late>>
        BY <1>2 DEF intakeVars, table, replySide, sweepSide
    <2>2. IntakeTypeOK'
        BY <2>1 DEF IntakeInv, IntakeTypeOK
    <2>3. QED
        BY <2>1, <2>2, ReplySideStays, SweepSideStays DEF IntakeInv
<1>3. QED
    BY <1>1, <1>2

\* The invariant says what the runs check, the last part of it with one executor.
LEMMA IntakeInvMeans ==
    IntakeInv => IntakeTypeOK /\ MessagesAreReadOnce
<1> SUFFICES ASSUME IntakeInv PROVE IntakeTypeOK /\ MessagesAreReadOnce
    OBVIOUS
<1>1. NeighboursShareAWindow
    <2> SUFFICES ASSUME NEW r \in Runners, sweep[r].at = "windows",
                        NEW got, got = sweep[r].got,
                        NEW i \in DOMAIN got, i + Overlap <= Len(got), Overlap < Window
                 PROVE  \E s \in {k \in 0..Len(got) : k % Step = 0} :
                            ToSet(SubSeq(got, i, i + Overlap)) \subseteq ToSet(WindowAt(got, s))
        BY DEF NeighboursShareAWindow
    <2>1. got \in Seq(Ids)
        BY DEF IntakeInv, IntakeTypeOK
    <2>2. QED
        BY <2>1, WindowsShare
<1>2. QED
    BY <1>1 DEF IntakeInv, PlannedIsMarked, MessagesAreReadOnce

\* Whatever is committed late, fails or restarts, the invariant holds.
THEOREM IntakeInvariant == IntakeSpec => []IntakeInv
BY InitIntake, IntakeStep, PTL DEF IntakeSpec

\* The cursor passes no row in silence, the windows overlap, the mark is at a
\* message that was planned, for any number of pollers that share the cursor,
\* and, where one executor works at a time, no message is read twice.
THEOREM MessagesStayReadOnce == IntakeSpec => []MessagesAreReadOnce
<1>1. IntakeInv => MessagesAreReadOnce
    BY IntakeInvMeans
<1>2. QED
    BY <1>1, IntakeInvariant, PTL
-----------------------------------------------------------------------------
(***************************************************************************)
(* THE CARDS (VaultCards)                                                  *)
(***************************************************************************)

-----------------------------------------------------------------------------
(* Some lines of a section                                                 *)

\* The lines at some places, in an order of the places: those and no others,
\* and none twice if none was.
LEMMA TakenIs ==
    ASSUME NEW T, NEW lines \in Seq(T), NEW P \in SUBSET DOMAIN lines,
           NEW order, Orders(order, P)
    PROVE  /\ Taken(lines, InOrder(P, order)) \in Seq(T)
           /\ ToSet(Taken(lines, InOrder(P, order))) = {lines[i] : i \in P}
           /\ (\A i, j \in P : lines[i] = lines[j] => i = j)
                  => IsInjective(Taken(lines, InOrder(P, order)))
           /\ DOMAIN Taken(lines, InOrder(P, order)) = 1..Cardinality(P)
<1>1. DOMAIN lines = 1..Len(lines) /\ Len(lines) \in Nat
    BY LenProperties
<1>2. IsFiniteSet(P)
    <2>1. IsFiniteSet(1..Len(lines))
        BY <1>1, FS_Interval
    <2>2. QED
        BY <1>1, <2>1, FS_Subset
<1>3. PICK o : o = InOrder(P, order)
    OBVIOUS
<1>4. /\ Cardinality(P) \in Nat /\ o \in [1..Cardinality(P) -> P]
      /\ \A x \in P : \E k \in 1..Cardinality(P) : o[k] = x
      /\ \A i, j \in 1..Cardinality(P) : <<o[i], o[j]>> \in order <=> i < j
    BY <1>2, <1>3, InOrderIs
<1>5. PICK r : r = Taken(lines, o)
    OBVIOUS
<1>6. r = [k \in 1..Cardinality(P) |-> lines[o[k]]]
    BY <1>4, <1>5 DEF Taken
<1>7. \A k \in 1..Cardinality(P) : lines[o[k]] \in T
    BY <1>1, <1>4, ElementOfSeq
<1>8. r \in [1..Cardinality(P) -> T] /\ DOMAIN r = 1..Cardinality(P)
    BY <1>6, <1>7
<1>9. r \in Seq(T)
    BY <1>4, <1>8
<1>10. ToSet(r) = {lines[i] : i \in P}
    BY <1>4, <1>6, <1>8 DEF ToSet
<1>11. ASSUME \A i, j \in P : lines[i] = lines[j] => i = j
       PROVE  IsInjective(r)
    <2> SUFFICES ASSUME NEW i \in 1..Cardinality(P), NEW j \in 1..Cardinality(P), r[i] = r[j]
                 PROVE  i = j
        BY <1>8 DEF IsInjective
    <2>1. o[i] \in P /\ o[j] \in P /\ lines[o[i]] = lines[o[j]]
        BY <1>4, <1>6
    <2>2. o[i] = o[j]
        BY <2>1, <1>11
    <2>3. <<o[i], o[j]>> \notin order /\ <<o[j], o[i]>> \notin order
        BY <2>1, <2>2 DEF Orders
    <2>4. ~(i < j) /\ ~(j < i)
        BY <1>4, <2>3
    <2>5. QED
        BY <2>4, <1>4
<1>12. QED
    BY <1>3, <1>5, <1>8, <1>9, <1>10, <1>11

LEMMA OnlyIs ==
    ASSUME NEW T, NEW lines \in Seq(T), NEW P \in SUBSET DOMAIN lines
    PROVE  /\ Only(lines, P) \in Seq(T)
           /\ ToSet(Only(lines, P)) = {lines[i] : i \in P}
           /\ (\A i, j \in P : lines[i] = lines[j] => i = j) => IsInjective(Only(lines, P))
<1> DEFINE order == {p \in P \X P : p[1] < p[2]}
<1>1. P \in SUBSET Int
    BY LenProperties
<1>2. Orders(order, P)
    BY <1>1, NumbersOrder
<1>3. Only(lines, P) = Taken(lines, InOrder(P, order))
    BY DEF Only, Ascending
<1> HIDE DEF order
<1>4. PICK r : r = Taken(lines, InOrder(P, order))
    OBVIOUS
<1>5. /\ r \in Seq(T) /\ ToSet(r) = {lines[i] : i \in P}
      /\ (\A i, j \in P : lines[i] = lines[j] => i = j) => IsInjective(r)
    BY <1>2, <1>4, TakenIs
<1>6. QED
    BY <1>3, <1>4, <1>5

LEMMA OlderOrders ==
    ASSUME NEW lines \in Seq(NoteLines), NEW P \in SUBSET Dated(lines)
    PROVE  Orders(Older(lines), P)
<1>1. \A i \in Dated(lines) : i \in Nat /\ lines[i].day \in Nat
    <2> SUFFICES ASSUME NEW i \in Dated(lines) PROVE i \in Nat /\ lines[i].day \in Nat
        OBVIOUS
    <2>1. i \in 1..Len(lines) /\ Len(lines) \in Nat /\ lines[i].day # Undated
        BY LenProperties DEF Dated
    <2>2. lines[i] \in NoteLines
        BY <2>1, ElementOfSeq
    <2>3. QED
        BY <2>1, <2>2, CardsAssumption DEF NoteLines
<1>2. \A i, j \in Dated(lines) :
          <<i, j>> \in Older(lines) <=> \/ lines[i].day < lines[j].day
                                        \/ lines[i].day = lines[j].day /\ i < j
    BY DEF Older
<1>3. ASSUME NEW x \in P PROVE <<x, x>> \notin Older(lines)
    BY <1>1, <1>2
<1>4. ASSUME NEW x \in P, NEW y \in P, x # y
      PROVE  <<x, y>> \in Older(lines) \/ <<y, x>> \in Older(lines)
    BY <1>1, <1>2, <1>4
<1>5. ASSUME NEW x \in P, NEW y \in P, NEW z \in P,
             <<x, y>> \in Older(lines), <<y, z>> \in Older(lines)
      PROVE  <<x, z>> \in Older(lines)
    <2>1. /\ x \in Nat /\ y \in Nat /\ z \in Nat
          /\ lines[x].day \in Nat /\ lines[y].day \in Nat /\ lines[z].day \in Nat
        BY <1>1
    <2>6. x \in Dated(lines) /\ y \in Dated(lines) /\ z \in Dated(lines)
        OBVIOUS
    <2>2. lines[x].day < lines[y].day \/ (lines[x].day = lines[y].day /\ x < y)
        BY <1>2, <1>5, <2>6
    <2>3. lines[y].day < lines[z].day \/ (lines[y].day = lines[z].day /\ y < z)
        BY <1>2, <1>5, <2>6
    <2>4. lines[x].day < lines[z].day \/ (lines[x].day = lines[z].day /\ x < z)
        BY <2>1, <2>2, <2>3
    <2>5. QED
        BY <1>2, <2>4
<1>6. QED
    BY <1>3, <1>4, <1>5 DEF Orders

\* Two sections joined.
LEMMA JoinedIs ==
    ASSUME NEW T, NEW s \in Seq(T), NEW t \in Seq(T)
    PROVE  /\ s \o t \in Seq(T)
           /\ ToSet(s \o t) = ToSet(s) \cup ToSet(t)
           /\ IsInjective(s) /\ IsInjective(t) /\ ToSet(s) \cap ToSet(t) = {}
                  => IsInjective(s \o t)
<1>1. /\ s \o t \in Seq(T) /\ Len(s \o t) = Len(s) + Len(t)
      /\ \A i \in 1..Len(s) + Len(t) : (s \o t)[i] = IF i <= Len(s) THEN s[i] ELSE t[i - Len(s)]
    BY ConcatProperties
<1>2. Len(s) \in Nat /\ Len(t) \in Nat /\ DOMAIN s = 1..Len(s) /\ DOMAIN t = 1..Len(t)
    BY LenProperties
<1>3. PICK r : r = s \o t
    OBVIOUS
<1>4. DOMAIN r = 1..(Len(s) + Len(t))
    BY <1>1, <1>3, LenProperties
<1>5. \A i \in DOMAIN s : i \in DOMAIN r /\ r[i] = s[i]
    BY <1>1, <1>2, <1>3, <1>4
<1>6. \A i \in DOMAIN t : i + Len(s) \in DOMAIN r /\ r[i + Len(s)] = t[i]
    BY <1>1, <1>2, <1>3, <1>4
<1>7. \A i \in DOMAIN r : i \notin DOMAIN s => i - Len(s) \in DOMAIN t /\ r[i] = t[i - Len(s)]
    BY <1>1, <1>2, <1>3, <1>4
<1>8. ToSet(r) = ToSet(s) \cup ToSet(t)
    <2>1. ToSet(r) \subseteq ToSet(s) \cup ToSet(t)
        BY <1>5, <1>7 DEF ToSet
    <2>2. ToSet(s) \cup ToSet(t) \subseteq ToSet(r)
        BY <1>5, <1>6 DEF ToSet
    <2>3. QED
        BY <2>1, <2>2
<1>9. ASSUME IsInjective(s), IsInjective(t), ToSet(s) \cap ToSet(t) = {}
      PROVE  IsInjective(r)
    <2> SUFFICES ASSUME NEW i \in DOMAIN r, NEW j \in DOMAIN r, r[i] = r[j] PROVE i = j
        BY DEF IsInjective
    <2>1. CASE i \in DOMAIN s /\ j \in DOMAIN s
        BY <1>5, <1>9, <2>1 DEF IsInjective
    <2>2. CASE i \notin DOMAIN s /\ j \notin DOMAIN s
        <3>1. i - Len(s) = j - Len(s)
            BY <1>7, <1>9, <2>2 DEF IsInjective
        <3>2. QED
            BY <3>1, <1>2, <1>4
    <2>3. \A k \in DOMAIN r : k \in DOMAIN s => r[k] \in ToSet(s)
        BY <1>5 DEF ToSet
    <2>4. \A k \in DOMAIN r : k \notin DOMAIN s => r[k] \in ToSet(t)
        BY <1>7 DEF ToSet
    <2>5. QED
        BY <1>9, <2>1, <2>2, <2>3, <2>4
<1>10. QED
    BY <1>1, <1>3, <1>8, <1>9

\* A run of lines, and all of them in two runs.
LEMMA RunsAre ==
    ASSUME NEW T, NEW s \in Seq(T), NEW n \in 0..Len(s)
    PROVE  /\ LastOf(s, n) \in Seq(T) /\ ButLast(s, n) \in Seq(T)
           /\ ToSet(LastOf(s, n)) \cup ToSet(ButLast(s, n)) = ToSet(s)
           /\ IsInjective(s) => IsInjective(LastOf(s, n)) /\ IsInjective(ButLast(s, n))
<1>1. Len(s) \in Nat /\ DOMAIN s = 1..Len(s) /\ n \in Nat /\ n <= Len(s)
    BY LenProperties
<1>2. \A i \in 1..Len(s) : s[i] \in T
    BY ElementOfSeq
<1>3. PICK m \in Nat : m = Len(s) - n
    <2>1. Len(s) - n \in Nat
        BY <1>1
    <2>2. QED
        BY <2>1
<1>4. PICK a : a = LastOf(s, n)
    OBVIOUS
<1>5. PICK b : b = ButLast(s, n)
    OBVIOUS
<1>6. a = SubSeq(s, m + 1, Len(s)) /\ b = SubSeq(s, 1, m)
    BY <1>1, <1>3, <1>4, <1>5 DEF LastOf, ButLast
<1>7. a \in Seq(T) /\ Len(a) = n /\ \A i \in 1..n : a[i] = s[m + i]
    <2>1. \A i \in (m + 1)..Len(s) : s[i] \in T
        BY <1>1, <1>2, <1>3
    <2>2. m + 1 \in Int /\ Len(s) \in Int /\ Len(s) - (m + 1) + 1 = n
        BY <1>1, <1>3
    <2>3. /\ a \in Seq(T) /\ Len(a) = IF m + 1 <= Len(s) THEN Len(s) - (m + 1) + 1 ELSE 0
          /\ \A i \in 1..(Len(s) - (m + 1) + 1) : a[i] = s[m + 1 + i - 1]
        BY <1>6, <2>1, <2>2, SubSeqProperties
    <2>4. Len(a) = n
        BY <1>1, <1>3, <2>3
    <2>5. \A i \in 1..n : m + 1 + i - 1 = m + i
        BY <1>1
    <2>6. QED
        BY <2>2, <2>3, <2>4, <2>5
<1>8. b \in Seq(T) /\ Len(b) = m /\ \A i \in 1..m : b[i] = s[i]
    <2>1. \A i \in 1..m : s[i] \in T
        BY <1>1, <1>2, <1>3
    <2>2. /\ b \in Seq(T) /\ Len(b) = IF 1 <= m THEN m - 1 + 1 ELSE 0
          /\ \A i \in 1..(m - 1 + 1) : b[i] = s[1 + i - 1]
        BY <1>6, <2>1, SubSeqProperties
    <2>3. QED
        BY <1>3, <2>2
<1>9. DOMAIN a = 1..n /\ DOMAIN b = 1..m
    BY <1>7, <1>8, LenProperties
<1>10. ToSet(a) \cup ToSet(b) \subseteq ToSet(s)
    <2>1. \A i \in 1..n : m + i \in DOMAIN s
        BY <1>1, <1>3
    <2>2. \A i \in 1..m : i \in DOMAIN s
        BY <1>1, <1>3
    <2>3. QED
        BY <1>7, <1>8, <1>9, <2>1, <2>2 DEF ToSet
<1>11. ToSet(s) \subseteq ToSet(a) \cup ToSet(b)
    <2> SUFFICES ASSUME NEW i \in DOMAIN s PROVE s[i] \in ToSet(a) \cup ToSet(b)
        BY DEF ToSet
    <2>1. CASE i <= m
        <3>1. i \in DOMAIN b /\ b[i] = s[i]
            BY <1>1, <1>8, <1>9, <2>1
        <3>2. QED
            BY <3>1 DEF ToSet
    <2>2. CASE i > m
        <3>1. i - m \in 1..n /\ m + (i - m) = i
            BY <1>1, <1>3, <2>2
        <3>2. i - m \in DOMAIN a /\ a[i - m] = s[i]
            BY <3>1, <1>7, <1>9
        <3>3. QED
            BY <3>2 DEF ToSet
    <2>3. QED
        BY <2>1, <2>2, <1>1, <1>3
<1>12. IsInjective(s) => IsInjective(a) /\ IsInjective(b)
    <2> SUFFICES ASSUME IsInjective(s) PROVE IsInjective(a) /\ IsInjective(b)
        OBVIOUS
    <2>1. IsInjective(b)
        <3>1. \A i \in 1..m : i \in DOMAIN s
            BY <1>1, <1>3
        <3>2. QED
            BY <1>8, <1>9, <3>1 DEF IsInjective
    <2>2. IsInjective(a)
        <3> SUFFICES ASSUME NEW i \in 1..n, NEW j \in 1..n, a[i] = a[j] PROVE i = j
            BY <1>9 DEF IsInjective
        <3>1. m + i \in DOMAIN s /\ m + j \in DOMAIN s /\ s[m + i] = s[m + j]
            BY <1>1, <1>3, <1>7
        <3>2. m + i = m + j
            BY <3>1 DEF IsInjective
        <3>3. QED
            BY <3>2, <1>3
    <2>3. QED
        BY <2>1, <2>2
<1>13. QED
    BY <1>4, <1>5, <1>7, <1>8, <1>10, <1>11, <1>12

-----------------------------------------------------------------------------
(* What the compaction keeps, and what goes                                *)

\* Two parts of the lines of a section that have them all, each in its order.
Splits(lines, kept, over) ==
    /\ kept \in Seq(NoteLines) /\ over \in Seq(NoteLines)
    /\ ToSet(kept) \cup ToSet(over) = ToSet(lines)
    /\ IsInjective(lines) => IsInjective(kept) /\ IsInjective(over)

\* Dated lines, by their days.
LEMMA InDaysIs ==
    ASSUME NEW lines \in Seq(NoteLines), NEW P \in SUBSET Dated(lines)
    PROVE  /\ InDays(lines, P) \in Seq(NoteLines)
           /\ ToSet(InDays(lines, P)) = {lines[i] : i \in P}
           /\ IsInjective(lines) => IsInjective(InDays(lines, P))
<1>1. PICK older : older = Older(lines)
    OBVIOUS
<1>2. Orders(older, P)
    BY <1>1, OlderOrders
<1>3. P \in SUBSET DOMAIN lines
    BY DEF Dated
<1>4. /\ Taken(lines, InOrder(P, older)) \in Seq(NoteLines)
      /\ ToSet(Taken(lines, InOrder(P, older))) = {lines[i] : i \in P}
      /\ (\A i, j \in P : lines[i] = lines[j] => i = j)
             => IsInjective(Taken(lines, InOrder(P, older)))
    BY <1>2, <1>3, TakenIs
<1>5. IsInjective(lines) => \A i, j \in P : lines[i] = lines[j] => i = j
    BY <1>3 DEF IsInjective
<1>6. QED
    BY <1>1, <1>4, <1>5 DEF InDays

LEMMA ContextSplits ==
    ASSUME NEW lines \in Seq(NoteLines)
    PROVE  Splits(lines, CompactContext(lines).kept, CompactContext(lines).over)
<1>1. PICK dated, new, gone : dated = Dated(lines) /\ new = Newest(lines) /\ gone = dated \ new
    OBVIOUS
<1>2. dated \subseteq DOMAIN lines /\ new \subseteq dated
    BY <1>1 DEF Dated, Newest
<1>3. new \in SUBSET Dated(lines) /\ gone \in SUBSET Dated(lines)
    BY <1>1, <1>2
<1>4. PICK top, rest, over : /\ top = Only(lines, DOMAIN lines \ dated)
                             /\ rest = InDays(lines, new) /\ over = InDays(lines, gone)
    OBVIOUS
<1>7. CompactContext(lines).kept = top \o rest /\ CompactContext(lines).over = over
    BY <1>1, <1>4 DEF CompactContext, InDays
<1>8. /\ top \in Seq(NoteLines) /\ ToSet(top) = {lines[i] : i \in DOMAIN lines \ dated}
      /\ IsInjective(lines) => IsInjective(top)
    <2>1. DOMAIN lines \ dated \in SUBSET DOMAIN lines
        OBVIOUS
    <2>2. IsInjective(lines) => \A i, j \in DOMAIN lines \ dated : lines[i] = lines[j] => i = j
        BY DEF IsInjective
    <2>3. QED
        BY <1>4, <2>1, <2>2, OnlyIs
<1>9. /\ rest \in Seq(NoteLines) /\ ToSet(rest) = {lines[i] : i \in new}
      /\ IsInjective(lines) => IsInjective(rest)
    BY <1>3, <1>4, InDaysIs
<1>10. /\ over \in Seq(NoteLines) /\ ToSet(over) = {lines[i] : i \in gone}
       /\ IsInjective(lines) => IsInjective(over)
    BY <1>3, <1>4, InDaysIs
<1>11. ToSet(top) \cap ToSet(rest) = {}
    BY <1>1, <1>2, <1>8, <1>9 DEF Dated
<1>12. /\ top \o rest \in Seq(NoteLines) /\ ToSet(top \o rest) = ToSet(top) \cup ToSet(rest)
       /\ IsInjective(lines) => IsInjective(top \o rest)
    BY <1>8, <1>9, <1>11, JoinedIs, SMTT(20)
<1>13. ToSet(top \o rest) \cup ToSet(over) = ToSet(lines)
    <2>1. ToSet(lines) = {lines[i] : i \in DOMAIN lines}
        BY DEF ToSet
    <2>2. QED
        BY <1>1, <1>2, <1>8, <1>9, <1>10, <1>12, <2>1
<1>14. QED
    BY <1>7, <1>10, <1>12, <1>13 DEF Splits

\* The first of equal quotes stands for all.
LEMMA UniqueIs ==
    ASSUME NEW lines \in Seq(NoteLines)
    PROVE  /\ Unique(lines) \in Seq(NoteLines) /\ IsInjective(Unique(lines))
           /\ ToSet(Unique(lines)) = ToSet(lines)
<1> DEFINE first == {i \in DOMAIN lines : \A j \in 1..i-1 : lines[j] # lines[i]}
<1>1. DOMAIN lines = 1..Len(lines) /\ Len(lines) \in Nat
    BY LenProperties
<1>2. first \in SUBSET DOMAIN lines
    OBVIOUS
<1>3. ASSUME NEW i \in first, NEW j \in first, lines[i] = lines[j] PROVE i = j
    <2>1. i \in Nat /\ j \in Nat /\ i > 0 /\ j > 0
        BY <1>1, <1>2
    <2>2. ~(i < j)
        <3> SUFFICES ASSUME i < j PROVE FALSE
            OBVIOUS
        <3>1. i \in 1..j-1
            BY <2>1
        <3>2. QED
            BY <1>3, <3>1
    <2>3. ~(j < i)
        <3> SUFFICES ASSUME j < i PROVE FALSE
            OBVIOUS
        <3>1. j \in 1..i-1
            BY <2>1
        <3>2. QED
            BY <1>3, <3>1
    <2>4. QED
        BY <2>1, <2>2, <2>3
<1>4. ASSUME NEW i \in DOMAIN lines PROVE \E k \in first : lines[k] = lines[i]
    <2> DEFINE same == {j \in DOMAIN lines : lines[j] = lines[i]}
    <2>1. same \in SUBSET Nat /\ same # {}
        BY <1>1
    <2>2. PICK k : k = Min(same)
        OBVIOUS
    <2>3. k \in same /\ \A n \in same : k <= n
        <3> HIDE DEF same
        <3> QED
            BY <2>1, <2>2, LeastOfNaturals
    <2>4. ASSUME NEW j \in 1..k-1 PROVE lines[j] # lines[k]
        <3>1. j \in DOMAIN lines /\ j < k
            BY <1>1, <2>3
        <3>2. j \notin same
            BY <1>1, <2>3, <3>1
        <3>3. QED
            BY <2>3, <3>1, <3>2
    <2>5. k \in first /\ lines[k] = lines[i]
        BY <2>3, <2>4
    <2>6. QED
        BY <2>5
<1>5. Unique(lines) = Only(lines, first)
    BY DEF Unique
<1> HIDE DEF first
<1>6. /\ Unique(lines) \in Seq(NoteLines) /\ IsInjective(Unique(lines))
      /\ ToSet(Unique(lines)) = {lines[i] : i \in first}
    BY <1>2, <1>3, <1>5, OnlyIs
<1>7. {lines[i] : i \in first} = {lines[i] : i \in DOMAIN lines}
    BY <1>2, <1>4
<1>8. QED
    BY <1>6, <1>7 DEF ToSet

LEMMA EmptyIs == <<>> \in Seq(NoteLines) /\ ToSet(<<>>) = {} /\ IsInjective(<<>>)
BY DEF ToSet, IsInjective

LEMMA CompactedSplits ==
    ASSUME NEW text \in Notes, NEW s \in Sections
    PROVE  /\ Splits(text[s], Compacted(text, s).kept, Compacted(text, s).over)
           /\ s \notin {"context", "quotes"} => Compacted(text, s).over = <<>>
<1>1. text[s] \in Seq(NoteLines)
    BY DEF Notes
<1>2. CASE s = "context"
    <2>1. Compacted(text, s) = CompactContext(text[s])
        BY <1>2 DEF Compacted
    <2>2. QED
        BY <1>1, <1>2, <2>1, ContextSplits
<1>3. CASE s = "quotes"
    <2>1. Compacted(text, s) = CompactQuotes(text[s])
        BY <1>3 DEF Compacted
    <2>2. PICK lines \in Seq(NoteLines) : lines = text[s]
        BY <1>1
    <2>3. PICK quotes : quotes = Unique(lines)
        OBVIOUS
    <2>4. quotes \in Seq(NoteLines) /\ IsInjective(quotes) /\ ToSet(quotes) = ToSet(lines)
        BY <2>3, UniqueIs
    <2>5. CASE Len(quotes) <= QuoteLimit
        <3>1. Compacted(text, s).kept = lines /\ Compacted(text, s).over = <<>>
            BY <2>1, <2>2, <2>3, <2>5 DEF CompactQuotes
        <3>2. QED
            BY <1>3, <2>2, <3>1, EmptyIs DEF Splits
    <2>6. CASE ~(Len(quotes) <= QuoteLimit)
        <3>1. /\ Compacted(text, s).kept = LastOf(quotes, QuoteLimit)
              /\ Compacted(text, s).over = ButLast(quotes, QuoteLimit)
            BY <2>1, <2>2, <2>3, <2>6 DEF CompactQuotes
        <3>2. QuoteLimit \in 0..Len(quotes)
            BY <2>4, <2>6, CardsAssumption, LenProperties
        <3>3. /\ LastOf(quotes, QuoteLimit) \in Seq(NoteLines)
              /\ ButLast(quotes, QuoteLimit) \in Seq(NoteLines)
              /\ ToSet(LastOf(quotes, QuoteLimit)) \cup ToSet(ButLast(quotes, QuoteLimit)) = ToSet(quotes)
              /\ IsInjective(LastOf(quotes, QuoteLimit)) /\ IsInjective(ButLast(quotes, QuoteLimit))
            BY <2>4, <3>2, RunsAre
        <3>4. QED
            BY <1>3, <2>2, <2>4, <3>1, <3>3 DEF Splits
    <2>7. QED
        BY <2>5, <2>6
<1>4. CASE s \notin {"context", "quotes"}
    <2>1. Compacted(text, s).kept = text[s] /\ Compacted(text, s).over = <<>>
        BY <1>4 DEF Compacted
    <2>2. QED
        BY <1>1, <2>1, EmptyIs DEF Splits
<1>5. QED
    BY <1>2, <1>3, <1>4

\* In an order of B, the last n.
LastOnes(B, order, n) == {x \in B : Cardinality({y \in B : <<x, y>> \in order}) < n}

LEMMA LastOnesAre ==
    ASSUME NEW B, IsFiniteSet(B), NEW order, Orders(order, B), NEW n \in Nat,
           NEW last, last = LastOnes(B, order, n)
    PROVE  /\ IsFiniteSet(last) /\ Cardinality(last) \in Nat /\ Cardinality(last) <= n
           /\ \A x \in B \ last : /\ Cardinality(last) = n
                                  /\ \A y \in last : <<x, y>> \in order
<1>1. PICK after : after = {p \in B \X B : <<p[2], p[1]>> \in order}
    OBVIOUS
<1>2. \A x, y \in B : <<y, x>> \in after <=> <<x, y>> \in order
    BY <1>1
<1>3. Orders(after, B)
    BY <1>2 DEF Orders
<1>4. PICK r : r = [x \in B |-> RankOf(B, after, x)]
    OBVIOUS
<1>5. \A x \in B : r[x] = Cardinality({y \in B : <<x, y>> \in order})
    <2> SUFFICES ASSUME NEW x \in B
                 PROVE  r[x] = Cardinality({y \in B : <<x, y>> \in order})
        OBVIOUS
    <2>1. Below(B, after, x) = {y \in B : <<x, y>> \in order}
        BY <1>2 DEF Below
    <2>2. QED
        BY <1>4, <2>1 DEF RankOf
<1>6. /\ Cardinality(B) \in Nat
      /\ \A x \in B : r[x] \in 0..(Cardinality(B) - 1)
      /\ \A x, y \in B : <<x, y>> \in after <=> r[x] < r[y]
      /\ \A x, y \in B : r[x] = r[y] => x = y
    BY <1>3, <1>4, RanksAre
<1>7. last = {x \in B : r[x] < n}
    BY <1>5 DEF LastOnes
<1>8. PICK f : f = [x \in last |-> r[x]]
    OBVIOUS
<1>9. f \in Injection(last, 0..(n - 1))
    <2>1. f \in [last -> 0..(n - 1)]
        BY <1>6, <1>7, <1>8
    <2>2. \A a, b \in last : f[a] = f[b] => a = b
        BY <1>6, <1>7, <1>8
    <2>3. QED
        BY <2>1, <2>2, Fun_IsInj
<1>10. IsFiniteSet(0..(n - 1)) /\ Cardinality(0..(n - 1)) = n
    BY FS_Interval
<1>11. /\ IsFiniteSet(last) /\ Cardinality(last) <= n
       /\ Cardinality(last) = n <=> f \in Surjection(last, 0..(n - 1))
    BY <1>9, <1>10, FS_Injection
<1>12. ASSUME NEW x \in B \ last
       PROVE  Cardinality(last) = n /\ \A y \in last : <<x, y>> \in order
    <2>1. ~(r[x] < n) /\ x \in B
        BY <1>7
    <2>2. ASSUME NEW y \in last PROVE <<x, y>> \in order
        <3>1. y \in B /\ r[y] < n /\ r[x] \in Nat /\ r[y] \in Nat
            BY <1>6, <1>7, <2>1
        <3>2. r[y] < r[x]
            BY <2>1, <3>1
        <3>3. <<y, x>> \in after
            BY <1>6, <2>1, <3>1, <3>2
        <3>4. QED
            BY <1>2, <2>1, <3>1, <3>3
    <2>3. ASSUME NEW k \in 0..(n - 1) PROVE \E y \in last : f[y] = k
        <3>1. PICK m \in 1..Cardinality(B) : m = k + 1
            BY <1>6, <2>1
        <3>2. PICK y \in B : RankOf(B, after, y) = m - 1
            BY <1>3, RanksAreFull
        <3>3. r[y] = k
            BY <1>4, <3>1, <3>2
        <3>4. y \in last /\ f[y] = k
            BY <1>7, <1>8, <3>3
        <3>5. QED
            BY <3>4
    <2>4. f \in [last -> 0..(n - 1)]
        BY <1>6, <1>7, <1>8
    <2>5. f \in Surjection(last, 0..(n - 1))
        BY <2>3, <2>4, Fun_IsSurj
    <2>6. QED
        BY <1>11, <2>2, <2>5
<1>13. Cardinality(last) \in Nat
    BY <1>11, FS_CardinalityType
<1>14. QED
    BY <1>11, <1>12, <1>13

\* A bucket keeps its Limit last facts: a fact that goes is not later than any
\* of them.
LEMMA BucketsKeepTheNewest ==
    ASSUME NEW lines \in Seq(NoteLines), NEW after, after = CompactContext(lines).kept,
           NEW l, NEW here, here = SameBucket(after, l)
    PROVE  /\ Cardinality(here) <= Limit
           /\ l \in ToSet(lines) \ ToSet(after) => /\ Cardinality(here) = Limit
                                                   /\ \A i \in here : after[i].day >= l.day
<1>b. PICK b : b = BucketOf(l)
    OBVIOUS
<1>h. here = {i \in DOMAIN after : after[i].day # Undated /\ BucketOf(after[i]) = b}
    BY <1>b DEF SameBucket
<1>1. PICK dated, new, older : dated = Dated(lines) /\ new = Newest(lines) /\ older = Older(lines)
    OBVIOUS
<1>2. DOMAIN lines = 1..Len(lines) /\ Len(lines) \in Nat
    BY LenProperties
<1>3. dated \subseteq DOMAIN lines /\ new \subseteq dated
    BY <1>1 DEF Dated, Newest
<1>4. PICK top, rest : top = Only(lines, DOMAIN lines \ dated) /\ rest = InDays(lines, new)
    OBVIOUS
<1>5. after = top \o rest
    BY <1>1, <1>4 DEF CompactContext
<1>6. PICK o : o = InOrder(new, older)
    OBVIOUS
<1>7. IsFiniteSet(DOMAIN lines) /\ IsFiniteSet(dated) /\ IsFiniteSet(new)
    <2>1. IsFiniteSet(DOMAIN lines)
        BY <1>2, FS_Interval
    <2>2. dated \in SUBSET DOMAIN lines /\ new \in SUBSET DOMAIN lines
        BY <1>3
    <2>3. QED
        BY <2>1, <2>2, FS_Subset
<1>8. PICK N \in Nat : N = Cardinality(new)
    BY <1>7, FS_CardinalityType
<1>9. /\ o \in [1..N -> new]
      /\ \A x \in new : \E k \in 1..N : o[k] = x
      /\ \A i, j \in 1..N : o[i] = o[j] => i = j
    <2>1. new \in SUBSET Dated(lines)
        BY <1>1, <1>3
    <2>2. Orders(older, new)
        BY <1>1, <2>1, OlderOrders
    <2>3. /\ o \in [1..N -> new]
          /\ \A x \in new : \E k \in 1..N : o[k] = x
          /\ \A i, j \in 1..N : <<o[i], o[j]>> \in older <=> i < j
        BY <1>6, <1>7, <1>8, <2>2, InOrderIs
    <2>4. ASSUME NEW i \in 1..N, NEW j \in 1..N, o[i] = o[j] PROVE i = j
        <3>1. <<o[i], o[j]>> \notin older /\ <<o[j], o[i]>> \notin older
            BY <2>2, <2>3, <2>4 DEF Orders
        <3>2. ~(i < j) /\ ~(j < i)
            BY <2>3, <3>1
        <3>3. QED
            BY <3>2
    <2>5. QED
        BY <2>3, <2>4
<1>10. rest = [k \in 1..N |-> lines[o[k]]]
    BY <1>1, <1>4, <1>6, <1>9 DEF InDays, Taken
<1>11. top \in Seq(NoteLines) /\ ToSet(top) = {lines[i] : i \in DOMAIN lines \ dated}
    <2>1. DOMAIN lines \ dated \in SUBSET DOMAIN lines
        OBVIOUS
    <2>2. QED
        BY <1>4, <2>1, OnlyIs
<1>12. rest \in Seq(NoteLines) /\ Len(rest) = N
    <2>1. rest \in Seq(NoteLines)
        BY <1>1, <1>3, <1>4, InDaysIs
    <2>2. QED
        BY <1>10, <2>1, LenProperties
<1>13. PICK m \in Nat : m = Len(top)
    BY <1>11, LenProperties
<1>14. DOMAIN after = 1..(m + N)
       /\ \A i \in 1..(m + N) : after[i] = IF i <= m THEN top[i] ELSE rest[i - m]
    <2>1. /\ after \in Seq(NoteLines) /\ Len(after) = Len(top) + Len(rest)
          /\ \A i \in 1..(Len(top) + Len(rest)) :
                 after[i] = IF i <= Len(top) THEN top[i] ELSE rest[i - Len(top)]
        <3>1. top \in Seq(NoteLines) /\ rest \in Seq(NoteLines)
            BY <1>11, <1>12
        <3>2. /\ top \o rest \in Seq(NoteLines) /\ Len(top \o rest) = Len(top) + Len(rest)
              /\ \A i \in 1..(Len(top) + Len(rest)) :
                     (top \o rest)[i] = IF i <= Len(top) THEN top[i] ELSE rest[i - Len(top)]
            BY <3>1, ConcatProperties
        <3>3. QED
            BY <1>5, <3>2
    <2>2. DOMAIN after = 1..(m + N)
        BY <1>12, <1>13, <2>1, LenProperties
    <2>3. QED
        BY <1>12, <1>13, <2>1, <2>2
<1>15. \A i \in 1..m : after[i].day = Undated
    <2> SUFFICES ASSUME NEW i \in 1..m PROVE after[i].day = Undated
        OBVIOUS
    <2>1. top[i] \in ToSet(top)
        BY <1>11, <1>13, LenProperties DEF ToSet
    <2>2. after[i] = top[i]
        BY <1>14
    <2>3. QED
        BY <1>1, <1>11, <2>1, <2>2 DEF Dated
<1>16. PICK B : B = {j \in dated : BucketOf(lines[j]) = b}
    OBVIOUS
<1>17. PICK last : last = LastOnes(B, older, Limit)
    OBVIOUS
<1>18. last = {j \in new : BucketOf(lines[j]) = b}
    <2>1. ASSUME NEW x \in B
          PROVE  {y \in B : <<x, y>> \in older} = NewerInBucket(lines, x)
        BY <1>1, <1>16 DEF NewerInBucket
    <2>2. \A x \in B : x \in new <=> Cardinality({y \in B : <<x, y>> \in older}) < Limit
        BY <1>1, <1>16, <2>1 DEF Newest
    <2>3. QED
        BY <1>3, <1>16, <1>17, <2>2 DEF LastOnes
<1>19. /\ IsFiniteSet(last) /\ Cardinality(last) \in Nat /\ Cardinality(last) <= Limit
       /\ \A x \in B \ last : /\ Cardinality(last) = Limit
                              /\ \A y \in last : <<x, y>> \in older
    <2>1. B \in SUBSET dated /\ B \in SUBSET Dated(lines)
        BY <1>1, <1>16
    <2>2. IsFiniteSet(B)
        BY <1>7, <2>1, FS_Subset
    <2>3. Orders(older, B)
        BY <1>1, <2>1, OlderOrders
    <2>4. PICK n \in Nat : n = Limit
        BY CardsAssumption
    <2>5. /\ IsFiniteSet(last) /\ Cardinality(last) \in Nat /\ Cardinality(last) <= n
          /\ \A x \in B \ last : Cardinality(last) = n /\ \A y \in last : <<x, y>> \in older
        <3>1. last = LastOnes(B, older, n)
            BY <1>17, <2>4
        <3>2. QED
            BY <2>2, <2>3, <3>1, LastOnesAre
    <2>6. QED
        BY <2>4, <2>5
<1>20. here = {i \in (m + 1)..(m + N) : o[i - m] \in last}
    <2>1. ASSUME NEW i \in (m + 1)..(m + N)
          PROVE  /\ i - m \in 1..N /\ after[i] = lines[o[i - m]]
                 /\ o[i - m] \in new /\ after[i].day # Undated
        <3>1. i - m \in 1..N /\ i \in 1..(m + N) /\ ~(i <= m)
            OBVIOUS
        <3>2. after[i] = lines[o[i - m]] /\ o[i - m] \in new
            BY <1>9, <1>10, <1>14, <3>1
        <3>3. QED
            BY <1>1, <1>3, <3>1, <3>2 DEF Dated
    <2>2. ASSUME NEW i \in here PROVE i \in (m + 1)..(m + N) /\ o[i - m] \in last
        <3>1. i \in 1..(m + N) /\ after[i].day # Undated /\ BucketOf(after[i]) = b
            BY <1>14, <1>h
        <3>2. i \in (m + 1)..(m + N)
            BY <1>15, <3>1
        <3>3. QED
            BY <1>18, <2>1, <3>1, <3>2
    <2>3. ASSUME NEW i \in (m + 1)..(m + N), o[i - m] \in last PROVE i \in here
        <3>1. i \in 1..(m + N)
            OBVIOUS
        <3>2. BucketOf(after[i]) = b /\ after[i].day # Undated
            BY <1>18, <2>1, <2>3
        <3>3. QED
            BY <1>14, <1>h, <3>1, <3>2
    <2>4. QED
        BY <2>2, <2>3
<1>21. PICK f : f = [i \in here |-> o[i - m]]
    OBVIOUS
<1>22. Cardinality(here) = Cardinality(last)
    <2>1. f \in [here -> last]
        BY <1>20, <1>21
    <2>2. ASSUME NEW i \in here, NEW j \in here, f[i] = f[j] PROVE i = j
        <3>1. i - m \in 1..N /\ j - m \in 1..N /\ o[i - m] = o[j - m] /\ i \in Int /\ j \in Int
            BY <1>20, <1>21, <2>2
        <3>2. i - m = j - m
            BY <1>9, <3>1
        <3>3. QED
            BY <3>1, <3>2
    <2>3. ASSUME NEW x \in last PROVE \E i \in here : f[i] = x
        <3>1. PICK k \in 1..N : o[k] = x
            BY <1>9, <1>18
        <3>2. k + m \in (m + 1)..(m + N) /\ k + m - m = k
            OBVIOUS
        <3>3. PICK i : i = k + m
            OBVIOUS
        <3>4. i \in (m + 1)..(m + N) /\ o[i - m] = x
            BY <3>1, <3>2, <3>3
        <3>5. i \in here
            BY <1>20, <3>4
        <3>6. QED
            BY <1>21, <3>4, <3>5
    <2>4. f \in Bijection(here, last)
        BY <2>1, <2>2, <2>3, Fun_IsBij
    <2>5. IsFiniteSet(here)
        <3>1. IsFiniteSet((m + 1)..(m + N)) /\ here \in SUBSET ((m + 1)..(m + N))
            BY <1>20, FS_Interval
        <3>2. QED
            BY <3>1, FS_Subset
    <2>6. ExistsBijection(here, last)
        BY <2>4 DEF ExistsBijection
    <2>7. QED
        BY <2>5, <2>6, FS_Bijection
<1>23. ASSUME l \in ToSet(lines) \ ToSet(after)
       PROVE  Cardinality(here) = Limit /\ \A i \in here : after[i].day >= l.day
    <2>1. PICK x \in DOMAIN lines : lines[x] = l
        BY <1>23 DEF ToSet
    <2>2. x \in dated /\ x \notin new
        <3>1. ToSet(after) = ToSet(top) \cup ToSet(rest)
            BY <1>5, <1>11, <1>12, JoinedIs
        <3>2. x \in dated
            BY <1>11, <1>23, <2>1, <3>1
        <3>3. ToSet(rest) = {lines[i] : i \in new}
            BY <1>1, <1>3, <1>4, InDaysIs
        <3>4. QED
            BY <1>23, <2>1, <3>1, <3>2, <3>3
    <2>3. x \in B \ last
        BY <1>16, <1>18, <1>b, <2>1, <2>2
    <2>4. Cardinality(last) = Limit /\ \A y \in last : <<x, y>> \in older
        BY <1>19, <2>3
    <2>5. ASSUME NEW i \in here PROVE after[i].day >= l.day
        <3>1. PICK y \in last : y = o[i - m] /\ after[i] = lines[y]
            <4>1. i - m \in 1..N /\ i \in 1..(m + N) /\ ~(i <= m) /\ o[i - m] \in last
                BY <1>20
            <4>2. after[i] = lines[o[i - m]]
                BY <1>10, <1>14, <4>1
            <4>3. QED
                BY <4>1, <4>2
        <3>2. lines[x].day < lines[y].day \/ lines[x].day = lines[y].day
            BY <1>1, <2>4, <3>1 DEF Older
        <3>3. x \in dated /\ y \in dated
            BY <1>3, <1>18, <2>2, <3>1
        <3>4. \A j \in dated : lines[j].day \in Nat
            <4> SUFFICES ASSUME NEW j \in dated PROVE lines[j].day \in Nat
                OBVIOUS
            <4>1. j \in 1..Len(lines) /\ lines[j].day # Undated
                BY <1>1, <1>2 DEF Dated
            <4>2. lines[j] \in NoteLines
                BY <4>1, ElementOfSeq
            <4>3. QED
                BY <4>1, <4>2, CardsAssumption DEF NoteLines
        <3>5. QED
            BY <2>1, <3>1, <3>2, <3>3, <3>4
    <2>6. QED
        BY <1>22, <2>4, <2>5
<1>24. QED
    BY <1>19, <1>22, <1>23

LEMMA SameDay ==
    ASSUME today' = today, NEW note, NEW s
    PROVE  Compacted(note, s)' = Compacted(note, s)
<1>1. \A line : BucketOf(line)' = BucketOf(line)
    BY DEF BucketOf, Age
<1>2. Newest(note[s])' = Newest(note[s])
    BY <1>1 DEF Newest, NewerInBucket, Older, Dated
<1>3. CompactContext(note[s])' = CompactContext(note[s])
    BY <1>2 DEF CompactContext, InDays, Taken, Only, Older, Dated
<1>4. QED
    BY <1>3 DEF Compacted
-----------------------------------------------------------------------------
(* What a merge does to a note                                             *)

Single(note) == \A s \in Sections : IsInjective(note[s])

LEMMA InsertIs ==
    ASSUME NEW note \in Notes, NEW s \in Sections \ {"aliases"}, NEW line \in NoteLines
    PROVE  /\ Insert(note, s, line) \in Notes
           /\ LinesOf(note) \cup {line} = LinesOf(Insert(note, s, line))
           /\ Single(note) => Single(Insert(note, s, line))
<1>1. PICK lines \in Seq(NoteLines) : lines = note[s]
    BY DEF Notes
<1>2. CASE line \in UNION {ToSet(note[t]) : t \in Sections \ {"aliases"}}
    <2>1. Insert(note, s, line) = note /\ line \in LinesOf(note)
        BY <1>2 DEF Insert, LinesOf
    <2>2. QED
        BY <2>1
<1>3. CASE line \notin UNION {ToSet(note[t]) : t \in Sections \ {"aliases"}}
    <2>1. PICK more : more = <<line>> \o lines
        OBVIOUS
    <2>2. Insert(note, s, line) = [note EXCEPT ![s] = more]
        BY <1>1, <1>3, <2>1 DEF Insert
    <2>3. PICK one : one = <<line>>
        OBVIOUS
    <2>4. one \in Seq(NoteLines) /\ ToSet(one) = {line} /\ IsInjective(one)
        BY <2>3 DEF ToSet, IsInjective
    <2>11. ToSet(one) \cap ToSet(lines) = {}
        BY <1>1, <1>3, <2>4
    <2>5. /\ more \in Seq(NoteLines) /\ ToSet(more) = ToSet(lines) \cup {line}
          /\ IsInjective(lines) => IsInjective(more)
        <3>1. more = one \o lines
            BY <2>1, <2>3
        <3>2. /\ one \o lines \in Seq(NoteLines) /\ ToSet(one \o lines) = ToSet(one) \cup ToSet(lines)
              /\ IsInjective(lines) => IsInjective(one \o lines)
            BY <2>4, <2>11, JoinedIs
        <3>3. QED
            BY <2>4, <3>1, <3>2
    <2>6. PICK after : after = [note EXCEPT ![s] = more]
        OBVIOUS
    <2>7. after \in Notes /\ \A t \in Sections : after[t] = IF t = s THEN more ELSE note[t]
        BY <2>5, <2>6 DEF Notes
    <2>8. LinesOf(after) = LinesOf(note) \cup {line}
        BY <1>1, <2>5, <2>7 DEF LinesOf
    <2>9. Single(note) => Single(after)
        BY <1>1, <2>5, <2>7 DEF Single
    <2>10. QED
        BY <2>2, <2>6, <2>7, <2>8, <2>9
<1>4. QED
    BY <1>2, <1>3

LEMMA MergeAliasIs ==
    ASSUME NEW note \in Notes, NEW alias \in NoteLines
    PROVE  /\ MergeAlias(note, alias) \in Notes
           /\ LinesOf(note) \cup {alias} = LinesOf(MergeAlias(note, alias))
           /\ Single(note) => Single(MergeAlias(note, alias))
<1>1. PICK lines \in Seq(NoteLines) : lines = note["aliases"]
    BY DEF Notes, Sections
<1>2. CASE alias \in ToSet(note["aliases"])
    <2>1. MergeAlias(note, alias) = note /\ alias \in LinesOf(note)
        BY <1>2 DEF MergeAlias, LinesOf, Sections
    <2>2. QED
        BY <2>1
<1>3. CASE alias \notin ToSet(note["aliases"])
    <2>1. PICK more : more = Append(lines, alias)
        OBVIOUS
    <2>2. MergeAlias(note, alias) = [note EXCEPT !["aliases"] = more]
        BY <1>1, <1>3, <2>1 DEF MergeAlias
    <2>3. /\ more \in Seq(NoteLines) /\ ToSet(more) = ToSet(lines) \cup {alias}
          /\ IsInjective(lines) => IsInjective(more)
        <3>1. /\ more \in Seq(NoteLines) /\ Len(more) = Len(lines) + 1 /\ more[Len(lines) + 1] = alias
              /\ \A i \in 1..Len(lines) : more[i] = lines[i]
            BY <2>1, AppendProperties
        <3>2. DOMAIN more = 1..(Len(lines) + 1) /\ DOMAIN lines = 1..Len(lines) /\ Len(lines) \in Nat
            BY <3>1, LenProperties
        <3>3. ToSet(more) = ToSet(lines) \cup {alias}
            BY <3>1, <3>2 DEF ToSet
        <3>4. IsInjective(lines) => IsInjective(more)
            <4>1. \A i \in 1..Len(lines) : more[i] # alias
                BY <1>1, <1>3, <3>1, <3>2 DEF ToSet
            <4>2. QED
                BY <3>1, <3>2, <4>1 DEF IsInjective
        <3>5. QED
            BY <3>1, <3>3, <3>4
    <2>6. PICK after : after = [note EXCEPT !["aliases"] = more]
        OBVIOUS
    <2>7. after \in Notes /\ \A t \in Sections : after[t] = IF t = "aliases" THEN more ELSE note[t]
        BY <2>3, <2>6 DEF Notes
    <2>8. LinesOf(after) = LinesOf(note) \cup {alias}
        <3>1. "aliases" \in Sections
            BY DEF Sections
        <3>2. QED
            BY <1>1, <2>3, <2>7, <3>1 DEF LinesOf
    <2>9. Single(note) => Single(after)
        BY <1>1, <2>3, <2>7 DEF Single
    <2>10. QED
        BY <2>2, <2>6, <2>7, <2>8, <2>9
<1>4. QED
    BY <1>2, <1>3

LEMMA UpdateLines ==
    ASSUME CardTypeOK, NEW u \in Updates
    PROVE  LineOf(u) \in NoteLines /\ AliasLine(u) \in NoteLines
BY CardsAssumption DEF LineOf, AliasLine, NoteLines, Texts, CardTypeOK

LEMMA MergeIs ==
    ASSUME CardTypeOK, NEW note \in Notes, NEW u \in Updates
    PROVE  /\ Merge(note, u) \in Notes
           /\ LinesOf(Merge(note, u)) = LinesOf(note) \cup {LineOf(u), AliasLine(u)}
           /\ Single(note) => Single(Merge(note, u))
<1>1. PICK line, alias \in NoteLines : line = LineOf(u) /\ alias = AliasLine(u)
    BY UpdateLines
<1>2. PICK mid : mid = Insert(note, u.to, line)
    OBVIOUS
<1>3. u.to \in Sections \ {"aliases"}
    BY CardsAssumption
<1>4. mid \in Notes /\ LinesOf(note) \cup {line} = LinesOf(mid) /\ (Single(note) => Single(mid))
    BY <1>1, <1>2, <1>3, InsertIs
<1>5. /\ MergeAlias(mid, alias) \in Notes
      /\ LinesOf(mid) \cup {alias} = LinesOf(MergeAlias(mid, alias))
      /\ Single(mid) => Single(MergeAlias(mid, alias))
    BY <1>1, <1>4, MergeAliasIs
<1>6. Merge(note, u) = MergeAlias(mid, alias)
    BY <1>1, <1>2 DEF Merge
<1>7. QED
    BY <1>1, <1>4, <1>5, <1>6
-----------------------------------------------------------------------------
(* The cards                                                               *)

\* A line that the archive has, or had until an older reading was written back.
Filed(l) == l \in LinesOf(archive) \/ <<"archive", l>> \in lost
FilesMore == \A l : Filed(l) => Filed(l)'

\* What the compaction has in hand: the rest of the card is in what it keeps,
\* or is filed, or its section is still to be archived.
Busy == {"cutting", "archiving"}
CutOK(e) ==
    /\ e.kept = [s \in Sections |-> Compacted(e.note, s).kept]
    /\ \A s \in {"context", "quotes"} :
           s \in ToSet(e.due) \/ \A l \in ToSet(Compacted(e.note, s).over) : Filed(l)
    /\ e.at = "archiving" => Single(e.past) /\ \A l \in LinesOf(e.past) : Filed(l)
CutIsCovered == \A w \in Writers : work[w].at \in Busy => CutOK(work[w])

AllSingle ==
    /\ \A f \in Files : Single(notes[f])
    /\ Single(archive)
    /\ \A w \in Writers : work[w] # Idle => Single(work[w].note)

CardInv == CardTypeOK /\ CutIsCovered /\ AllSingle /\ LinesAreKept

\* The sections that the compaction cuts, one after the other.
LEMMA DueIs ==
    ASSUME NEW due \in Dues
    PROVE  /\ due # <<>> => /\ Head(due) \in {"context", "quotes"}
                            /\ Tail(due) \in Dues
                            /\ ToSet(due) = {Head(due)} \cup ToSet(Tail(due))
           /\ ToSet(<<>>) = {}
           /\ ToSet(<<"context", "quotes">>) = {"context", "quotes"}
<1>1. ToSet(<<>>) = {} /\ ToSet(<<"quotes">>) = {"quotes"}
      /\ ToSet(<<"context", "quotes">>) = {"context", "quotes"}
    BY DEF ToSet
<1>2. CASE due = <<"context", "quotes">>
    <2>1. Head(due) = "context" /\ Tail(due) = <<"quotes">>
        BY <1>2
    <2>2. QED
        BY <1>1, <1>2, <2>1 DEF Dues
<1>3. CASE due = <<"quotes">>
    <2>1. Head(due) = "quotes" /\ Tail(due) = <<>>
        BY <1>3
    <2>2. QED
        BY <1>1, <1>3, <2>1 DEF Dues
<1>4. QED
    BY <1>1, <1>2, <1>3 DEF Dues

LEMMA CardStart == CardInit => CardInv
<1> SUFFICES ASSUME CardInit PROVE CardInv
    OBVIOUS
<1> USE DEF CardInit
<1>1. EmptyNote \in Notes /\ LinesOf(EmptyNote) = {} /\ Single(EmptyNote)
    BY EmptyIs DEF EmptyNote, Notes, LinesOf, Single
<1>2. CardTypeOK
    BY <1>1, CardsAssumption DEF CardTypeOK, Efforts
<1>3. AllSingle
    BY <1>1 DEF AllSingle
<1>4. CutIsCovered
    BY DEF CutIsCovered, Busy, Idle
<1>5. LinesAreKept
    BY DEF LinesAreKept
<1>6. QED
    BY <1>2, <1>3, <1>4, <1>5 DEF CardInv

LEMMA CompactedNote ==
    ASSUME NEW note \in Notes,
           NEW kept, kept = [s \in Sections |-> Compacted(note, s).kept]
    PROVE  /\ kept \in Notes /\ (Single(note) => Single(kept))
           /\ LinesOf(note) \subseteq LinesOf(kept)
                  \cup UNION {ToSet(Compacted(note, s).over) : s \in {"context", "quotes"}}
<1>1. \A s \in Sections : Splits(note[s], kept[s], Compacted(note, s).over)
    BY CompactedSplits
<1>2. \A s \in Sections \ {"context", "quotes"} : ToSet(Compacted(note, s).over) = {}
    BY CompactedSplits, EmptyIs
<1>3. kept \in Notes
    BY <1>1 DEF Splits, Notes
<1>4. Single(note) => Single(kept)
    BY <1>1 DEF Splits, Single
<1>5. LinesOf(note) \subseteq LinesOf(kept)
          \cup UNION {ToSet(Compacted(note, s).over) : s \in {"context", "quotes"}}
    <2> SUFFICES ASSUME NEW s \in Sections, NEW line \in ToSet(note[s])
                 PROVE  \/ line \in ToSet(kept[s])
                        \/ s \in {"context", "quotes"} /\ line \in ToSet(Compacted(note, s).over)
        BY DEF LinesOf
    <2>1. line \in ToSet(kept[s]) \cup ToSet(Compacted(note, s).over)
        BY <1>1 DEF Splits
    <2>2. QED
        BY <1>2, <2>1
<1>6. QED
    BY <1>3, <1>4, <1>5

LEMMA ArchivedIs ==
    ASSUME NEW past \in Notes, NEW s \in Sections, NEW over \in Seq(NoteLines)
    PROVE  /\ Archived(past, s, over) \in Notes
           /\ LinesOf(Archived(past, s, over)) = LinesOf(past) \cup ToSet(over)
           /\ Single(past) /\ IsInjective(over) => Single(Archived(past, s, over))
<1>1. PICK lines \in Seq(NoteLines) : lines = past[s]
    BY DEF Notes
<1>2. PICK places : places = {i \in DOMAIN over : over[i] \notin LinesOf(past)}
    OBVIOUS
<1>3. PICK new : new = Only(over, places)
    OBVIOUS
<1>4. /\ new \in Seq(NoteLines) /\ ToSet(new) = {over[i] : i \in places}
      /\ IsInjective(over) => IsInjective(new)
    <2>1. places \in SUBSET DOMAIN over
        BY <1>2
    <2>2. IsInjective(over) => \A i, j \in places : over[i] = over[j] => i = j
        BY <2>1 DEF IsInjective
    <2>3. QED
        BY <1>3, <2>1, <2>2, OnlyIs
<1>5. ToSet(lines) \cap ToSet(new) = {}
    BY <1>1, <1>2, <1>4 DEF LinesOf
<1>6. PICK more : more = lines \o new
    OBVIOUS
<1>7. /\ more \in Seq(NoteLines) /\ ToSet(more) = ToSet(lines) \cup ToSet(new)
      /\ IsInjective(lines) /\ IsInjective(over) => IsInjective(more)
    <2>1. /\ lines \o new \in Seq(NoteLines) /\ ToSet(lines \o new) = ToSet(lines) \cup ToSet(new)
          /\ IsInjective(lines) /\ IsInjective(new) => IsInjective(lines \o new)
        BY <1>4, <1>5, JoinedIs
    <2>2. QED
        BY <1>4, <1>6, <2>1
<1>8. PICK after : after = [past EXCEPT ![s] = more]
    OBVIOUS
<1>9. Archived(past, s, over) = after
    BY <1>1, <1>2, <1>3, <1>6, <1>8 DEF Archived, FreshLines
<1>10. after \in Notes /\ \A t \in Sections : after[t] = IF t = s THEN more ELSE past[t]
    BY <1>7, <1>8 DEF Notes
<1>11. LinesOf(after) = LinesOf(past) \cup ToSet(over)
    <2>1. LinesOf(after) = LinesOf(past) \cup ToSet(new)
        BY <1>1, <1>7, <1>10 DEF LinesOf
    <2>2. ToSet(over) \subseteq LinesOf(past) \cup ToSet(new)
        BY <1>2, <1>4 DEF ToSet
    <2>3. ToSet(new) \subseteq ToSet(over)
        BY <1>2, <1>4 DEF ToSet
    <2>4. QED
        BY <2>1, <2>2, <2>3
<1>12. Single(past) /\ IsInjective(over) => Single(after)
    BY <1>1, <1>7, <1>10 DEF Single
<1>13. QED
    BY <1>9, <1>10, <1>11, <1>12

\* A note is written back: what came to it since it was read is lost.
LEMMA LinesAreLines == ASSUME NEW note \in Notes PROVE LinesOf(note) \subseteq NoteLines
<1>1. \A s \in Sections : ToSet(note[s]) \subseteq NoteLines
    <2> SUFFICES ASSUME NEW s \in Sections PROVE ToSet(note[s]) \subseteq NoteLines
        OBVIOUS
    <2>1. note[s] \in Seq(NoteLines)
        BY DEF Notes
    <2>2. QED
        BY <2>1, ElementOfSeq, LenProperties DEF ToSet
<1>2. QED
    BY <1>1 DEF LinesOf

LEMMA WriteBackIs ==
    ASSUME CardInv, NEW file \in Files, NEW read \in Notes, NEW body \in Notes, Single(body),
           WriteBack(file, read, body), archive' = archive,
           \A l \in LinesOf(read) : l \in LinesOf(body) \/ Filed(l)
    PROVE  /\ notes' \in [Files -> Notes] /\ lost' \subseteq (Files \cup {"archive"}) \X NoteLines
           /\ \A f \in Files : Single(notes'[f])
           /\ LinesOf(body) = LinesOf(notes'[file])
           /\ FilesMore
           /\ \A i \in DOMAIN told : \/ told[i].line \in LinesOf(notes'[told[i].file])
                                     \/ told[i].line \in LinesOf(archive')
                                     \/ <<"archive", told[i].line>> \in lost'
                                     \/ <<told[i].file, told[i].line>> \in lost'
<1>1. notes \in [Files -> Notes] /\ lost \subseteq (Files \cup {"archive"}) \X NoteLines
    BY DEF CardInv, CardTypeOK
<1>2. /\ notes' = [notes EXCEPT ![file] = body]
      /\ lost' = lost \cup ({file} \X (LinesOf(notes[file]) \ LinesOf(read)))
    BY DEF WriteBack
<1>3. LinesOf(notes[file]) \subseteq NoteLines
    BY <1>1, LinesAreLines
<1>4. /\ notes' \in [Files -> Notes]
      /\ \A f \in Files : notes'[f] = IF f = file THEN body ELSE notes[f]
    BY <1>1, <1>2
<1>5. lost' \subseteq (Files \cup {"archive"}) \X NoteLines
    BY <1>1, <1>2, <1>3
<1>6. \A f \in Files : Single(notes'[f])
    BY <1>4 DEF CardInv, AllSingle
<1>7. FilesMore
    BY <1>2 DEF FilesMore, Filed, LinesOf
<1>8. ASSUME NEW i \in DOMAIN told
      PROVE  \/ told[i].line \in LinesOf(notes'[told[i].file])
             \/ told[i].line \in LinesOf(archive')
             \/ <<"archive", told[i].line>> \in lost'
             \/ <<told[i].file, told[i].line>> \in lost'
    <2>1. PICK f, line : f = told[i].file /\ line = told[i].line
        OBVIOUS
    <2>2. line \in LinesOf(notes[f]) \/ Filed(line) \/ <<f, line>> \in lost
        BY <2>1 DEF CardInv, LinesAreKept, Filed
    <2>3. f \in Files
        <3>1. told[i] \in [file : Files, line : NoteLines]
            BY ElementOfSeq, LenProperties DEF CardInv, CardTypeOK
        <3>2. QED
            BY <2>1, <3>1
    <2>4. Filed(line) => Filed(line)'
        BY <1>7 DEF FilesMore
    <2>5. line \in LinesOf(notes'[f]) \/ Filed(line)' \/ <<f, line>> \in lost'
        <3>1. CASE f # file
            BY <1>2, <1>4, <2>2, <2>3, <2>4, <3>1
        <3>2. CASE f = file
            <4>1. CASE line \in LinesOf(notes[file]) /\ line \in LinesOf(read)
                BY <1>4, <2>3, <2>4, <3>2, <4>1
            <4>2. CASE line \in LinesOf(notes[file]) /\ line \notin LinesOf(read)
                BY <1>2, <3>2, <4>2
            <4>3. QED
                BY <1>2, <2>2, <2>4, <3>2, <4>1, <4>2
        <3>3. QED
            BY <3>1, <3>2
    <2>6. \/ line \in LinesOf(notes'[f]) \/ <<f, line>> \in lost'
          \/ line \in LinesOf(archive') \/ <<"archive", line>> \in lost'
        BY <2>5 DEF Filed, LinesOf
    <2>7. QED
        BY <2>1, <2>6
<1>9. QED
    BY <1>4, <1>5, <1>6, <1>7, <1>8

\* What is in hand is not disturbed while no day passes and nothing filed goes.
LEMMA CutStays ==
    ASSUME today' = today, FilesMore, NEW e, CutOK(e)
    PROVE  CutOK(e)'
<1>1. \A s : Compacted(e.note, s)' = Compacted(e.note, s)
    BY SameDay
<1>2. \A l : Filed(l) => Filed(l)'
    BY DEF FilesMore
<1>3. e.kept = [s \in Sections |-> Compacted(e.note, s)'.kept]
    BY <1>1 DEF CutOK
<1>4. \A s \in {"context", "quotes"} :
          s \in ToSet(e.due) \/ \A l \in ToSet(Compacted(e.note, s)'.over) : Filed(l)'
    BY <1>1, <1>2 DEF CutOK
<1>5. e.at = "archiving" => Single(e.past) /\ \A l \in LinesOf(e.past) : Filed(l)'
    BY <1>2 DEF CutOK
<1>6. QED
    BY <1>3, <1>4, <1>5 DEF CutOK, Single, LinesOf

\* Of the efforts one is new, and it is covered, too.
LEMMA OthersStay ==
    ASSUME CutIsCovered, today' = today, FilesMore, NEW w \in Writers, NEW e,
           \A x \in Writers : work'[x] = IF x = w THEN e ELSE work[x],
           e.at \in Busy => CutOK(e)'
    PROVE  CutIsCovered'
<1>1. ASSUME NEW x \in Writers, work'[x].at \in Busy PROVE CutOK(work[x])'
    <2>1. CASE x = w
        <3>1. work'[x] = e
            BY <2>1
        <3>2. CutOK(e)'
            BY <1>1, <3>1
        <3>3. QED
            BY <3>1, <3>2 DEF CutOK, Single, LinesOf
    <2>2. CASE x # w
        <3>1. PICK f : f = work[x]
            OBVIOUS
        <3>2. work'[x] = f /\ CutOK(f)
            BY <1>1, <2>2, <3>1 DEF CutIsCovered
        <3>3. CutOK(f)'
            BY <3>2, CutStays
        <3>4. QED
            BY <3>2, <3>3 DEF CutOK, Single, LinesOf
    <2>3. QED
        BY <2>1, <2>2
<1>2. QED
    BY <1>1 DEF CutIsCovered, Busy

LEMMA NothingFiled ==
    ASSUME archive' = archive, lost' = lost PROVE FilesMore
BY DEF FilesMore, Filed, LinesOf

LEMMA KeptStays ==
    ASSUME LinesAreKept, told' = told, notes' = notes, FilesMore, lost \subseteq lost'
    PROVE  LinesAreKept'
<1>1. \A i \in DOMAIN told : \/ told[i].line \in LinesOf(notes[told[i].file])
                             \/ Filed(told[i].line)
                             \/ <<told[i].file, told[i].line>> \in lost
    BY DEF LinesAreKept, Filed
<1>2. \A i \in DOMAIN told : \/ told[i].line \in LinesOf(notes[told[i].file])
                             \/ Filed(told[i].line)'
                             \/ <<told[i].file, told[i].line>> \in lost'
    BY <1>1 DEF FilesMore
<1>3. QED
    BY <1>2 DEF LinesAreKept, Filed, LinesOf

LEMMA CardStep == CardInv /\ CardNext => CardInv'
<1> SUFFICES ASSUME CardInv, CardNext PROVE CardInv'
    OBVIOUS
<1>0. /\ CardTypeOK /\ CutIsCovered /\ AllSingle /\ LinesAreKept
      /\ today \in 0..MaxDay /\ notes \in [Files -> Notes] /\ archive \in Notes
      /\ work \in [Writers -> Efforts] /\ lost \subseteq (Files \cup {"archive"}) \X NoteLines
    BY DEF CardInv, CardTypeOK
<1>1. ASSUME NEW w \in Writers, work[w].at = "holding"
      PROVE  /\ work[w].update \in Updates /\ work[w].update.file \in Files
             /\ work[w].note \in Notes /\ Single(work[w].note)
    BY <1>0, <1>1, CardsAssumption DEF Efforts, Idle, AllSingle
<1>2. ASSUME NEW w \in Writers, work[w].at \in Busy
      PROVE  /\ work[w].note \in Notes /\ work[w].kept \in Notes /\ work[w].due \in Dues
             /\ Single(work[w].note) /\ CutOK(work[w])
             /\ work[w].at = "archiving" => work[w].due # <<>> /\ work[w].past \in Notes
    <2>1. work[w] # Idle /\ work[w] \in Efforts
        BY <1>0, <1>2 DEF Idle, Busy
    <2>2. \/ work[w] \in [at : {"cutting"}, note : Notes, kept : Notes, due : Dues]
          \/ work[w] \in [at : {"archiving"}, note : Notes, kept : Notes,
                          due : Dues \ {<<>>}, past : Notes]
        BY <1>2, <2>1 DEF Efforts, Busy
    <2>3. Single(work[w].note) /\ CutOK(work[w])
        BY <1>0, <1>2, <2>1 DEF AllSingle, CutIsCovered
    <2>4. QED
        BY <2>2, <2>3
<1>3. ASSUME NEW w \in Writers, NEW u \in Updates, ReadNote(w, u) PROVE CardInv'
    <2> USE <1>3 DEF ReadNote
    <2>1. PICK note : note = notes[u.file]
        OBVIOUS
    <2>2. u.file \in Files /\ note \in Notes /\ Single(note)
        BY <1>0, <2>1, CardsAssumption DEF AllSingle
    <2>3. PICK e : e = Holding(u, note)
        OBVIOUS
    <2>4. e \in Efforts /\ e.at \notin Busy /\ e.note = note
        BY <2>2, <2>3 DEF Holding, Efforts, Busy
    <2>5. /\ \A x \in Writers : work'[x] = IF x = w THEN e ELSE work[x]
          /\ work' \in [Writers -> Efforts]
        BY <1>0, <2>1, <2>3, <2>4
    <2>6. CardTypeOK'
        BY <1>0, <2>5 DEF CardTypeOK
    <2>7. AllSingle'
        BY <1>0, <2>2, <2>4, <2>5 DEF AllSingle, Single
    <2>8. CutIsCovered'
        BY <1>0, <2>4, <2>5, NothingFiled, OthersStay
    <2>9. LinesAreKept'
        BY <1>0, NothingFiled, KeptStays
    <2>10. QED
        BY <2>6, <2>7, <2>8, <2>9 DEF CardInv
<1>4. ASSUME NEW w \in Writers, WriteNote(w) PROVE CardInv'
    <2> USE <1>4 DEF WriteNote
    <2>1. PICK u, read, body : u = work[w].update /\ read = work[w].note /\ body = Merge(read, u)
        OBVIOUS
    <2>2. u \in Updates /\ u.file \in Files /\ read \in Notes /\ Single(read)
        BY <1>1, <2>1
    <2>3. /\ body \in Notes /\ Single(body)
          /\ LinesOf(body) = LinesOf(read) \cup {LineOf(u), AliasLine(u)}
        BY <1>0, <2>1, <2>2, MergeIs
    <2>4. WriteBack(u.file, read, body)
        BY <2>1
    <2>5. /\ notes' \in [Files -> Notes] /\ lost' \subseteq (Files \cup {"archive"}) \X NoteLines
          /\ \A f \in Files : Single(notes'[f])
          /\ LinesOf(body) = LinesOf(notes'[u.file])
          /\ FilesMore
          /\ \A i \in DOMAIN told : \/ told[i].line \in LinesOf(notes'[told[i].file])
                                    \/ told[i].line \in LinesOf(archive')
                                    \/ <<"archive", told[i].line>> \in lost'
                                    \/ <<told[i].file, told[i].line>> \in lost'
        BY <2>2, <2>3, <2>4, WriteBackIs
    <2>6. PICK line, alias \in NoteLines : line = LineOf(u) /\ alias = AliasLine(u)
        BY <1>0, <2>2, UpdateLines
    <2>7. PICK one, two \in [file : Files, line : NoteLines] :
              one = [file |-> u.file, line |-> line] /\ two = [file |-> u.file, line |-> alias]
        BY <2>2, <2>6
    <2>8. told' = told \o <<one, two>> /\ told \in Seq([file : Files, line : NoteLines])
        BY <1>0, <2>1, <2>6, <2>7 DEF CardTypeOK
    <2>9. /\ told' \in Seq([file : Files, line : NoteLines])
          /\ \A i \in DOMAIN told' : \/ i \in DOMAIN told /\ told'[i] = told[i]
                                     \/ told'[i] \in {one, two}
        <3>1. PICK new : new = <<one, two>>
            OBVIOUS
        <3>2. /\ new \in Seq([file : Files, line : NoteLines])
              /\ Len(new) = 2 /\ new[1] = one /\ new[2] = two
            BY <3>1
        <3>3. /\ told' \in Seq([file : Files, line : NoteLines])
              /\ Len(told') = Len(told) + 2
              /\ \A i \in 1..(Len(told) + 2) :
                     told'[i] = IF i <= Len(told) THEN told[i] ELSE new[i - Len(told)]
            BY <2>8, <3>1, <3>2, ConcatProperties
        <3>4. Len(told) \in Nat /\ DOMAIN told = 1..Len(told) /\ DOMAIN told' = 1..(Len(told) + 2)
            BY <2>8, <3>3, LenProperties
        <3>5. QED
            BY <3>2, <3>3, <3>4
    <2>10. /\ \A x \in Writers : work'[x] = IF x = w THEN Idle ELSE work[x]
           /\ work' \in [Writers -> Efforts]
        BY <1>0 DEF Efforts
    <2>11. CardTypeOK'
        BY <1>0, <2>5, <2>9, <2>10 DEF CardTypeOK
    <2>12. AllSingle'
        BY <1>0, <2>5, <2>10 DEF AllSingle, Single
    <2>13. CutIsCovered'
        <3>1. Idle.at \notin Busy
            BY DEF Idle, Busy
        <3>2. QED
            BY <1>0, <2>5, <2>10, <3>1, OthersStay
    <2>14. LinesAreKept'
        <3>1. ASSUME NEW i \in DOMAIN told', NEW r, r = told'[i]
              PROVE  \/ r.line \in LinesOf(notes'[r.file])
                     \/ r.line \in LinesOf(archive') \/ <<"archive", r.line>> \in lost'
                     \/ <<r.file, r.line>> \in lost'
            <4>1. CASE r \in {one, two}
                BY <2>3, <2>5, <2>6, <2>7, <4>1
            <4>2. CASE i \in DOMAIN told /\ r = told[i]
                BY <2>5, <4>2
            <4>3. QED
                BY <2>9, <3>1, <4>1, <4>2
        <3>2. QED
            BY <3>1 DEF LinesAreKept, LinesOf
    <2>15. QED
        BY <2>11, <2>12, <2>13, <2>14 DEF CardInv
<1>5. ASSUME NEW c \in Writers, ReadCard(c) PROVE CardInv'
    <2> USE <1>5 DEF ReadCard
    <2>1. PICK note : note = notes["card"]
        OBVIOUS
    <2>2. note \in Notes /\ Single(note)
        BY <1>0, <2>1 DEF AllSingle, Files
    <2>3. PICK kept : kept = [s \in Sections |-> Compacted(note, s).kept]
        OBVIOUS
    <2>4. kept \in Notes
        BY <2>2, <2>3, CompactedNote
    <2>5. PICK e : e = Cutting(note, kept, <<"context", "quotes">>)
        OBVIOUS
    <2>6. /\ e.at = "cutting" /\ e.note = note /\ e.kept = kept /\ e.due = <<"context", "quotes">>
          /\ e \in Efforts
        BY <2>2, <2>4, <2>5 DEF Cutting, Efforts, Dues
    <2>7. /\ \A x \in Writers : work'[x] = IF x = c THEN e ELSE work[x]
          /\ work' \in [Writers -> Efforts]
        BY <1>0, <2>1, <2>3, <2>5, <2>6
    <2>8. CardTypeOK'
        BY <1>0, <2>7 DEF CardTypeOK
    <2>9. AllSingle'
        BY <1>0, <2>2, <2>6, <2>7 DEF AllSingle, Single
    <2>10. CutOK(e)
        <3>1. ToSet(e.due) = {"context", "quotes"}
            BY <2>6, DueIs DEF Dues
        <3>2. e.at # "archiving"
            BY <2>6
        <3>3. QED
            BY <2>3, <2>6, <3>1, <3>2 DEF CutOK
    <2>11. CutIsCovered'
        <3>1. FilesMore
            BY NothingFiled
        <3>2. CutOK(e)'
            BY <2>10, <3>1, CutStays
        <3>3. QED
            BY <1>0, <2>7, <3>1, <3>2, OthersStay
    <2>12. LinesAreKept'
        BY <1>0, NothingFiled, KeptStays
    <2>13. QED
        BY <2>8, <2>9, <2>11, <2>12 DEF CardInv
<1>6. ASSUME NEW w \in Writers, NEW e, e = work[w], e.at \in Busy, e.due # <<>>
      PROVE  /\ Head(e.due) \in {"context", "quotes"} /\ Tail(e.due) \in Dues
             /\ ToSet(e.due) = {Head(e.due)} \cup ToSet(Tail(e.due))
             /\ Overflow(e) \in Seq(NoteLines) /\ IsInjective(Overflow(e))
             /\ Overflow(e) = Compacted(e.note, Head(e.due)).over
    <2>1. e.note \in Notes /\ e.due \in Dues /\ Single(e.note)
        BY <1>2, <1>6
    <2>2. PICK s : s = Head(e.due)
        OBVIOUS
    <2>3. s \in {"context", "quotes"} /\ Tail(e.due) \in Dues
          /\ ToSet(e.due) = {s} \cup ToSet(Tail(e.due))
        BY <1>6, <2>1, <2>2, DueIs
    <2>4. s \in Sections
        BY <2>3 DEF Sections
    <2>5. Splits(e.note[s], Compacted(e.note, s).kept, Compacted(e.note, s).over)
        BY <2>1, <2>4, CompactedSplits
    <2>6. Overflow(e) = Compacted(e.note, s).over
        BY <2>2 DEF Overflow
    <2>7. QED
        BY <2>1, <2>2, <2>3, <2>4, <2>5, <2>6 DEF Splits, Single
<1>7. ASSUME NEW w \in Writers, NEW e, e = work[w], e.at \in Busy, e.due # <<>>,
             NEW f, f = Cutting(e.note, e.kept, Tail(e.due)),
             today' = today, FilesMore, \A l \in ToSet(Overflow(e)) : Filed(l)'
      PROVE  /\ f \in Efforts /\ f.at = "cutting" /\ f.note = e.note /\ f # Idle
             /\ Single(f.note) /\ CutOK(f)'
    <2>1. /\ e.note \in Notes /\ e.kept \in Notes /\ Single(e.note) /\ CutOK(e)
        BY <1>2, <1>7
    <2>2. /\ Tail(e.due) \in Dues /\ ToSet(e.due) = {Head(e.due)} \cup ToSet(Tail(e.due))
          /\ Overflow(e) = Compacted(e.note, Head(e.due)).over
        BY <1>6, <1>7
    <2>3. /\ f.at = "cutting" /\ f.note = e.note /\ f.kept = e.kept /\ f.due = Tail(e.due)
          /\ f \in Efforts /\ f # Idle
        BY <1>7, <2>1, <2>2 DEF Cutting, Efforts, Idle
    <2>4. CutOK(e)'
        BY <1>7, <2>1, CutStays
    <2>5. \A s : Compacted(e.note, s)' = Compacted(e.note, s)
        BY <1>7, SameDay
    <2>6. CutOK(f)'
        <3>1. f.kept = [s \in Sections |-> Compacted(f.note, s)'.kept]
            BY <2>3, <2>4 DEF CutOK
        <3>2. ASSUME NEW s \in {"context", "quotes"}
              PROVE  s \in ToSet(f.due) \/ \A l \in ToSet(Compacted(f.note, s)'.over) : Filed(l)'
            <4>1. s \in ToSet(e.due) \/ \A l \in ToSet(Compacted(e.note, s)'.over) : Filed(l)'
                BY <2>4 DEF CutOK
            <4>2. CASE s = Head(e.due)
                <5>1. Overflow(e) = Compacted(e.note, s)'.over
                    BY <2>2, <2>5, <4>2
                <5>2. QED
                    BY <1>7, <2>3, <5>1
            <4>3. CASE s # Head(e.due)
                BY <2>2, <2>3, <4>1, <4>3
            <4>4. QED
                BY <4>2, <4>3
        <3>3. f.at # "archiving"
            BY <2>3
        <3>4. QED
            BY <3>1, <3>2, <3>3 DEF CutOK
    <2>7. QED
        BY <2>1, <2>3, <2>6
<1>8. ASSUME NEW w \in Writers, ReadArchive(w) PROVE CardInv'
    <2> USE <1>8 DEF ReadArchive
    <2>1. PICK e : e = work[w]
        OBVIOUS
    <2>2. e.at = "cutting" /\ e.at \in Busy /\ e.due # <<>>
        BY <2>1 DEF Busy
    <2>3. /\ e.note \in Notes /\ e.kept \in Notes /\ e.due \in Dues
          /\ Single(e.note) /\ CutOK(e)
        BY <1>2, <2>1, <2>2
    <2>4. FilesMore
        BY NothingFiled
    <2>5. PICK f : f = IF Overflow(e) = <<>> THEN Cutting(e.note, e.kept, Tail(e.due))
                       ELSE Archiving(e, archive)
        OBVIOUS
    <2>6. f \in Efforts /\ f # Idle /\ f.note = e.note /\ CutOK(f)'
        <3>1. CASE Overflow(e) = <<>>
            <4>1. f = Cutting(e.note, e.kept, Tail(e.due))
                BY <2>5, <3>1
            <4>2. \A l \in ToSet(Overflow(e)) : Filed(l)'
                BY <3>1, EmptyIs
            <4>3. QED
                BY <1>7, <2>1, <2>2, <2>4, <4>1, <4>2
        <3>2. CASE Overflow(e) # <<>>
            <4>1. /\ f.at = "archiving" /\ f.note = e.note /\ f.kept = e.kept /\ f.due = e.due
                  /\ f.past = archive /\ f \in Efforts /\ f # Idle
                BY <1>0, <2>2, <2>3, <2>5, <3>2 DEF Archiving, Efforts, Idle
            <4>2. Single(f.past) /\ \A l \in LinesOf(f.past) : Filed(l)
                BY <1>0, <4>1 DEF AllSingle, Filed
            <4>3. CutOK(f)
                BY <2>3, <4>1, <4>2 DEF CutOK
            <4>4. CutOK(f)'
                BY <2>4, <4>3, CutStays
            <4>5. QED
                BY <4>1, <4>4
        <3>3. QED
            BY <3>1, <3>2
    <2>7. /\ \A x \in Writers : work'[x] = IF x = w THEN f ELSE work[x]
          /\ work' \in [Writers -> Efforts]
        BY <1>0, <2>1, <2>5, <2>6
    <2>8. CardTypeOK'
        BY <1>0, <2>7 DEF CardTypeOK
    <2>9. AllSingle'
        BY <1>0, <2>3, <2>6, <2>7 DEF AllSingle, Single
    <2>10. CutIsCovered'
        BY <1>0, <2>4, <2>6, <2>7, OthersStay
    <2>11. LinesAreKept'
        BY <1>0, <2>4, KeptStays
    <2>12. QED
        BY <2>8, <2>9, <2>10, <2>11 DEF CardInv
<1>9. ASSUME NEW w \in Writers, WriteArchive(w) PROVE CardInv'
    <2> USE <1>9 DEF WriteArchive
    <2>1. PICK e : e = work[w]
        OBVIOUS
    <2>2. e.at = "archiving" /\ e.at \in Busy
        BY <2>1 DEF Busy
    <2>3. /\ e.note \in Notes /\ e.kept \in Notes /\ e.due \in Dues /\ e.due # <<>>
          /\ Single(e.note) /\ CutOK(e) /\ e.past \in Notes /\ Single(e.past)
          /\ \A l \in LinesOf(e.past) : Filed(l)
        BY <1>2, <2>1, <2>2 DEF CutOK
    <2>4. PICK s, over : s = Head(e.due) /\ over = Overflow(e)
        OBVIOUS
    <2>5. s \in Sections /\ over \in Seq(NoteLines) /\ IsInjective(over)
        BY <1>6, <2>1, <2>2, <2>3, <2>4 DEF Sections
    <2>6. /\ archive' \in Notes /\ Single(archive')
          /\ lost' \subseteq (Files \cup {"archive"}) \X NoteLines /\ lost \subseteq lost'
          /\ FilesMore /\ \A l \in ToSet(over) : Filed(l)'
        <3>1. CASE FreshLines(e.past, over) = <<>>
            <4>1. archive' = archive /\ lost' = lost
                BY <2>1, <2>4, <3>1
            <4>2. FilesMore
                BY <4>1, NothingFiled
            <4>3. ToSet(over) \subseteq LinesOf(e.past)
                <5>1. PICK places : places = {i \in DOMAIN over : over[i] \notin LinesOf(e.past)}
                    OBVIOUS
                <5>2. places \in SUBSET DOMAIN over
                    BY <5>1
                <5>3. ToSet(Only(over, places)) = {over[i] : i \in places}
                    BY <2>5, <5>2, OnlyIs
                <5>4. Only(over, places) = <<>>
                    BY <3>1, <5>1 DEF FreshLines
                <5>5. {over[i] : i \in places} = {}
                    BY <5>3, <5>4, EmptyIs
                <5>6. \A i \in DOMAIN over : over[i] \in LinesOf(e.past)
                    BY <5>1, <5>5
                <5>7. QED
                    BY <5>6 DEF ToSet
            <4>4. \A l \in ToSet(over) : Filed(l)'
                BY <2>3, <4>2, <4>3 DEF FilesMore
            <4>5. QED
                BY <1>0, <4>1, <4>2, <4>4 DEF AllSingle
        <3>2. CASE FreshLines(e.past, over) # <<>>
            <4>1. /\ archive' = Archived(e.past, s, over)
                  /\ lost' = lost \cup ({"archive"} \X (LinesOf(archive) \ LinesOf(e.past)))
                BY <2>1, <2>4, <3>2
            <4>2. /\ archive' \in Notes /\ Single(archive')
                  /\ LinesOf(Archived(e.past, s, over)) = LinesOf(e.past) \cup ToSet(over)
                BY <2>3, <2>5, <4>1, ArchivedIs
            <4>3. lost' \subseteq (Files \cup {"archive"}) \X NoteLines /\ lost \subseteq lost'
                <5>1. LinesOf(archive) \subseteq NoteLines
                    BY <1>0, LinesAreLines
                <5>2. QED
                    BY <1>0, <4>1, <5>1
            <4>4. LinesOf(archive') = LinesOf(e.past) \cup ToSet(over)
                BY <4>1, <4>2
            <4>5. \A l : Filed(l)' <=> l \in LinesOf(archive') \/ <<"archive", l>> \in lost'
                BY DEF Filed, LinesOf
            <4>6. ASSUME NEW l, Filed(l) PROVE Filed(l)'
                <5>1. l \in LinesOf(archive) \/ <<"archive", l>> \in lost
                    BY <4>6 DEF Filed
                <5>2. CASE l \in LinesOf(archive)
                    BY <4>1, <4>4, <4>5, <5>2
                <5>3. CASE <<"archive", l>> \in lost
                    BY <4>1, <4>5, <5>3
                <5>4. QED
                    BY <5>1, <5>2, <5>3
            <4>7. FilesMore
                BY <4>6 DEF FilesMore
            <4>8. \A l \in ToSet(over) : Filed(l)'
                BY <4>4, <4>5
            <4>9. QED
                BY <4>2, <4>3, <4>7, <4>8
        <3>3. QED
            BY <3>1, <3>2
    <2>7. PICK f : f = Cutting(e.note, e.kept, Tail(e.due))
        OBVIOUS
    <2>8. f \in Efforts /\ f # Idle /\ f.note = e.note /\ CutOK(f)'
        BY <1>7, <2>1, <2>2, <2>3, <2>4, <2>6, <2>7
    <2>9. /\ \A x \in Writers : work'[x] = IF x = w THEN f ELSE work[x]
          /\ work' \in [Writers -> Efforts]
        BY <1>0, <2>1, <2>7, <2>8
    <2>10. CardTypeOK'
        BY <1>0, <2>6, <2>9 DEF CardTypeOK
    <2>11. AllSingle'
        <3>1. \A x \in Writers : work'[x] # Idle => Single(work'[x].note)
            BY <1>0, <2>3, <2>8, <2>9 DEF AllSingle
        <3>2. QED
            BY <1>0, <2>6, <3>1 DEF AllSingle, Single
    <2>12. CutIsCovered'
        BY <1>0, <2>6, <2>8, <2>9, OthersStay
    <2>13. LinesAreKept'
        BY <1>0, <2>6, KeptStays
    <2>14. QED
        BY <2>10, <2>11, <2>12, <2>13 DEF CardInv
<1>10. ASSUME NEW c \in Writers, CutCard(c) PROVE CardInv'
    <2> USE <1>10 DEF CutCard
    <2>1. PICK e : e = work[c]
        OBVIOUS
    <2>2. e.at = "cutting" /\ e.at \in Busy /\ e.due = <<>>
        BY <2>1 DEF Busy
    <2>3. PICK read, kept : read = e.note /\ kept = e.kept
        OBVIOUS
    <2>4. /\ read \in Notes /\ kept \in Notes /\ Single(read) /\ CutOK(e)
          /\ kept = [s \in Sections |-> Compacted(read, s).kept]
        BY <1>2, <2>1, <2>2, <2>3 DEF CutOK
    <2>5. \A s \in {"context", "quotes"} : \A l \in ToSet(Compacted(read, s).over) : Filed(l)
        <3>1. ToSet(e.due) = {}
            BY <2>2, EmptyIs
        <3>2. QED
            BY <2>3, <2>4, <3>1 DEF CutOK
    <2>6. Single(kept) /\ \A l \in LinesOf(read) : l \in LinesOf(kept) \/ Filed(l)
        <3>1. /\ Single(kept)
              /\ LinesOf(read) \subseteq LinesOf(kept)
                     \cup UNION {ToSet(Compacted(read, s).over) : s \in {"context", "quotes"}}
            BY <2>4, CompactedNote
        <3>2. QED
            BY <2>5, <3>1
    <2>7. "card" \in Files /\ WriteBack("card", read, kept)
        BY <2>1, <2>3 DEF Files
    <2>8. /\ notes' \in [Files -> Notes] /\ lost' \subseteq (Files \cup {"archive"}) \X NoteLines
          /\ \A f \in Files : Single(notes'[f])
          /\ FilesMore
          /\ \A i \in DOMAIN told : \/ told[i].line \in LinesOf(notes'[told[i].file])
                                    \/ told[i].line \in LinesOf(archive')
                                    \/ <<"archive", told[i].line>> \in lost'
                                    \/ <<told[i].file, told[i].line>> \in lost'
        BY <2>4, <2>6, <2>7, WriteBackIs
    <2>9. /\ \A x \in Writers : work'[x] = IF x = c THEN Idle ELSE work[x]
          /\ work' \in [Writers -> Efforts]
        BY <1>0 DEF Efforts
    <2>10. CardTypeOK'
        BY <1>0, <2>8, <2>9 DEF CardTypeOK
    <2>11. AllSingle'
        BY <1>0, <2>8, <2>9 DEF AllSingle, Single
    <2>12. CutIsCovered'
        <3>1. Idle.at \notin Busy
            BY DEF Idle, Busy
        <3>2. QED
            BY <1>0, <2>8, <2>9, <3>1, OthersStay
    <2>13. LinesAreKept'
        BY <2>8 DEF LinesAreKept, Filed, LinesOf
    <2>14. QED
        BY <2>10, <2>11, <2>12, <2>13 DEF CardInv
<1>11. ASSUME NEW w \in Writers, GiveUp(w) PROVE CardInv'
    <2> USE <1>11 DEF GiveUp
    <2>1. /\ \A x \in Writers : work'[x] = IF x = w THEN Idle ELSE work[x]
          /\ work' \in [Writers -> Efforts]
        BY <1>0 DEF Efforts
    <2>2. CardTypeOK'
        BY <1>0, <2>1 DEF CardTypeOK
    <2>3. AllSingle'
        BY <1>0, <2>1 DEF AllSingle, Single
    <2>4. CutIsCovered'
        <3>1. Idle.at \notin Busy
            BY DEF Idle, Busy
        <3>2. QED
            BY <1>0, <2>1, <3>1, NothingFiled, OthersStay
    <2>5. LinesAreKept'
        BY <1>0, NothingFiled, KeptStays
    <2>6. QED
        BY <2>2, <2>3, <2>4, <2>5 DEF CardInv
<1>12. ASSUME Midnight PROVE CardInv'
    <2> USE <1>12 DEF Midnight
    <2>1. CardTypeOK'
        BY <1>0, CardsAssumption DEF CardTypeOK
    <2>2. AllSingle'
        BY <1>0 DEF AllSingle, Single
    <2>3. CutIsCovered'
        BY DEF CutIsCovered, Busy, Idle
    <2>4. LinesAreKept'
        BY <1>0, NothingFiled, KeptStays
    <2>5. QED
        BY <2>1, <2>2, <2>3, <2>4 DEF CardInv
<1>20. QED
    BY <1>3, <1>4, <1>5, <1>8, <1>9, <1>10, <1>11, <1>12 DEF CardNext

LEMMA CardIdle == CardInv /\ UNCHANGED cardVars => CardInv'
<1> SUFFICES ASSUME CardInv, UNCHANGED cardVars PROVE CardInv'
    OBVIOUS
<1>1. /\ today' = today /\ notes' = notes /\ archive' = archive /\ work' = work
      /\ told' = told /\ lost' = lost
    BY DEF cardVars
<1>2. CutIsCovered'
    <2>1. FilesMore
        BY <1>1, NothingFiled
    <2>2. ASSUME NEW w \in Writers, work'[w].at \in Busy PROVE CutOK(work[w])'
        <3>1. PICK e : e = work[w]
            OBVIOUS
        <3>2. work'[w] = e /\ CutOK(e)
            BY <1>1, <2>2, <3>1 DEF CardInv, CutIsCovered
        <3>3. CutOK(e)'
            BY <1>1, <2>1, <3>2, CutStays
        <3>4. QED
            BY <3>2, <3>3 DEF CutOK, Single, LinesOf
    <2>3. QED
        BY <2>2 DEF CutIsCovered, Busy
<1>3. CardTypeOK' /\ AllSingle' /\ LinesAreKept'
    BY <1>1 DEF CardInv, CardTypeOK, AllSingle, Single, LinesAreKept, LinesOf
<1>4. QED
    BY <1>2, <1>3 DEF CardInv

LEMMA CardInvMeans == CardInv => CardTypeOK /\ CardsKeepLines
BY DEF CardInv, CardsKeepLines, LinesAreUnique, AllSingle, Single

\* The invariant of the cards, for any writers, updates, buckets and limits.
THEOREM CardsInvariant == CardSpec => []CardInv
<1>1. CardInv /\ [CardNext]_cardVars => CardInv'
    BY CardStep, CardIdle
<1>2. QED
    BY CardStart, <1>1, PTL DEF CardSpec

\* The step that cuts a card cuts what the compaction settled when it read it.
LEMMA CutIsOld ==
    ASSUME CardInv, NEW c \in Compactors, CutCard(c),
           NEW old, old = work[c].note["context"],
           NEW after, after = notes'["card"]["context"]
    PROVE  old \in Seq(NoteLines) /\ after = CompactContext(old).kept
<1>1. PICK read, kept : read = work[c].note /\ kept = work[c].kept
    OBVIOUS
<1>2. c \in Writers /\ work[c] \in Efforts /\ work[c].at = "cutting"
    BY CardsAssumption DEF CardInv, CardTypeOK, CutCard
<1>3. read \in Notes
    BY <1>1, <1>2 DEF Efforts, Idle
<1>4. kept = [s \in Sections |-> Compacted(read, s).kept]
    BY <1>1, <1>2 DEF CardInv, CutIsCovered, CutOK, Busy
<1>5. "context" \in Sections /\ "card" \in Files
    BY DEF Sections, Files
<1>6. kept["context"] = CompactContext(old).kept
    BY <1>1, <1>4, <1>5 DEF Compacted
<1>7. notes'["card"] = kept
    BY <1>1, <1>5 DEF CardInv, CardTypeOK, CutCard, WriteBack
<1>8. QED
    BY <1>1, <1>3, <1>5, <1>6, <1>7 DEF Notes

LEMMA CutStep ==
    CardInv => \A c \in Compactors :
        CutCard(c) => OnlyOldGo(work[c].note["context"], notes'["card"]["context"])
<1> SUFFICES ASSUME CardInv, NEW c \in Compactors, CutCard(c),
                    NEW old, old = work[c].note["context"],
                    NEW after, after = notes'["card"]["context"]
             PROVE  OnlyOldGo(old, after)
    OBVIOUS
<1>1. old \in Seq(NoteLines) /\ after = CompactContext(old).kept
    BY CutIsOld
<1>2. ASSUME NEW l, NEW here, here = SameBucket(after, l)
      PROVE  /\ l \in ToSet(old) \ ToSet(after) =>
                    Cardinality({i \in here : after[i].day >= l.day}) = Limit
             /\ Cardinality(here) <= Limit
    <2>1. /\ Cardinality(here) <= Limit
          /\ l \in ToSet(old) \ ToSet(after) =>
                 Cardinality(here) = Limit /\ \A i \in here : after[i].day >= l.day
        BY <1>1, <1>2, BucketsKeepTheNewest
    <2>2. (\A i \in here : after[i].day >= l.day) => {i \in here : after[i].day >= l.day} = here
        OBVIOUS
    <2>3. QED
        BY <2>1, <2>2
<1>3. QED
    BY <1>2 DEF OnlyOldGo

\* A fact leaves the card only when its bucket holds Limit facts that are not
\* older, and no bucket of the card that is written holds more.
THEOREM CardsCut == CardSpec => CutsAreOld
<1>1. CardInv => \A c \in Compactors :
          CutCard(c) => OnlyOldGo(work[c].note["context"], notes'["card"]["context"])
    BY CutStep
<1>2. QED
    BY <1>1, CardsInvariant, PTL DEF CutsAreOld
-----------------------------------------------------------------------------
(***************************************************************************)
(* MERGING PEOPLE (MergePeople)                                            *)
(***************************************************************************)

-----------------------------------------------------------------------------
(* Merging cards                                                           *)

\* The files that are still to go, which come first.
Unlinks(s) == {i \in DOMAIN s : s[i].does = "unlink"}
ToGo(s) == {s[i].card : i \in Unlinks(s)}
UnlinksFirst(s) == \A j \in Unlinks(s) : 1..j \subseteq Unlinks(s)

\* What they hold is in one card, whose file stays.
Covered(c, to) == folder[c] = Gone \/ folder[c].lines \subseteq folder[to].lines
UnlinksAreCovered ==
    ToGo(todo) # {} => \E to \in CardIds \ ToGo(todo) :
                           folder[to] # Gone /\ \A c \in ToGo(todo) : Covered(c, to)

\* A card the run has not merged is as it was read, or deleted.
OthersAreAsRead ==
    todo # <<>> => \A c \in CardIds \ touched : folder[c] \in {people[c], Gone}

NothingIsLost ==
    /\ LinesIn(folder) \cup deleted = had
    /\ LinesIn(people) \subseteq had
    /\ OthersAreAsRead /\ UnlinksAreCovered

MergeInv ==
    /\ MergeTypeOK /\ UnlinksFirst(todo) /\ ToGo(todo) \subseteq touched
    /\ ~misused => NothingIsLost

LEMMA LinesOfFiles ==
    ASSUME NEW f, NEW l
    PROVE  l \in LinesIn(f) <=> \E c \in CardIds : f[c] # Gone /\ l \in f[c].lines
BY DEF LinesIn

LEMMA InitMerge == MergeInit => MergeInv
<1> SUFFICES ASSUME MergeInit PROVE MergeInv
    OBVIOUS
<1>1. MergeTypeOK
    <2>1. folder \in [CardIds -> Cards \cup {Gone}]
        BY MergeAssumption DEF MergeInit
    <2>2. people \in [CardIds -> Cards \cup {Gone}]
        BY DEF MergeInit, NothingRead
    <2>3. todo \in Seq(Works)
        BY DEF MergeInit
    <2>5. touched \subseteq CardIds /\ misused \in BOOLEAN
        BY DEF MergeInit
    <2>4. QED
        BY <2>1, <2>2, <2>3, <2>5 DEF MergeTypeOK
<1>2. todo = <<>> /\ Unlinks(todo) = {}
    BY DEF MergeInit, Unlinks
<1>3. UnlinksFirst(todo) /\ ToGo(todo) = {} /\ UnlinksAreCovered /\ OthersAreAsRead
    BY <1>2 DEF UnlinksFirst, ToGo, UnlinksAreCovered, OthersAreAsRead
<1>4. LinesIn(people) = {}
    BY DEF MergeInit, NothingRead, LinesIn
<1>5. QED
    BY <1>1, <1>3, <1>4 DEF MergeInit, MergeInv, NothingIsLost
-----------------------------------------------------------------------------
\* The target is a card of the group.
LEMMA TargetsAreCards ==
    ASSUME MergeTypeOK, NEW g \in Groups
    PROVE  PickTarget(g) \in g /\ g \subseteq CardIds
<1>1. g \subseteq CardIds /\ Cardinality(g) > 1
    BY DEF Groups, There
<1>2. IsFiniteSet(g) /\ g \in SUBSET Nat /\ g # {}
    <2>1. g \in SUBSET CardIds
        BY <1>1
    <2>2. IsFiniteSet(g)
        BY <2>1, MergeAssumption, FS_Subset
    <2>3. g # {}
        BY <1>1, FS_EmptySet
    <2>4. QED
        BY <2>1, <2>2, <2>3, MergeAssumption
<1> DEFINE own == {c \in g : Affiliation(c) = c}
           russian == g \cap Cyrillic
           Worth(c) == (IF c \in russian THEN 1000 ELSE 0) + Cardinality(people[c].lines)
           best == {c \in g : \A d \in g : Worth(d) <= Worth(c)}
<1>3. own # {} => Min(own) \in g
    <2>1. own \in SUBSET Nat
        BY <1>2
    <2>2. QED
        BY <2>1, LeastOfNaturals
<1>4. Cardinality(russian) = 1 => Min(russian) \in g
    <2>1. russian \in SUBSET Nat /\ russian \subseteq g
        BY <1>2
    <2>3. Cardinality(russian) = 1 => russian # {}
        <3> HIDE DEF russian
        <3> QED
            BY FS_EmptySet
    <2> HIDE DEF russian
    <2>2. QED
        BY <2>1, <2>3, LeastOfNaturals
<1>5. Min(best) \in g
    <2>1. \A c \in g : Worth(c) \in Nat /\ Worth(c) <= 1000 + Cardinality(CardLines)
        <3> SUFFICES ASSUME NEW c \in g
                     PROVE  Worth(c) \in Nat /\ Worth(c) <= 1000 + Cardinality(CardLines)
            OBVIOUS
        <3>1. people[c] \in Cards
            BY <1>1 DEF Groups, There, MergeTypeOK
        <3>2. people[c].lines \in SUBSET CardLines
            BY <3>1 DEF Cards
        <3>3. IsFiniteSet(CardLines)
            BY MergeAssumption
        <3>4. /\ Cardinality(people[c].lines) \in Nat /\ Cardinality(CardLines) \in Nat
              /\ Cardinality(people[c].lines) <= Cardinality(CardLines)
            BY <3>2, <3>3, FS_Subset, FS_CardinalityType
        <3>5. QED
            BY <3>4
    <2> DEFINE worths == {Worth(c) : c \in g}
    <2>2. worths \in SUBSET Nat /\ worths # {} /\ \A n \in worths : n <= 1000 + Cardinality(CardLines)
        <3>1. \A n \in worths : \E c \in g : n = Worth(c)
            OBVIOUS
        <3>2. PICK c \in g : TRUE
            BY <1>2
        <3>3. Worth(c) \in worths
            OBVIOUS
        <3> HIDE DEF worths, Worth
        <3>4. QED
            BY <2>1, <3>1, <3>3
    <2>3. 1000 + Cardinality(CardLines) \in Nat
        <3>1. Cardinality(CardLines) \in Nat
            BY MergeAssumption, FS_CardinalityType
        <3>2. QED
            BY <3>1
    <2>4. Max(worths) \in worths /\ \A n \in worths : n <= Max(worths)
        <3> HIDE DEF worths
        <3>1. PICK m \in Nat : m = 1000 + Cardinality(CardLines)
            BY <2>3
        <3>2. \A n \in worths : n <= m
            BY <2>2, <3>1
        <3> QED
            BY <2>2, <3>2, GreatestOfNaturals
    <2>5. best # {}
        <3>1. PICK c \in g : Worth(c) = Max(worths)
            BY <2>4
        <3>2. \A d \in g : Worth(d) \in worths
            OBVIOUS
        <3> HIDE DEF Worth, worths
        <3>3. \A d \in g : Worth(d) <= Worth(c)
            BY <2>4, <3>1, <3>2
        <3>4. c \in best
            BY <3>3
        <3>5. QED
            BY <3>4
    <2>6. best \in SUBSET Nat
        BY <1>2
    <2>7. Min(best) \in best
        <3> HIDE DEF best
        <3> QED
            BY <2>5, <2>6, LeastOfNaturals
    <2>8. QED
        BY <2>7
<1>6. PickTarget(g) = IF own # {} THEN Min(own)
                      ELSE IF Cardinality(russian) = 1 THEN Min(russian) ELSE Min(best)
    BY DEF PickTarget
<1>7. PickTarget(g) \in g
    <2> HIDE DEF own, russian, best
    <2> QED
        BY <1>3, <1>4, <1>5, <1>6
<1>8. QED
    BY <1>1, <1>7

LEMMA MergesAreWork ==
    ASSUME MergeTypeOK
    PROVE  /\ AutoMerges \in Seq(Works)
           /\ \A k \in DOMAIN AutoMerges : AutoMerges[k].does = "merge"
<1> DEFINE into == {PickTarget(g) : g \in Groups}
           targets == Ascending(into)
           Of(to) == CHOOSE g \in Groups : PickTarget(g) = to
<1>1. into \in SUBSET CardIds
    BY TargetsAreCards
<1>2. IsFiniteSet(into) /\ into \in SUBSET Int
    <2> HIDE DEF into
    <2>1. IsFiniteSet(into)
        BY <1>1, MergeAssumption, FS_Subset
    <2>2. QED
        BY <1>1, <2>1, MergeAssumption
<1>3. Cardinality(into) \in Nat /\ targets \in [1..Cardinality(into) -> into]
    <2> HIDE DEF into
    <2> QED
        BY <1>2, AscendingIs
<1>4. ASSUME NEW k \in DOMAIN targets
      PROVE  /\ targets[k] \in Nat
             /\ Of(targets[k]) \in SUBSET Nat
    <2>1. targets[k] \in into
        <3> HIDE DEF into, targets
        <3> QED
            BY <1>3, <1>4
    <2>2. PICK g \in Groups : PickTarget(g) = targets[k]
        <3> HIDE DEF targets
        <3> QED
            BY <2>1
    <2>3. Of(targets[k]) \in Groups
        <3> HIDE DEF targets
        <3> QED
            BY <2>2
    <2>4. Of(targets[k]) \subseteq CardIds
        <3> HIDE DEF targets, Of
        <3> QED
            BY <2>3, TargetsAreCards
    <2>5. targets[k] \in CardIds
        <3> HIDE DEF targets, into
        <3> QED
            BY <2>1, <1>1
    <2> HIDE DEF targets, into, Of
    <2>6. QED
        BY <2>4, <2>5, MergeAssumption
<1>5. AutoMerges = [k \in DOMAIN targets |-> Merging(targets[k], Of(targets[k]) \ {targets[k]})]
    BY DEF AutoMerges
<1> HIDE DEF targets, into, Of
<1>6. \A k \in DOMAIN targets :
          /\ Merging(targets[k], Of(targets[k]) \ {targets[k]}) \in Works
          /\ Merging(targets[k], Of(targets[k]) \ {targets[k]}).does = "merge"
    BY <1>4 DEF Merging, Works
<1>7. DOMAIN targets = 1..Cardinality(into)
    BY <1>3
<1>8. AutoMerges \in [1..Cardinality(into) -> Works]
    BY <1>5, <1>6, <1>7
<1>9. AutoMerges \in Seq(Works)
    BY <1>8, <1>3
<1>10. QED
    BY <1>5, <1>6, <1>9

-----------------------------------------------------------------------------
\* A plan goes on with what is behind its first step.
LEMMA TailsOfPlans ==
    ASSUME NEW s \in Seq(Works), s # <<>>, UnlinksFirst(s)
    PROVE  /\ Head(s) \in Works /\ Tail(s) \in Seq(Works)
           /\ UnlinksFirst(Tail(s)) /\ ToGo(Tail(s)) \subseteq ToGo(s)
           /\ Head(s).does # "unlink" => Unlinks(Tail(s)) = {}
           /\ Head(s).does = "unlink" => Head(s).card \in ToGo(s)
<1>1. /\ Head(s) \in Works /\ Tail(s) \in Seq(Works) /\ Len(Tail(s)) = Len(s) - 1
      /\ \A i \in 1..Len(Tail(s)) : Tail(s)[i] = s[i + 1]
      /\ Len(s) \in Nat \ {0} /\ Head(s) = s[1]
    BY HeadTailProperties, EmptySeq
<1>2. DOMAIN s = 1..Len(s) /\ DOMAIN Tail(s) = 1..Len(Tail(s))
    BY <1>1, LenProperties
<1>3. \A i \in 1..Len(Tail(s)) : i + 1 \in DOMAIN s
    BY <1>1, <1>2
<1>4. \A i \in DOMAIN Tail(s) : i \in Unlinks(Tail(s)) <=> i + 1 \in Unlinks(s)
    BY <1>1, <1>2, <1>3 DEF Unlinks
<1>5. Unlinks(s) \subseteq 1..Len(s) /\ Unlinks(Tail(s)) \subseteq 1..Len(Tail(s))
    BY <1>2 DEF Unlinks
<1>6. UnlinksFirst(Tail(s))
    <2> SUFFICES ASSUME NEW j \in Unlinks(Tail(s)), NEW i \in 1..j PROVE i \in Unlinks(Tail(s))
        BY DEF UnlinksFirst
    <2>1. i \in 1..Len(Tail(s)) /\ j \in 1..Len(Tail(s)) /\ i + 1 \in 1..(j + 1)
        BY <1>1, <1>5
    <2>2. j + 1 \in Unlinks(s)
        BY <1>2, <1>4, <2>1
    <2>3. i + 1 \in Unlinks(s)
        BY <2>1, <2>2 DEF UnlinksFirst
    <2>4. QED
        BY <2>1, <2>3, <1>2, <1>4
<1>7. ToGo(Tail(s)) \subseteq ToGo(s)
    BY <1>1, <1>4, <1>5, <1>2 DEF ToGo
<1>8. ASSUME Unlinks(Tail(s)) # {} PROVE Head(s).does = "unlink"
    <2>1. PICK j \in Unlinks(Tail(s)) : TRUE
        BY <1>8
    <2>2. j \in 1..Len(Tail(s)) /\ j + 1 \in Unlinks(s) /\ 1 \in 1..(j + 1)
        BY <1>1, <1>2, <1>4, <1>5, <2>1
    <2>3. 1 \in Unlinks(s)
        BY <2>2 DEF UnlinksFirst
    <2>4. QED
        BY <2>3, <1>1 DEF Unlinks
<1>9. Head(s).does = "unlink" => Head(s).card \in ToGo(s)
    <2>1. 1 \in DOMAIN s
        BY <1>1, <1>2
    <2>2. QED
        BY <1>1, <2>1 DEF ToGo, Unlinks
<1>10. QED
    BY <1>1, <1>6, <1>7, <1>8, <1>9

\* Two plans, the second without files to go.
LEMMA PlansJoined ==
    ASSUME NEW s \in Seq(Works), NEW t \in Seq(Works), Unlinks(t) = {}
    PROVE  /\ s \o t \in Seq(Works) /\ Unlinks(s \o t) = Unlinks(s) /\ ToGo(s \o t) = ToGo(s)
<1>1. /\ s \o t \in Seq(Works) /\ Len(s \o t) = Len(s) + Len(t)
      /\ \A i \in 1..Len(s) + Len(t) : (s \o t)[i] = IF i <= Len(s) THEN s[i] ELSE t[i - Len(s)]
    BY ConcatProperties
<1>2. Len(s) \in Nat /\ Len(t) \in Nat /\ DOMAIN s = 1..Len(s) /\ DOMAIN t = 1..Len(t)
    BY LenProperties
<1>3. DOMAIN (s \o t) = 1..(Len(s) + Len(t))
    BY <1>1, LenProperties
<1>4. \A i \in DOMAIN s : i \in DOMAIN (s \o t) /\ (s \o t)[i] = s[i]
    BY <1>1, <1>2, <1>3
<1>5. ASSUME NEW i \in DOMAIN (s \o t), i \notin DOMAIN s PROVE (s \o t)[i].does # "unlink"
    <2>1. i - Len(s) \in DOMAIN t /\ (s \o t)[i] = t[i - Len(s)]
        BY <1>1, <1>2, <1>3, <1>5
    <2>2. QED
        BY <2>1 DEF Unlinks
<1>6. Unlinks(s \o t) = Unlinks(s)
    BY <1>4, <1>5 DEF Unlinks
<1>7. ToGo(s \o t) = ToGo(s)
    BY <1>6, <1>4 DEF ToGo, Unlinks
<1>8. QED
    BY <1>1, <1>6, <1>7

LEMMA UnlinkingIs ==
    ASSUME NEW from \in SUBSET CardIds
    PROVE  /\ Unlinking(from) \in Seq(Works)
           /\ Unlinks(Unlinking(from)) = DOMAIN Unlinking(from)
           /\ ToGo(Unlinking(from)) = from
<1> DEFINE cards == Ascending(from)
<1>1. from \in SUBSET Int /\ from \in SUBSET Nat /\ IsFiniteSet(from)
    <2>1. IsFiniteSet(from)
        BY MergeAssumption, FS_Subset
    <2>2. QED
        BY <2>1, MergeAssumption
<1>2. /\ Cardinality(from) \in Nat /\ cards \in [1..Cardinality(from) -> from]
      /\ \A c \in from : \E k \in 1..Cardinality(from) : cards[k] = c
    BY <1>1, AscendingIs
<1>3. Unlinking(from) = [k \in 1..Cardinality(from) |-> [does |-> "unlink", card |-> cards[k]]]
    BY <1>2 DEF Unlinking
<1> HIDE DEF cards
<1>4. \A k \in 1..Cardinality(from) : [does |-> "unlink", card |-> cards[k]] \in Works
    BY <1>1, <1>2 DEF Works
<1>5. Unlinking(from) \in [1..Cardinality(from) -> Works]
    BY <1>3, <1>4
<1>6. Unlinking(from) \in Seq(Works)
    BY <1>5, <1>2
<1>7. DOMAIN Unlinking(from) = 1..Cardinality(from)
    BY <1>3
<1>8. Unlinks(Unlinking(from)) = 1..Cardinality(from)
    BY <1>3, <1>7 DEF Unlinks
<1>9. \A k \in 1..Cardinality(from) : Unlinking(from)[k].card = cards[k]
    BY <1>3
<1>10. ToGo(Unlinking(from)) = from
    BY <1>2, <1>8, <1>9 DEF ToGo
<1>11. QED
    BY <1>6, <1>7, <1>8, <1>10

LEMMA AbsorbedIs ==
    ASSUME MergeTypeOK, NEW to, NEW from, {to} \cup from \subseteq There
    PROVE  /\ Absorbed(to, from) \in Cards
           /\ Absorbed(to, from).lines = UNION {people[c].lines : c \in {to} \cup from}
<1> DEFINE all == {to} \cup from
           readable == {c \in all : people[c].telegram # NoTelegram}
<1>1. \A c \in all : c \in CardIds /\ people[c] \in Cards
    BY DEF There, MergeTypeOK
<1>2. readable # {} => Min(readable) \in readable
    <2>1. readable \in SUBSET Nat
        BY <1>1, MergeAssumption
    <2> HIDE DEF readable
    <2>2. QED
        BY <2>1, LeastOfNaturals
<1> DEFINE number == IF to \in readable \/ readable = {} THEN people[to].telegram
                     ELSE people[Min(readable)].telegram
           words == UNION {people[c].names : c \in all}
           said == UNION {people[c].lines : c \in all}
<1>3. Absorbed(to, from) = [telegram |-> number, names |-> words, lines |-> said]
    BY DEF Absorbed
<1>4. \A c \in all : /\ people[c].telegram \in {k.telegram : k \in Given} \cup {NoTelegram}
                      /\ people[c].names \subseteq UNION {k.names : k \in Given}
                      /\ people[c].lines \subseteq CardLines
    BY <1>1 DEF Cards
<1>5. number \in {k.telegram : k \in Given} \cup {NoTelegram}
    <2>1. readable \subseteq all /\ to \in all
        OBVIOUS
    <2> HIDE DEF readable, all
    <2>2. QED
        BY <1>2, <1>4, <2>1
<1>6. words \subseteq UNION {k.names : k \in Given} /\ said \subseteq CardLines
    <2> HIDE DEF all
    <2> QED
        BY <1>4
<1> HIDE DEF number, words, said
<1>7. Absorbed(to, from) \in Cards /\ Absorbed(to, from).lines = said
    BY <1>3, <1>5, <1>6 DEF Cards
<1>8. QED
    BY <1>7 DEF said

-----------------------------------------------------------------------------
LEMMA LoadSafe == MergeInv /\ Load => MergeInv'
<1> SUFFICES ASSUME MergeInv, Load PROVE MergeInv'
    OBVIOUS
<1>1. /\ todo = <<>> /\ todo' = todo /\ people' = folder /\ touched' = {}
      /\ folder' = folder /\ had' = had /\ deleted' = deleted /\ misused' = misused
    BY DEF Load
<1>2. MergeTypeOK'
    BY <1>1 DEF MergeInv, MergeTypeOK
<1>3. Unlinks(todo') = {}
    BY <1>1 DEF Unlinks
<1>4. UnlinksFirst(todo)' /\ ToGo(todo') = {}
    BY <1>3 DEF UnlinksFirst, ToGo
<1>5. ~misused => LinesIn(folder) \cup deleted = had
    BY DEF MergeInv, NothingIsLost
<1>6. LinesIn(people') = LinesIn(folder) /\ LinesIn(folder') = LinesIn(folder)
    BY <1>1
<1>7. ~misused' => NothingIsLost'
    BY <1>1, <1>4, <1>5, <1>6 DEF NothingIsLost, OthersAreAsRead, UnlinksAreCovered
<1>8. QED
    BY <1>2, <1>4, <1>7 DEF MergeInv

LEMMA StartSafe == MergeInv /\ Start => MergeInv'
<1> SUFFICES ASSUME MergeInv, Start PROVE MergeInv'
    OBVIOUS
<1>1. PICK extra \in Commands : todo' = AutoMerges \o extra
    BY DEF Start
<1>2. /\ people = folder /\ touched = {}
      /\ UNCHANGED <<folder, people, touched, had, deleted, misused>>
    BY DEF Start
<1>3. MergeTypeOK
    BY DEF MergeInv
<1>4. AutoMerges \in Seq(Works) /\ Unlinks(AutoMerges) = {}
    BY <1>3, MergesAreWork DEF Unlinks
<1>5. extra \in Seq(Works) /\ Unlinks(extra) = {}
    BY MergeAssumption DEF Unlinks
<1>6. todo' \in Seq(Works) /\ Unlinks(todo') = {}
    <2>1. PICK plan : plan = AutoMerges
        OBVIOUS
    <2>2. plan \o extra \in Seq(Works) /\ Unlinks(plan \o extra) = Unlinks(plan)
        BY <1>4, <1>5, <2>1, PlansJoined
    <2>3. QED
        BY <1>1, <1>4, <2>1, <2>2
<1>7. MergeTypeOK'
    BY <1>2, <1>3, <1>6 DEF MergeTypeOK
<1>8. UnlinksFirst(todo)' /\ ToGo(todo') = {}
    BY <1>6 DEF UnlinksFirst, ToGo
<1>9. LinesIn(people') = LinesIn(people) /\ LinesIn(folder') = LinesIn(folder)
    BY <1>2
<1>10. ~misused' => NothingIsLost'
    BY <1>2, <1>8, <1>9 DEF MergeInv, NothingIsLost, OthersAreAsRead, UnlinksAreCovered
<1>11. QED
    BY <1>7, <1>8, <1>10 DEF MergeInv

\* The tool stops.
LEMMA StopSafe ==
    ASSUME MergeInv, todo' = <<>>,
           UNCHANGED <<folder, people, touched, had, deleted>>, misused' = misused
    PROVE  MergeInv'
<1>1. Unlinks(todo') = {}
    BY DEF Unlinks
<1>2. UnlinksFirst(todo)' /\ ToGo(todo') = {}
    BY <1>1 DEF UnlinksFirst, ToGo
<1>3. MergeTypeOK'
    BY DEF MergeInv, MergeTypeOK
<1>4. LinesIn(people') = LinesIn(people) /\ LinesIn(folder') = LinesIn(folder)
    OBVIOUS
<1>5. ~misused' => NothingIsLost'
    BY <1>2, <1>4 DEF MergeInv, NothingIsLost, OthersAreAsRead, UnlinksAreCovered
<1>6. QED
    BY <1>2, <1>3, <1>5 DEF MergeInv

LEMMA MergeCardsSafe == MergeInv /\ MergeCards => MergeInv'
<1> SUFFICES ASSUME MergeInv, MergeCards PROVE MergeInv'
    OBVIOUS
<1>1. todo # <<>> /\ Head(todo).does = "merge" /\ UNCHANGED <<people, had, deleted>>
    BY DEF MergeCards
<1>2. PICK to, from : to = Head(todo).to /\ from = Head(todo).from
    OBVIOUS
<1>3. CASE ~({to} \cup from \subseteq There)
    <2>1. todo' = <<>> /\ UNCHANGED <<folder, touched, misused>>
        BY <1>1, <1>2, <1>3 DEF MergeCards
    <2>2. QED
        BY <1>1, <2>1, StopSafe
<1>4. CASE {to} \cup from \subseteq There
    <2>1. /\ folder' = [folder EXCEPT ![to] = Absorbed(to, from)]
          /\ todo' = Unlinking(from) \o Tail(todo)
          /\ touched' = touched \cup {to} \cup from
          /\ misused' = (misused \/ to \in from \/ ({to} \cup from) \cap touched # {})
        BY <1>1, <1>2, <1>4 DEF MergeCards
    <2>2. MergeTypeOK /\ todo \in Seq(Works) /\ UnlinksFirst(todo)
        BY DEF MergeInv, MergeTypeOK
    <2>3. to \in CardIds /\ from \in SUBSET CardIds
        BY <1>4 DEF There
    <2>4. /\ Absorbed(to, from) \in Cards
          /\ Absorbed(to, from).lines = UNION {people[c].lines : c \in {to} \cup from}
        BY <1>4, <2>2, AbsorbedIs
    <2>5. PICK rest : rest = Tail(todo)
        OBVIOUS
    <2>6. rest \in Seq(Works) /\ Unlinks(rest) = {}
        BY <1>1, <2>2, <2>5, TailsOfPlans
    <2>7. PICK goes : goes = Unlinking(from)
        OBVIOUS
    <2>8. goes \in Seq(Works) /\ Unlinks(goes) = DOMAIN goes /\ ToGo(goes) = from
        BY <2>3, <2>7, UnlinkingIs
    <2>9. todo' = goes \o rest
        BY <2>1, <2>5, <2>7
    <2>10. /\ todo' \in Seq(Works) /\ Unlinks(todo') = DOMAIN goes /\ ToGo(todo') = from
        BY <2>6, <2>8, <2>9, PlansJoined
    <2>11. UnlinksFirst(todo)'
        <3>1. DOMAIN goes = 1..Len(goes) /\ Len(goes) \in Nat
            BY <2>8, LenProperties
        <3>2. \A j \in 1..Len(goes) : 1..j \subseteq 1..Len(goes)
            BY <3>1
        <3>3. QED
            BY <2>10, <3>1, <3>2 DEF UnlinksFirst
    <2>12. folder' \in [CardIds -> Cards \cup {Gone}]
        BY <2>1, <2>2, <2>4 DEF MergeTypeOK
    <2>13. MergeTypeOK'
        <3>1. touched' \subseteq CardIds /\ misused' \in BOOLEAN
            BY <2>1, <2>2, <2>3 DEF MergeTypeOK
        <3>2. QED
            BY <1>1, <2>2, <2>10, <2>12, <3>1 DEF MergeTypeOK
    <2>14. ASSUME ~misused' PROVE NothingIsLost'
        <3>1. NothingIsLost /\ to \notin from /\ ({to} \cup from) \cap touched = {}
            BY <2>1, <2>14 DEF MergeInv
        <3>2. folder'[to] = Absorbed(to, from) /\ folder'[to] # Gone
            BY <2>1, <2>2, <2>3, <2>4, MergeAssumption DEF MergeTypeOK
        <3>3. \A c \in CardIds : c # to => folder'[c] = folder[c]
            BY <2>1, <2>2 DEF MergeTypeOK
        <3>4. \A c \in {to} \cup from : folder[c] \in {people[c], Gone} /\ people[c] # Gone
            BY <1>1, <1>4, <2>3, <3>1 DEF NothingIsLost, OthersAreAsRead, There
        <3>5. \A c \in {to} \cup from : people[c].lines \subseteq folder'[to].lines
            BY <2>4, <3>2
        <3>6. LinesIn(folder) \subseteq LinesIn(folder')
            <4> SUFFICES ASSUME NEW l \in LinesIn(folder) PROVE l \in LinesIn(folder')
                OBVIOUS
            <4>1. PICK c \in CardIds : folder[c] # Gone /\ l \in folder[c].lines
                BY LinesOfFiles
            <4>2. CASE c = to
                <5>1. l \in folder'[to].lines
                    BY <4>1, <4>2, <3>4, <3>5
                <5>2. QED
                    BY <5>1, <3>2, <2>3, LinesOfFiles
            <4>3. CASE c # to
                <5>1. folder'[c] # Gone /\ l \in folder'[c].lines
                    BY <4>1, <4>3, <3>3
                <5>2. QED
                    BY <5>1, LinesOfFiles
            <4>4. QED
                BY <4>2, <4>3
        <3>7. LinesIn(folder') \subseteq LinesIn(folder) \cup LinesIn(people)
            <4> SUFFICES ASSUME NEW l \in LinesIn(folder')
                         PROVE  l \in LinesIn(folder) \cup LinesIn(people)
                OBVIOUS
            <4>1. PICK c \in CardIds : folder'[c] # Gone /\ l \in folder'[c].lines
                BY LinesOfFiles
            <4>2. CASE c = to
                <5>1. PICK d \in {to} \cup from : l \in people[d].lines
                    BY <4>1, <4>2, <3>2, <2>4
                <5>2. d \in CardIds /\ people[d] # Gone
                    BY <2>3, <3>4
                <5>3. l \in LinesIn(people)
                    BY <5>1, <5>2, LinesOfFiles
                <5>4. QED
                    BY <5>3
            <4>3. CASE c # to
                <5>1. folder[c] # Gone /\ l \in folder[c].lines
                    BY <4>1, <4>3, <3>3
                <5>2. l \in LinesIn(folder)
                    BY <5>1, LinesOfFiles
                <5>3. QED
                    BY <5>2
            <4>4. QED
                BY <4>2, <4>3
        <3>8. LinesIn(folder') \cup deleted' = had' /\ LinesIn(people') \subseteq had'
            BY <1>1, <3>1, <3>6, <3>7 DEF NothingIsLost
        <3>9. OthersAreAsRead'
            BY <1>1, <2>1, <3>1, <3>3 DEF NothingIsLost, OthersAreAsRead
        <3>10. \A c \in from : Covered(c, to)'
            <4> SUFFICES ASSUME NEW c \in from PROVE Covered(c, to)'
                OBVIOUS
            <4>1. folder'[c] = folder[c]
                BY <2>3, <3>1, <3>3
            <4>2. QED
                BY <4>1, <3>4, <3>5 DEF Covered
        <3>11. UnlinksAreCovered'
            BY <2>3, <2>10, <3>1, <3>2, <3>10 DEF UnlinksAreCovered
        <3>12. QED
            BY <3>8, <3>9, <3>11 DEF NothingIsLost
    <2>15. ToGo(todo') \subseteq touched'
        BY <2>1, <2>10
    <2>16. QED
        BY <2>11, <2>13, <2>14, <2>15 DEF MergeInv
<1>5. QED
    BY <1>3, <1>4

LEMMA UnlinkSafe == MergeInv /\ Unlink => MergeInv'
<1> SUFFICES ASSUME MergeInv, Unlink PROVE MergeInv'
    OBVIOUS
<1>1. PICK c : c = Head(todo).card
    OBVIOUS
<1>2. /\ todo # <<>> /\ Head(todo).does = "unlink" /\ todo' = Tail(todo)
      /\ folder' = [folder EXCEPT ![c] = Gone]
      /\ UNCHANGED <<people, touched, had, deleted, misused>>
    BY <1>1 DEF Unlink
<1>3. MergeTypeOK /\ todo \in Seq(Works) /\ UnlinksFirst(todo) /\ ToGo(todo) \subseteq touched
    BY DEF MergeInv, MergeTypeOK
<1>4. todo' \in Seq(Works) /\ UnlinksFirst(todo)' /\ ToGo(todo') \subseteq ToGo(todo)
    <2>1. PICK plan : plan = todo
        OBVIOUS
    <2>2. /\ Tail(plan) \in Seq(Works) /\ UnlinksFirst(Tail(plan)) /\ ToGo(Tail(plan)) \subseteq ToGo(plan)
        BY <1>2, <1>3, <2>1, TailsOfPlans
    <2>3. QED
        BY <1>2, <2>1, <2>2
<1>5. c \in ToGo(todo) /\ c \in touched /\ c \in CardIds
    BY <1>1, <1>2, <1>3, TailsOfPlans DEF MergeTypeOK
<1>6. MergeTypeOK'
    BY <1>2, <1>3, <1>4 DEF MergeTypeOK
<1>7. folder'[c] = Gone /\ \A d \in CardIds : d # c => folder'[d] = folder[d]
    BY <1>2, <1>3, <1>5 DEF MergeTypeOK
<1>8. ASSUME ~misused' PROVE NothingIsLost'
    <2>1. NothingIsLost
        BY <1>2, <1>8 DEF MergeInv
    <2>2. PICK to \in CardIds \ ToGo(todo) :
              folder[to] # Gone /\ \A d \in ToGo(todo) : Covered(d, to)
        BY <1>5, <2>1 DEF NothingIsLost, UnlinksAreCovered
    <2>3. to # c /\ folder'[to] = folder[to]
        BY <1>5, <1>7, <2>2
    <2>4. LinesIn(folder') = LinesIn(folder)
        <3>1. ASSUME NEW l \in LinesIn(folder) PROVE l \in LinesIn(folder')
            <4>1. PICK d \in CardIds : folder[d] # Gone /\ l \in folder[d].lines
                BY <3>1, LinesOfFiles
            <4>2. CASE d = c
                <5>1. l \in folder'[to].lines /\ folder'[to] # Gone
                    BY <4>1, <4>2, <1>5, <2>2, <2>3 DEF Covered
                <5>2. QED
                    BY <5>1, <2>2, LinesOfFiles
            <4>3. CASE d # c
                <5>1. l \in folder'[d].lines /\ folder'[d] # Gone
                    BY <4>1, <4>3, <1>7
                <5>2. QED
                    BY <5>1, LinesOfFiles
            <4>4. QED
                BY <4>2, <4>3
        <3>2. ASSUME NEW l \in LinesIn(folder') PROVE l \in LinesIn(folder)
            <4>1. PICK d \in CardIds : folder'[d] # Gone /\ l \in folder'[d].lines
                BY <3>2, LinesOfFiles
            <4>2. folder[d] # Gone /\ l \in folder[d].lines
                BY <4>1, <1>7
            <4>3. QED
                BY <4>2, LinesOfFiles
        <3>3. QED
            BY <3>1, <3>2
    <2>5. LinesIn(folder') \cup deleted' = had' /\ LinesIn(people') \subseteq had'
        BY <1>2, <2>1, <2>4 DEF NothingIsLost
    <2>6. OthersAreAsRead'
        BY <1>2, <1>7, <2>1 DEF NothingIsLost, OthersAreAsRead
    <2>7. \A d \in ToGo(todo') : Covered(d, to)'
        <3> SUFFICES ASSUME NEW d \in ToGo(todo') PROVE Covered(d, to)'
            OBVIOUS
        <3>1. d \in ToGo(todo) /\ d \in CardIds /\ Covered(d, to)
            BY <1>3, <1>4, <2>2 DEF MergeTypeOK
        <3>2. QED
            BY <3>1, <1>7, <2>3 DEF Covered
    <2>8. UnlinksAreCovered'
        BY <1>4, <2>2, <2>3, <2>7 DEF UnlinksAreCovered
    <2>9. QED
        BY <2>5, <2>6, <2>8 DEF NothingIsLost
<1>9. ToGo(todo') \subseteq touched'
    BY <1>2, <1>3, <1>4
<1>10. QED
    BY <1>4, <1>6, <1>8, <1>9 DEF MergeInv

LEMMA DeleteCardSafe == MergeInv /\ DeleteCard => MergeInv'
<1> SUFFICES ASSUME MergeInv, DeleteCard PROVE MergeInv'
    OBVIOUS
<1>1. PICK c : c = Head(todo).card
    OBVIOUS
<1>2. todo # <<>> /\ Head(todo).does = "delete" /\ UNCHANGED <<people, touched, had, misused>>
    BY DEF DeleteCard
<1>3. CASE c \notin There
    <2>1. todo' = <<>> /\ UNCHANGED <<deleted, folder>>
        BY <1>1, <1>3 DEF DeleteCard
    <2>2. QED
        BY <1>2, <2>1, StopSafe
<1>4. CASE c \in There
    <2>1. /\ deleted' = deleted \cup (IF folder[c] = Gone THEN {} ELSE folder[c].lines)
          /\ folder' = [folder EXCEPT ![c] = Gone]
          /\ todo' = Tail(todo)
        BY <1>1, <1>4 DEF DeleteCard
    <2>2. MergeTypeOK /\ todo \in Seq(Works) /\ UnlinksFirst(todo) /\ c \in CardIds
        BY <1>4 DEF MergeInv, MergeTypeOK, There
    <2>3. todo' \in Seq(Works) /\ Unlinks(todo') = {}
        <3>1. PICK plan : plan = todo
            OBVIOUS
        <3>2. Tail(plan) \in Seq(Works) /\ Unlinks(Tail(plan)) = {}
            BY <1>2, <2>2, <3>1, TailsOfPlans
        <3>3. QED
            BY <2>1, <3>1, <3>2
    <2>4. UnlinksFirst(todo)' /\ ToGo(todo') = {}
        BY <2>3 DEF UnlinksFirst, ToGo
    <2>5. MergeTypeOK'
        BY <1>2, <2>1, <2>2, <2>3 DEF MergeTypeOK
    <2>6. folder'[c] = Gone /\ \A d \in CardIds : d # c => folder'[d] = folder[d]
        BY <2>1, <2>2 DEF MergeTypeOK
    <2>7. ASSUME ~misused' PROVE NothingIsLost'
        <3>1. NothingIsLost
            BY <1>2, <2>7 DEF MergeInv
        <3>2. LinesIn(folder') \cup deleted' \subseteq LinesIn(folder) \cup deleted
            <4>1. ASSUME NEW l \in LinesIn(folder') PROVE l \in LinesIn(folder)
                <5>1. PICK d \in CardIds : folder'[d] # Gone /\ l \in folder'[d].lines
                    BY <4>1, LinesOfFiles
                <5>2. folder[d] # Gone /\ l \in folder[d].lines
                    BY <5>1, <2>6
                <5>3. QED
                    BY <5>2, LinesOfFiles
            <4>2. ASSUME NEW l \in deleted', l \notin deleted PROVE l \in LinesIn(folder)
                <5>1. folder[c] # Gone /\ l \in folder[c].lines
                    BY <4>2, <2>1
                <5>2. QED
                    BY <5>1, <2>2, LinesOfFiles
            <4>3. QED
                BY <4>1, <4>2
        <3>3. LinesIn(folder) \cup deleted \subseteq LinesIn(folder') \cup deleted'
            <4>1. ASSUME NEW l \in LinesIn(folder), l \notin deleted' PROVE l \in LinesIn(folder')
                <5>1. PICK d \in CardIds : folder[d] # Gone /\ l \in folder[d].lines
                    BY <4>1, LinesOfFiles
                <5>2. d # c
                    BY <4>1, <5>1, <2>1
                <5>3. folder'[d] # Gone /\ l \in folder'[d].lines
                    BY <5>1, <5>2, <2>6
                <5>4. QED
                    BY <5>3, LinesOfFiles
            <4>2. deleted \subseteq deleted'
                BY <2>1
            <4>3. QED
                BY <4>1, <4>2
        <3>4. LinesIn(folder') \cup deleted' = had' /\ LinesIn(people') \subseteq had'
            BY <1>2, <3>1, <3>2, <3>3 DEF NothingIsLost
        <3>5. OthersAreAsRead'
            BY <1>2, <2>6, <3>1 DEF NothingIsLost, OthersAreAsRead
        <3>6. QED
            BY <2>4, <3>4, <3>5 DEF NothingIsLost, UnlinksAreCovered
    <2>8. QED
        BY <2>4, <2>5, <2>7 DEF MergeInv
<1>5. QED
    BY <1>3, <1>4

LEMMA MergeStepsSafe == MergeInv /\ [MergeNext]_mergeVars => MergeInv'
<1> SUFFICES ASSUME MergeInv, [MergeNext]_mergeVars PROVE MergeInv'
    OBVIOUS
<1>1. CASE Stop
    BY <1>1, StopSafe DEF Stop
<1>2. CASE UNCHANGED mergeVars
    BY <1>2 DEF mergeVars, MergeInv, MergeTypeOK, UnlinksFirst, Unlinks, ToGo, NothingIsLost,
                LinesIn, OthersAreAsRead, UnlinksAreCovered, Covered
<1>3. QED
    BY <1>1, <1>2, LoadSafe, StartSafe, MergeCardsSafe, UnlinkSafe, DeleteCardSafe DEF MergeNext

\* The invariant of the merge, for any folder and commands.
THEOREM MergeInvariant == MergeSpec => []MergeInv
<1>1. QED
    BY InitMerge, MergeStepsSafe, PTL DEF MergeSpec

\* The merge loses no line of a card, wherever it stops and whatever is asked of
\* it, but for the commands that delete.
THEOREM MergedLinesStay == MergeSpec => []LinesSurviveTheMerge
<1>1. MergeInv => LinesSurviveTheMerge
    BY DEF MergeInv, NothingIsLost, LinesSurviveTheMerge
<1>2. QED
    BY <1>1, MergeInvariant, PTL
-----------------------------------------------------------------------------
(***************************************************************************)
(* THE WHOLE (MCKnowledge)                                                 *)
(***************************************************************************)

KnowledgeInv == TurnInv /\ IntakeInv /\ CardInv /\ MergeInv

LEMMA KnowledgeInvariant == MCSpec => []KnowledgeInv
<1>1. MCInit => KnowledgeInv
    BY InitTurns, InitIntake, CardStart, InitMerge DEF MCInit, KnowledgeInv
<1> DEFINE all == <<part, vars, intakeVars, cardVars, mergeVars>>
<1>2. KnowledgeInv /\ [MCNext]_all => KnowledgeInv'
    <2> SUFFICES ASSUME KnowledgeInv, [MCNext]_all PROVE KnowledgeInv'
        OBVIOUS
    <2>1. [Next]_vars /\ [IntakeNext]_intakeVars /\ [CardNext]_cardVars /\ [MergeNext]_mergeVars
        BY DEF MCNext
    <2>2. QED
        BY <2>1, NextTurns, IntakeStep, CardStep, CardIdle, MergeStepsSafe DEF KnowledgeInv
<1> HIDE DEF all
<1>3. QED
    BY <1>1, <1>2, PTL DEF MCSpec, all

\* The variables of all parts hold what they are declared to.
THEOREM KnowledgeStaysTyped == MCSpec => []KnowledgeTypeOK
<1>1. KnowledgeInv => KnowledgeTypeOK
    BY TypesSplit, IntakeInvMeans, CardInvMeans
       DEF KnowledgeInv, KnowledgeTypeOK, TurnInv, MergeInv
<1>2. QED
    BY <1>1, KnowledgeInvariant, PTL

\* The compaction and the writers of a card, interrupted anywhere, lose no line
\* but one that a writer overwrote with what it had read before, and put none
\* twice into a section; nor does the merging of cards lose one.
THEOREM LinesStaySafe == MCSpec => []LinesAreSafe
<1>1. KnowledgeInv => LinesAreSafe
    BY CardInvMeans DEF KnowledgeInv, LinesAreSafe, MergeInv, NothingIsLost, LinesSurviveTheMerge
<1>2. QED
    BY <1>1, KnowledgeInvariant, PTL
=============================================================================
