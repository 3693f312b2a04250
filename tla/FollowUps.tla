----------------------------- MODULE FollowUps ------------------------------
(***************************************************************************)
(* Questions for Hermes, the agent on the owner's computer, in one chat.   *)
(* RetrieveStage queues a task (retrieve_hermes.py), the worker turns it   *)
(* into a job that starts a run, polls it and publishes one follow-up      *)
(* (services/worker/hermes), the bot posts it (services/bot/outbound) and  *)
(* reports what it posted, and the agent saves that and notes the question *)
(* as answered (broker_worker/posted.py, core/hermes_answers.py).  Jobs    *)
(* and notes live in the memory of their process; runs go on without them. *)
(***************************************************************************)
EXTENDS Naturals, FiniteSets

CONSTANTS Asks,       \* the asks that reach the chat, each of them once
          Similar,    \* pairs of asks that is_rephrase finds alike
          Parallel,   \* slots of the semaphore
          MaxJobs,    \* parallel and queued jobs
          MaxPolls,   \* max_wait_seconds / poll_seconds
          MaxParts    \* messages of one follow-up: the text and its extras

ASSUME FollowAssumption ==
    /\ IsFiniteSet(Asks) /\ Similar \subseteq SUBSET Asks
    /\ Parallel \in Nat \ {0} /\ MaxJobs \in Nat /\ MaxPolls \in Nat
    /\ MaxParts \in Nat \ {0}

VARIABLES stage,   \* where the ask is
          fate,    \* what became of it, once it is closed or its job over
          run,     \* its run on the owner's computer
          polls,   \* how often the job has asked for it
          file,    \* whether the follow-up carries a document
          shown,   \* positions of its texts that the chat got
          saved,    \* positions that the bot reports, then the agent saves
          noted    \* RecentAnswers: asks whose question counts as answered

followVars == <<stage, fate, run, polls, file, shown, saved, noted>>

JobStages == {"waiting", "running", "reporting"}
Stages == JobStages \cup {"idle", "task", "outbound", "posted", "closed"}
Fates == {"none", "covered", "offline", "merged", "dropped", "failed", "killed",
          "answered", "no_answer", "unavailable"}
\* Runs at work, but for those that a request did not reach ("cut off").
RunStates == {"none", "working", "ended", "cut off"}
Positions == 1..MaxParts

FollowTypeOK ==
    /\ stage \in [Asks -> Stages] /\ fate \in [Asks -> Fates]
    /\ run \in [Asks -> RunStates] /\ polls \in [Asks -> 0..MaxPolls]
    /\ file \in [Asks -> BOOLEAN]
    /\ shown \in [Asks -> SUBSET Positions] /\ saved \in [Asks -> SUBSET Positions]
    /\ noted \subseteq Asks
    /\ \A a \in Asks : stage[a] = "running" => run[a] = "working"

FollowInit ==
    /\ stage = [a \in Asks |-> "idle"] /\ fate = [a \in Asks |-> "none"]
    /\ run = [a \in Asks |-> "none"] /\ polls = [a \in Asks |-> 0]
    /\ file = [a \in Asks |-> FALSE]
    /\ shown = [a \in Asks |-> {}] /\ saved = [a \in Asks |-> {}]
    /\ noted = {}
-----------------------------------------------------------------------------
IsRephrase(a, b) == {a, b} \in Similar
In(stages) == {a \in Asks : stage[a] \in stages}
Jobs == In(JobStages)
Covered(a) == \E b \in noted : IsRephrase(a, b)
Repeats(a) == \E b \in Jobs : IsRephrase(a, b)

Close(a, how) ==
    /\ stage' = [stage EXCEPT ![a] = "closed"]
    /\ fate' = [fate EXCEPT ![a] = how]

(* The agent: run_hermes_step.  A question whose result was posted lately  *)
(* is not asked again, unless the message itself names its topic.          *)
IsCovered(a) ==
    /\ stage[a] = "idle" /\ Covered(a)
    /\ Close(a, "covered")
    /\ UNCHANGED <<run, polls, file, shown, saved, noted>>

(* The task is in the broker, whether or not its answer came back.         *)
Submit(a) ==
    /\ stage[a] = "idle"
    /\ stage' = [stage EXCEPT ![a] = "task"]
    /\ UNCHANGED <<fate, run, polls, file, shown, saved, noted>>

(* No tunnel, or the task does not reach the broker: nothing is asked.     *)
Offline(a) ==
    /\ stage[a] = "idle"
    /\ Close(a, "offline")
    /\ UNCHANGED <<run, polls, file, shown, saved, noted>>

(* The worker: HermesAskHandler.handle takes the task and never waits.     *)
Merge(a) ==
    /\ stage[a] = "task" /\ Repeats(a)
    /\ Close(a, "merged")
    /\ UNCHANGED <<run, polls, file, shown, saved, noted>>

TooMany(a) ==
    /\ stage[a] = "task" /\ ~Repeats(a)
    /\ Cardinality(Jobs) >= MaxJobs
    /\ Close(a, "dropped")
    /\ UNCHANGED <<run, polls, file, shown, saved, noted>>

Schedule(a) ==
    /\ stage[a] = "task" /\ ~Repeats(a)
    /\ Cardinality(Jobs) < MaxJobs
    /\ stage' = [stage EXCEPT ![a] = "waiting"]
    /\ UNCHANGED <<fate, run, polls, file, shown, saved, noted>>

HasSlot(a) == stage[a] = "waiting" /\ Cardinality(In({"running", "reporting"})) < Parallel

StartRun(a) ==
    /\ HasSlot(a)
    /\ stage' = [stage EXCEPT ![a] = "running"]
    /\ run' = [run EXCEPT ![a] = "working"]
    /\ UNCHANGED <<fate, polls, file, shown, saved, noted>>

Outcome(a, what) ==
    /\ stage' = [stage EXCEPT ![a] = "reporting"]
    /\ fate' = [fate EXCEPT ![a] = what]
    /\ polls' = [polls EXCEPT ![a] = 0]

(* The tunnel is down, before the run has started or after.                *)
StartFails(a) ==
    /\ HasSlot(a)
    /\ \E now \in {"none", "cut off"} : run' = [run EXCEPT ![a] = now]
    /\ Outcome(a, "unavailable")
    /\ UNCHANGED <<file, shown, saved, noted>>

(* One poll finds the run ended, with an answer or without; or waiting for *)
(* an approval, or at work past its time: then it is stopped.              *)
PastDeadline(a) == polls[a] = MaxPolls

PollEnded(a) ==
    /\ stage[a] = "running"
    /\ run' = [run EXCEPT ![a] = "ended"]
    /\ \E what \in {"answered", "no_answer"} : Outcome(a, what)
    /\ UNCHANGED <<file, shown, saved, noted>>

\* Mutant of StopRun: the deadline ends the job and forgets the run.
StopRunForgotten(a, wantsHuman) ==
    /\ stage[a] = "running"
    /\ wantsHuman \/ PastDeadline(a)
    /\ run' = [run EXCEPT ![a] = IF wantsHuman THEN "ended" ELSE @]
    /\ Outcome(a, "no_answer")
    /\ UNCHANGED <<file, shown, saved, noted>>
StopRun(a, wantsHuman) ==
    /\ stage[a] = "running"
    /\ wantsHuman \/ PastDeadline(a)
    /\ \E now \in {"ended", "cut off"} : run' = [run EXCEPT ![a] = now]
    /\ Outcome(a, "no_answer")
    /\ UNCHANGED <<file, shown, saved, noted>>

\* Mutant of PollAgain: no deadline.
PollForever(a) ==
    /\ stage[a] = "running"
    /\ polls' = [polls EXCEPT ![a] = 1 - @]
    /\ UNCHANGED <<stage, fate, run, file, shown, saved, noted>>
PollAgain(a) ==
    /\ stage[a] = "running" /\ ~PastDeadline(a)
    /\ polls' = [polls EXCEPT ![a] = @ + 1]
    /\ UNCHANGED <<stage, fate, run, file, shown, saved, noted>>

PollFails(a) ==
    /\ stage[a] = "running"
    /\ run' = [run EXCEPT ![a] = "cut off"]
    /\ Outcome(a, "unavailable")
    /\ UNCHANGED <<file, shown, saved, noted>>

(* The item for the bot: a document comes only from an answer.             *)
MayAttach(a) == IF fate[a] = "answered" THEN BOOLEAN ELSE {FALSE}

(* One message whatever the outcome.  Its answer may be lost on the way    *)
(* back: the job raises and ends as it does here, and the bot posts it.    *)
Publish(a) ==
    /\ stage[a] = "reporting"
    /\ stage' = [stage EXCEPT ![a] = "outbound"]
    /\ \E doc \in MayAttach(a) : file' = [file EXCEPT ![a] = doc]
    /\ UNCHANGED <<fate, run, polls, shown, saved, noted>>

(* Anything raised on the way (an answer that is no JSON, a publish that   *)
(* did not reach the broker) ends the job; the chat hears nothing.         *)
JobFails(a) ==
    /\ HasSlot(a) \/ stage[a] \in {"running", "reporting"}
    /\ Close(a, "failed")
    /\ polls' = [polls EXCEPT ![a] = 0]
    /\ UNCHANGED <<run, file, shown, saved, noted>>

WorkerRestarts ==
    /\ Jobs # {}
    /\ stage' = [a \in Asks |-> IF a \in Jobs THEN "closed" ELSE stage[a]]
    /\ fate' = [a \in Asks |-> IF a \in Jobs THEN "killed" ELSE fate[a]]
    /\ polls' = [a \in Asks |-> 0]
    /\ UNCHANGED <<run, file, shown, saved, noted>>
-----------------------------------------------------------------------------
(* The bot.  The main text goes out alone, or as the caption of the file,  *)
(* or beside it; the extras follow it, up to the first that fails.         *)
(* posted_texts: what the record for the agent says.                       *)
Claimed(a, main, extras) == IF main \/ file[a] THEN 1..(1 + extras) ELSE {}

(* should_post_more, post_more_texts: how many extras may go out.           *)
Extras(a, main) == IF main \/ file[a] THEN 0..(MaxParts - 1) ELSE {0}

PostAnswer(a) ==
    /\ stage[a] = "outbound"
    /\ \E main \in BOOLEAN : \E extras \in Extras(a, main) :
          /\ shown' = [shown EXCEPT ![a] =
                         (IF main THEN {1} ELSE {}) \cup 2..(1 + extras)]
          /\ saved' = [saved EXCEPT ![a] = Claimed(a, main, extras)]
    /\ stage' = [stage EXCEPT ![a] = "posted"]
    /\ UNCHANGED <<fate, run, polls, file, noted>>

(* The owner has left the chat, or a send raised after some of the texts:  *)
(* nothing is reported.                                                    *)
PostUnreported(a) ==
    /\ stage[a] = "outbound"
    /\ \E k \in 0..MaxParts : shown' = [shown EXCEPT ![a] = 1..k]
    /\ stage' = [stage EXCEPT ![a] = "closed"]
    /\ UNCHANGED <<fate, run, polls, file, saved, noted>>

(* The agent: rows first, then the note; the record had no text, or it is  *)
(* lost with its delivery, or the commit fails.                            *)
Record(a) ==
    /\ stage[a] = "posted" /\ saved[a] # {}
    /\ noted' = noted \cup {a}
    /\ stage' = [stage EXCEPT ![a] = "closed"]
    /\ UNCHANGED <<fate, run, polls, file, shown, saved>>

RecordLost(a) ==
    /\ stage[a] = "posted"
    /\ saved' = [saved EXCEPT ![a] = {}]
    /\ stage' = [stage EXCEPT ![a] = "closed"]
    /\ UNCHANGED <<fate, run, polls, file, shown, noted>>

(* window_seconds pass, or the agent restarts.                             *)
Forget ==
    /\ \E old \in SUBSET noted : old # {} /\ noted' = noted \ old
    /\ UNCHANGED <<stage, fate, run, polls, file, shown, saved>>

JobStep(a) ==
    \/ StartRun(a) \/ StartFails(a) \/ PollEnded(a) \/ PollAgain(a)
    \/ (\E wantsHuman \in BOOLEAN : StopRun(a, wantsHuman)) \/ PollFails(a) \/ Publish(a) \/ JobFails(a)

FollowNext ==
    \/ \E a \in Asks :
          \/ IsCovered(a) \/ Submit(a) \/ Offline(a)
          \/ Merge(a) \/ TooMany(a) \/ Schedule(a)
          \/ JobStep(a)
          \/ PostAnswer(a) \/ PostUnreported(a) \/ Record(a) \/ RecordLost(a)
    \/ WorkerRestarts \/ Forget

(* The event loop runs every job that can move.                            *)
FollowFairness == \A a \in Asks : WF_followVars(JobStep(a))
FollowSpec == FollowInit /\ [][FollowNext]_followVars /\ FollowFairness
-----------------------------------------------------------------------------
(* Two messages that ask the same get one job: at no time are two asks     *)
(* that rephrase each other open in the worker.  (dedupe.py)               *)
OneJobPerQuestion ==
    \A a, b \in Jobs : a # b => ~IsRephrase(a, b)

(* The worker holds at most MaxJobs jobs and talks to Hermes for at most   *)
(* Parallel of them.  (handler.py)                                         *)
JobsAreBounded ==
    /\ Cardinality(Jobs) <= MaxJobs
    /\ Cardinality(In({"running", "reporting"})) <= Parallel

(* Nobody in a chat approves actions on the owner's computer: the only     *)
(* runs that live on without a job are those whose job was cut off by the  *)
(* tunnel, an error or a restart.  (poll.py: deny and stop)                *)
NoRunOutlivesItsWait ==
    \A a \in Asks : run[a] = "working" /\ a \notin Jobs => fate[a] \in {"failed", "killed"}

(* The chat history says what the chat got: her rows are texts that were   *)
(* shown.  The first text of an answer with a file is the exception: it is *)
(* recorded whatever became of it (posted.py:26), although the file and    *)
(* the text in place of its caption may both fail, against posted.py:23.   *)
RowsWereShown ==
    \A a \in Asks : saved[a] \subseteq shown[a] \cup (IF file[a] THEN {1} ELSE {})

(* A job never hangs on Hermes: it ends in a follow-up or in a failure.    *)
JobsEnd == \A a \in Asks : a \in Jobs ~> a \notin Jobs
-----------------------------------------------------------------------------
(* core/hermes_answers.py:8: a question is covered when "the result for a  *)
(* rephrase of the new question was posted in this chat".                  *)
NotesAreResults == \A a \in noted : fate[a] = "answered"

(* worker/hermes/dedupe.py:4: "A job is open from ``handle()`` until its   *)
(* follow-up is posted", so that two of them never say the same.           *)
OpenUntilPosted ==
    \A a \in Jobs, b \in In({"outbound"}) : ~IsRephrase(a, b)

(* What the worker holds, what Hermes runs for it, and what the chat was   *)
(* told fit together, however the jobs end.                                *)
FollowUpsHold ==
    OneJobPerQuestion /\ JobsAreBounded /\ NoRunOutlivesItsWait /\ RowsWereShown
=============================================================================
