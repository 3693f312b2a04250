----------------------------- MODULE PeerBudget -----------------------------
(***************************************************************************)
(* BotPeerBudget: how much she may say to other bots in one chat, so that  *)
(* two bots do not answer each other forever.  The gate asks it            *)
(* (stages/bot_peer.py), FinalizeStage feeds it.  It lives in the memory   *)
(* of the agent, whose loop runs one turn at a time; time passes during a  *)
(* turn, which is allowed at the gate and counted when it is finalized.    *)
(* An answer that the owner's computer has to find is counted when it is   *)
(* promised, and posted by the worker some time later (`owed').            *)
(*                                                                         *)
(* said, row and stale are history: what was counted since the process     *)
(* started, what each bot saw in the chat since a person last wrote, and   *)
(* how many answers outside the count it was owed at that moment, or is by *)
(* a turn that has failed since.                                           *)
(***************************************************************************)
EXTENDS Naturals, Sequences, FiniteSets

CONSTANTS Bots,
          MaxInRow,          \* BotPeerLimits.max_in_row
          Cooldown,          \* BotPeerLimits.cooldown_seconds
          MaxPerHour, Hour,  \* BotPeerLimits.max_per_hour, _HOUR_SECONDS
          NoBot, NoTime,     \* no turn of a bot in progress; no answer yet
          MaxClock, MaxSaid, MaxOwed  \* bounds on time, `said', `owed' and `stale'

ASSUME PeerAssumption ==
    /\ MaxInRow \in Nat /\ Cooldown \in Nat /\ MaxPerHour \in Nat /\ Hour \in Nat
    /\ MaxClock \in Nat /\ MaxSaid \in Nat /\ MaxOwed \in Nat
    /\ NoBot \notin Bots /\ NoTime \notin Nat

VARIABLES clock, inRow, last, hourly, talk, owed, said, row, stale

budget == <<inRow, last, hourly>>
peerVars == <<clock, inRow, last, hourly, talk, owed, said, row, stale>>

PeerTypeOK ==
    /\ clock \in Nat
    /\ inRow \in [Bots -> Nat]
    /\ last \in [Bots -> Nat \cup {NoTime}]
    /\ hourly \in Seq(Nat)
    /\ talk \in Bots \cup {NoBot}
    /\ owed \in [Bots -> Nat]
    /\ said \in Seq([to : Bots, at : Nat])
    /\ row \in [Bots -> Nat] /\ stale \in [Bots -> Nat]

PeerInit ==
    /\ clock = 0
    /\ inRow = [b \in Bots |-> 0]
    /\ last = [b \in Bots |-> NoTime]
    /\ hourly = <<>>
    /\ talk = NoBot
    /\ owed = [b \in Bots |-> 0]
    /\ said = <<>>
    /\ row = [b \in Bots |-> 0] /\ stale = [b \in Bots |-> 0]
-----------------------------------------------------------------------------
(* Stamps an hour old leave the deque at its left end, up to the first     *)
(* that is younger.                                                        *)
Gone(stamps) == {i \in DOMAIN stamps : \A h \in 1..i : clock - stamps[h] >= Hour}
Recent(stamps) == SubSeq(stamps, Cardinality(Gone(stamps)) + 1, Len(stamps))

TooDeep(b) == 0 < MaxInRow /\ MaxInRow <= inRow[b]
Cooling(b) == Cooldown > 0 /\ last[b] # NoTime /\ clock - last[b] < Cooldown
HourIsFull == 0 < MaxPerHour /\ MaxPerHour <= Len(Recent(hourly))
Blocked(b) == TooDeep(b) \/ Cooling(b) \/ HourIsFull

(* A person wrote: the counts of the chat start anew, whatever becomes of  *)
(* that turn.                                                              *)
PersonWrites ==
    /\ talk = NoBot
    /\ inRow' = [b \in Bots |-> 0]
    /\ row' = [b \in Bots |-> 0]
    /\ stale' = owed
    /\ UNCHANGED <<clock, last, hourly, talk, owed, said>>

(* A bot talks to her, and the budget lets the turn through.  One that is  *)
(* blocked, or only talks beside her, changes nothing.                     *)
BotWrites(b) ==
    /\ talk = NoBot
    /\ ~Blocked(b)
    /\ hourly' = Recent(hourly)
    /\ talk' = b
    /\ UNCHANGED <<clock, inRow, last, owed, said, row, stale>>

RecordReply(b) ==
    /\ Len(said) < MaxSaid
    /\ inRow' = [inRow EXCEPT ![b] = @ + 1]
    /\ last' = [last EXCEPT ![b] = clock]
    /\ hourly' = Append(hourly, clock)
    /\ said' = Append(said, [to |-> b, at |-> clock])

\* Mutant of Promise: a deferred answer is not counted.
PromiseUncounted(b) ==
    /\ talk = b /\ owed[b] < MaxOwed
    /\ owed' = [owed EXCEPT ![b] = @ + 1]
    /\ talk' = NoBot
    /\ UNCHANGED <<clock, budget, said, row, stale>>

(* FinalizeStage.skip of a deferred turn: the answer is counted and owed.  *)
Promise(b) ==
    /\ talk = b /\ owed[b] < MaxOwed
    /\ RecordReply(b)
    /\ owed' = [owed EXCEPT ![b] = @ + 1]
    /\ talk' = NoBot
    /\ UNCHANGED <<clock, row, stale>>

(* FinalizeStage.run: counted, then committed and posted, or not.          *)
Say(b, shown) ==
    /\ talk = b
    /\ RecordReply(b)
    /\ row' = IF shown THEN [row EXCEPT ![b] = @ + 1] ELSE row
    /\ talk' = NoBot
    /\ UNCHANGED <<clock, owed, stale>>

(* A stage fails, or the scene beside it, once the question is with the    *)
(* broker: the worker will answer it, and nothing was counted.             *)
FailAsking(b) ==
    /\ talk = b /\ owed[b] < MaxOwed /\ stale[b] < MaxOwed
    /\ owed' = [owed EXCEPT ![b] = @ + 1]
    /\ stale' = [stale EXCEPT ![b] = @ + 1]
    /\ talk' = NoBot
    /\ UNCHANGED <<clock, budget, said, row>>

(* A rule said no, compose refused, or a stage failed: nothing is counted. *)
Drop ==
    /\ talk # NoBot
    /\ talk' = NoBot
    /\ UNCHANGED <<clock, budget, owed, said, row, stale>>

(* The worker's late answer: nobody asks the budget any more.              *)
PostLate(b) ==
    /\ owed[b] > 0
    /\ owed' = [owed EXCEPT ![b] = @ - 1]
    /\ row' = [row EXCEPT ![b] = @ + 1]
    /\ UNCHANGED <<clock, budget, talk, said, stale>>

LoseLate(b) ==
    /\ owed[b] > 0
    /\ owed' = [owed EXCEPT ![b] = @ - 1]
    /\ UNCHANGED <<clock, budget, talk, said, row, stale>>

TimePasses ==
    /\ clock < MaxClock
    /\ clock' = clock + 1
    /\ UNCHANGED <<budget, talk, owed, said, row, stale>>

(* The agent process is replaced: the limits start anew, the promises of   *)
(* its predecessor stay with the worker.                                   *)
AgentRestarts ==
    /\ inRow' = [b \in Bots |-> 0]
    /\ last' = [b \in Bots |-> NoTime]
    /\ hourly' = <<>>
    /\ talk' = NoBot
    /\ said' = <<>>
    /\ row' = [b \in Bots |-> 0]
    /\ stale' = owed
    /\ UNCHANGED <<clock, owed>>

PeerNext ==
    \/ PersonWrites \/ Drop \/ TimePasses \/ AgentRestarts
    \/ \E b \in Bots : BotWrites(b) \/ Promise(b) \/ FailAsking(b) \/ PostLate(b) \/ LoseLate(b)
    \/ \E b \in Bots, shown \in BOOLEAN : Say(b, shown)

PeerSpec == PeerInit /\ [][PeerNext]_peerVars
-----------------------------------------------------------------------------
(* Two bots cannot talk to each other forever: between two messages of a   *)
(* person, and within one life of the agent, a bot gets at most MaxInRow   *)
(* messages, however late some of them are found, on top of those it was   *)
(* owed before, and of one for each turn that failed after it had asked    *)
(* the owner's computer.  (bot_peer_budget.py: counted when promised)      *)
LoopEnds ==
    MaxInRow > 0 => \A b \in Bots : row[b] + owed[b] <= MaxInRow + stale[b]

(* No hour holds more than MaxPerHour answers to bots, wherever the hour   *)
(* begins: the deque forgets no stamp too early.                           *)
HourHolds ==
    MaxPerHour > 0 =>
        \A j \in DOMAIN said :
            Cardinality({i \in 1..j : said[j].at - said[i].at < Hour}) <= MaxPerHour

(* A turn allowed at the gate is counted later, but in time for the next:  *)
(* two answers to one bot are counted at least a cooldown apart.           *)
AnswersAreSpaced ==
    \A i, j \in DOMAIN said :
        i < j /\ said[i].to = said[j].to => said[j].at - said[i].at >= Cooldown

(* The three limits on her talk with other bots, kept at once.             *)
PeerLimitsHold == LoopEnds /\ HourHolds /\ AnswersAreSpaced
=============================================================================
