----------------------------- MODULE ReplyPace ------------------------------
(***************************************************************************)
(* RateLimiter and MemeDecider: how many answers a chat gets per minute,   *)
(* and how many of them carry a meme.  Both are asked early in a turn (by  *)
(* the first rule, by RetrieveStage) and fed at its end by FinalizeStage;  *)
(* in between time passes, the turn may fail, or compose may refuse.  The  *)
(* history variable sent is what was counted since the process started.    *)
(***************************************************************************)
EXTENDS Naturals, Sequences, FiniteSets

CONSTANTS MaxReplies, Window,  \* RateLimiter
          MemeGap,             \* MemeDecider.min_messages_between
          NoReply,             \* no turn on its way to an answer
          MaxPaceTime, MaxSent \* bounds on time and on `sent'

ASSUME PaceAssumption ==
    /\ MaxReplies \in Nat /\ Window \in Nat /\ MemeGap \in Nat \ {0}
    /\ MaxPaceTime \in Nat /\ MaxSent \in Nat
    /\ NoReply \notin [exempt : BOOLEAN, meme : BOOLEAN]

VARIABLES second, bucket, sinceMeme, reply, sent

paceVars == <<second, bucket, sinceMeme, reply, sent>>

(* A turn on its way to an answer: past the rules by right or exempt from  *)
(* them, with a meme offered or not.                                       *)
Reply == [exempt : BOOLEAN, meme : BOOLEAN]

PaceTypeOK ==
    /\ second \in Nat
    /\ bucket \in Seq(Nat)
    /\ sinceMeme \in Nat
    /\ reply \in Reply \cup {NoReply}
    /\ sent \in Seq([at : Nat, exempt : BOOLEAN, meme : BOOLEAN])

PaceInit ==
    /\ second = 0
    /\ bucket = <<>>
    /\ sinceMeme = MemeGap
    /\ reply = NoReply
    /\ sent = <<>>
-----------------------------------------------------------------------------
(* Stamps older than the window leave the deque at its left end, up to the *)
(* first that is not.                                                      *)
Outdated(stamps) == {i \in DOMAIN stamps : \A h \in 1..i : second - stamps[h] > Window}
InWindow(stamps) == SubSeq(stamps, Cardinality(Outdated(stamps)) + 1, Len(stamps))

IsLimited == MaxReplies > 0 /\ Len(InWindow(bucket)) >= MaxReplies

(* A turn that the rules allow; all of them come after the rate limit.     *)
PassRules ==
    /\ reply = NoReply
    /\ ~IsLimited
    /\ bucket' = InWindow(bucket)
    /\ reply' = [exempt |-> FALSE, meme |-> FALSE]
    /\ UNCHANGED <<second, sinceMeme, sent>>

(* A bare photo is answered before the rules are asked.                    *)
PassPhoto ==
    /\ reply = NoReply
    /\ reply' = [exempt |-> TRUE, meme |-> FALSE]
    /\ UNCHANGED <<second, bucket, sinceMeme, sent>>

(* RetrieveStage puts a meme (or the menu) in front of the model; that     *)
(* starts the cooldown even if the answer never comes.                     *)
OfferMeme ==
    /\ reply # NoReply /\ ~reply.meme
    /\ sinceMeme >= MemeGap
    /\ sinceMeme' = 0
    /\ reply' = [reply EXCEPT !.meme = TRUE]
    /\ UNCHANGED <<second, bucket, sent>>

Finalize ==
    /\ reply # NoReply
    /\ Len(sent) < MaxSent
    /\ bucket' = IF MaxReplies > 0 THEN Append(bucket, second) ELSE bucket
    /\ sinceMeme' = sinceMeme + 1
    /\ sent' = Append(sent, [at |-> second, exempt |-> reply.exempt, meme |-> reply.meme])
    /\ reply' = NoReply
    /\ UNCHANGED second

\* Mutant of Refuse: the step of the gap is undone, which was never made.
RefuseTakesBack ==
    /\ reply # NoReply
    /\ reply' = NoReply
    /\ sinceMeme' = sinceMeme - 1
    /\ UNCHANGED <<second, bucket, sent>>

Refuse ==
    /\ reply # NoReply
    /\ reply' = NoReply
    /\ UNCHANGED <<second, bucket, sinceMeme, sent>>

SecondPasses ==
    /\ second < MaxPaceTime
    /\ second' = second + 1
    /\ UNCHANGED <<bucket, sinceMeme, reply, sent>>

PaceRestarts ==
    /\ bucket' = <<>>
    /\ sinceMeme' = MemeGap
    /\ reply' = NoReply
    /\ sent' = <<>>
    /\ UNCHANGED second

PaceNext ==
    \/ PassRules \/ PassPhoto \/ OfferMeme \/ Finalize \/ Refuse
    \/ SecondPasses \/ PaceRestarts

PaceSpec == PaceInit /\ [][PaceNext]_paceVars
-----------------------------------------------------------------------------
(* An answer that the rules allowed is never one too many in its window,   *)
(* with the exempt ones counted in: what a turn was allowed by stays true  *)
(* until it is counted.  (rate_limit.py, gate_vision.py)                   *)
RateHolds ==
    MaxReplies > 0 =>
        \A j \in DOMAIN sent :
            ~sent[j].exempt =>
                Cardinality({i \in 1..j : sent[j].at - sent[i].at <= Window}) <= MaxReplies

(* Of MemeGap replies in a row at most one has a meme, failed turns and    *)
(* refused answers in between or not.  (memes/decider.py)                  *)
MemesAreSpaced ==
    \A i, j \in DOMAIN sent : i < j /\ sent[i].meme /\ sent[j].meme => j - i >= MemeGap

(* The two limits on her own pace.                                         *)
PaceHolds == RateHolds /\ MemesAreSpaced
=============================================================================
