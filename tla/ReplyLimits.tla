---------------------------- MODULE ReplyLimits -----------------------------
(* What FinalizeStage feeds and the gate asks: her budget of answers to    *)
(* other bots and her own pace in a chat.                                  *)
EXTENDS PeerBudget, ReplyPace

(* The limits on answers hold: to other bots (bot_peer_budget.py), to a    *)
(* chat and on memes (rate_limiter.py, memes/decider.py).                  *)
LimitsHold == PeerLimitsHold /\ PaceHolds
=============================================================================
