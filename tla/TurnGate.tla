-------------------------------- MODULE TurnGate --------------------------------
(***************************************************************************)
(* The decision gate over the life of a group chat                         *)
(* (vanessa/pipeline/stages/gate*.py): every message of the chat becomes a *)
(* turn, and the verdict on it depends on what was said before - the       *)
(* session, cut by idle gaps and by the window - and on whom the owner     *)
(* asked her to ignore.  ReplyRules holds the rules; this module holds the *)
(* state they read and the steps of a turn around them.                    *)
(*                                                                         *)
(* The agent takes one request at a time, so a turn is one step.  What is  *)
(* decided elsewhere is any value here: the planner's words, the reaction  *)
(* gate's model, the sender's metrics, and whether the reply limits        *)
(* (ReplyBudgets) are reached.                                             *)
(***************************************************************************)
EXTENDS ReplyRules

CONSTANTS Owners,      \* the accounts of the owner
          Bots,        \* other bots of the chat
          Says,        \* <<who, text>>: the messages that may be posted
          Window,      \* rows loaded into a session
          ListenCount, \* messages after her reply she listens to
          IdleGap,     \* silence longer than this ends a session
          ProxyChat    \* is this the chat where she answers for the owner?

People == {s[1] : s \in Says} \ Bots

ASSUME TurnGateAssumption ==
    /\ Vanessa \notin People \cup Bots
    /\ Owners \cap Bots = {}
    /\ \A s \in Says : s = <<s[1], s[2]>> /\ s[2] \in Texts
    /\ ReplyTo \in [Texts -> People \cup Bots \cup {Vanessa, None}]
    /\ Window \in Nat \ {0} /\ ListenCount \in Nat /\ IdleGap \in Nat
    /\ ProxyChat \in BOOLEAN

VARIABLES recent,   \* the committed rows of the chat, oldest first
          quiet,    \* how long ago the last of them was written
          spoke,    \* how long ago she last wrote
          ignored,  \* ChatIgnoreRegistry: whom she ignores here, in memory
          wanted,   \* ghost: whom the owner last wished her to ignore
          why       \* the reason of the last verdict

vars == <<recent, quiet, spoke, ignored, wanted, why>>

Rows == [from : People \cup Bots \cup {Vanessa}, text : Texts \cup {None}]

\* Mutant: a window one row too wide.
NewestAndOne(rows, n) == SubSeq(rows, IF Len(rows) > n THEN Len(rows) - n ELSE 1, Len(rows))

Newest(rows, n) == SubSeq(rows, IF Len(rows) > n THEN Len(rows) - n + 1 ELSE 1, Len(rows))

\* The session a turn sees: the rows since the last idle gap, the new one last.
View(s) ==
    Newest(Append(IF quiet > IdleGap THEN <<>> ELSE recent, Row(s[1], s[2])), Window)

-----------------------------------------------------------------------------
(* The owner's ignore command *)

\* Whom it means: the author of the message replied to, or with a pronoun the
\* last other person or bot who wrote.
IgnoreTarget(s) ==
    LET view == View(s)
        Other(r) == r.from \notin {Vanessa, s[1]}
        i == SelectLastInSeq(view, Other)
    IN  IF ReplyTo[s[2]] \notin {None, s[1]} THEN {ReplyTo[s[2]]}
        ELSE IF "pronoun" \in Traits[s[2]] /\ i > 0 THEN {view[i].from} ELSE {}

Commands(s) == s[1] \in Owners /\ "name" \in Traits[s[2]]

\* The words for "ignore" are looked for first; they are part of "do not ignore".
ApplyIgnore(s) ==
    IF ~Commands(s) THEN ignored
    ELSE IF "mute" \in Traits[s[2]] THEN ignored \cup IgnoreTarget(s)
    ELSE IF "spare" \in Traits[s[2]] THEN ignored \ IgnoreTarget(s)
    ELSE ignored

\* What the owner means by it.
Wish(s) ==
    IF ~Commands(s) THEN wanted
    ELSE IF "spare" \in Traits[s[2]] THEN wanted \ IgnoreTarget(s)
    ELSE IF "mute" \in Traits[s[2]] THEN wanted \cup IgnoreTarget(s)
    ELSE wanted

-----------------------------------------------------------------------------
(* The verdict *)

\* Mutant: a dismissal does not end the listen window.
ListensOn(view) ==
    LET i == HerLast(view)
    IN  i > 0 /\ spoke <= IdleGap /\ Len(view) - i \in 1 .. ListenCount

\* in_post_reply_listen_window
Listens(view) ==
    LET i == HerLast(view)
    IN  /\ i > 0 /\ spoke <= IdleGap /\ Len(view) - i \in 1 .. ListenCount
        /\ ~Hushed(view)

\* A bot's question or request to the owner, in the chat where she speaks for him.
ProxyQuestion(s) ==
    /\ ProxyChat /\ s[1] \in Bots
    /\ Traits[s[2]] \cap {"question", "request"} # {}
    /\ ReplyTo[s[2]] \in Owners \/ "owner" \in Traits[s[2]]

\* What the rules read of the chat; the rest is filled in by Verdicts.
Context(s) ==
    LET view == View(s)
    IN  [from |-> s[1], text |-> s[2],
         mention |-> \/ "mention" \in Traits[s[2]]
                     \/ s[1] \in Bots /\ "name" \in Traits[s[2]],
         rows |-> view, listening |-> Listens(view),
         muted |-> s[1] \in ApplyIgnore(s), owner |-> s[1] \in Owners,
         ownerDm |-> FALSE, proxy |-> ProxyQuestion(s),
         limited |-> FALSE, low |-> FALSE, plan |-> "unsure", humor |-> FALSE]

\* What the planner thinks of the message, and she of its sender.
Opinion == [plan : {"yes", "no", "unsure"}, humor : BOOLEAN, low : BOOLEAN]

Told(c, o) == [c EXCEPT !.plan = o.plan, !.humor = o.humor, !.low = o.low]

\* The rules, with the rate limit reached (then nothing else counts) or not, for
\* any opinion.
Decisions(c) ==
    {Decide([c EXCEPT !.limited = TRUE])} \cup {Decide(Told(c, o)) : o \in Opinion}

\* The filters before the planner, whatever the reaction gate's model says, and
\* the rules after it.  A proxy question skips the filters.
Filtered(c) ==
    IF c.proxy THEN Decisions(c)
    ELSE IF ~PrefilterAllows(c)
         THEN {IF HardIgnore(c) # "" THEN HardIgnore(c) ELSE "prefilter"}
    ELSE (IF FALSE \in Reactions(c) THEN {"reaction_gate"} ELSE {})
         \cup (IF TRUE \in Reactions(c) THEN Decisions(c) ELSE {})

\* GateStage.run after the ignore command: other bots, bare photos, the rest.
Verdicts(s) ==
    LET c == Context(s)
    IN  IF s[1] \in Bots /\ ~Addressed(c) /\ ~c.proxy THEN {"bot_peer_side"}
        ELSE (IF s[1] \in Bots THEN {"bot_peer_limit"} ELSE {})
             \cup (IF ~Is(c, "photo") THEN Filtered(c)
                   ELSE IF c.listening \/ Direct(c) THEN {"photo"} ELSE {"not_expected"})

Answers == ReplyReasons \cup {"photo"}

-----------------------------------------------------------------------------
(* The steps *)

Init ==
    /\ recent = <<>>
    /\ quiet = 0 /\ spoke = 0
    /\ ignored = {} /\ wanted = {}
    /\ why = "none"

\* The command takes effect at once, whatever becomes of the turn.
Heard(s) == ignored' = ApplyIgnore(s) /\ wanted' = Wish(s)

\* She answers: both rows are committed.
Answer(s, verdicts) ==
    /\ Heard(s)
    /\ why' \in verdicts \cap Answers
    /\ recent' = Newest(Append(View(s), Row(Vanessa, None)), Window)
    /\ quiet' = 0 /\ spoke' = 0

\* The message is only kept: the gate says no, or it says yes and the model
\* declines to answer, the answer is deferred, or the turn fails after Retrieve
\* has committed.
Keep(s, verdicts) ==
    /\ Heard(s)
    /\ why' \in (verdicts \ Answers)
                 \cup (IF verdicts \cap Answers # {} THEN {"declined"} ELSE {})
    /\ recent' = View(s)
    /\ quiet' = 0
    /\ UNCHANGED spoke

\* The turn fails before anything is committed.
Fail(s) ==
    /\ Heard(s)
    /\ why' = "failed"
    /\ UNCHANGED <<recent, quiet, spoke>>

\* Ages beyond the idle gap are all alike.
Tick ==
    /\ quiet <= IdleGap \/ spoke <= IdleGap
    /\ quiet' = IF quiet > IdleGap THEN quiet ELSE quiet + 1
    /\ spoke' = IF spoke > IdleGap THEN spoke ELSE spoke + 1
    /\ why' = "none"
    /\ UNCHANGED <<recent, ignored, wanted>>

\* A new agent process has the rows, and no list of ignored people.
Restart ==
    /\ ignored' = {} /\ wanted' = {} /\ why' = "none"
    /\ UNCHANGED <<recent, quiet, spoke>>

Next ==
    \/ \E s \in Says : \E verdicts \in {Verdicts(s)} :
          Answer(s, verdicts) \/ Keep(s, verdicts) \/ Fail(s)
    \/ Tick
    \/ Restart

Spec == Init /\ [][Next]_vars

-----------------------------------------------------------------------------
(* Properties *)

TypeOK ==
    /\ recent \in Seq(Rows) /\ Len(recent) <= Window
    /\ quiet \in 0 .. IdleGap + 1 /\ spoke \in 0 .. IdleGap + 1
    /\ ignored \subseteq People \cup Bots \cup {Vanessa}
    /\ wanted \subseteq People \cup Bots \cup {Vanessa}
    /\ why \in Answers \cup
         {"none", "failed", "declined", "bot_peer_side", "bot_peer_limit", "prefilter",
          "reaction_gate", "not_expected", "user_ignored", "dismissal", "quote_echo",
          "side_talk", "rate_limited", "noise", "repeated", "low_attitude", "ignore"}

\* The step from here answered the message m of a session view.
Answered(m, view) ==
    /\ why' \in Answers
    /\ view = View(<<m.from, m.text>>)
    /\ recent' = Newest(Append(view, Row(Vanessa, None)), Window)

\* Whom the owner muted gets no answer, however she is addressed and whatever
\* the planner says, even when the muting turn itself failed; only a bare photo
\* and a bot's question for the owner are not looked at for it
\* (eligibility_ignore.py:90, gate_vision.py:74, proxy_rules.py:21).
MutedStayUnanswered ==
    [][why' \in Answers \ {"photo", "proxy_question"} =>
          \A s \in Says :
              Answered(Row(s[1], s[2]), View(s)) => s[1] \notin ignored \cap ignored']_vars

\* The row calls her: by name, by a mention, by a reply to her.
Calls(r) ==
    /\ r.from # Vanessa
    /\ \/ Traits[r.text] \cap {"name", "mention"} # {}
       \/ ReplyTo[r.text] = Vanessa

\* Told to stop, she speaks to nobody until she is addressed, unless the planner
\* is sure or the one she answered last demands more: no listen window, open
\* request or keyword brings her back as long as nobody has named her since
\* (chat_session_state.py:66, session_window.py:64, continuation.py:137).
HushHolds ==
    [][why' \in Answers \ {"planner", "proxy_question"} =>
       \A s \in Says :
          LET view == View(s)
              last == SelectLastInSeq(view, Dismisses)
          IN  Answered(Row(s[1], s[2]), view) /\ Hushed(view) =>
              \/ \E i \in last + 1 .. Len(view) : Calls(view[i])
              \/ Continues(Context(s))]_vars

\* A mention of her or a reply to her that is no remark in passing is never
\* dropped as not meant for her: neither the planner's veto nor her low opinion
\* of the sender silences it (rules.py:82, engine_gate.py:17).
AddressedAreHeard ==
    [][why' \in {"prefilter", "not_expected", "side_talk", "low_attitude", "ignore"} =>
       ~\E s \in Says :
          /\ s[1] \in People
          /\ "photo" \notin Traits[s[2]]
          /\ \/ ReplyTo[s[2]] = Vanessa
             \/ /\ "mention" \in Traits[s[2]]
                /\ Traits[s[2]] \cap {"closure", "remark", "third"} = {}
          /\ recent' = View(s)
          /\ recent' # recent]_vars

\* She ignores nobody the owner has pardoned since: "do not ignore him" ends the
\* ignoring, as _UNIGNORE_CMD lists it (user_ignore.py:25).
SparedAreHeard == ignored \subseteq wanted
===============================================================================
