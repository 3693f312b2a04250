------------------------------- MODULE ReplyRules -------------------------------
(***************************************************************************)
(* Does a message get an answer?  The deterministic part of the decision   *)
(* gate (vanessa/pipeline/decision): the prefilter that spares the planner *)
(* the obvious cases, the reaction gate, the rules that settle the turn    *)
(* once the planner has spoken, and the compose gate that may still        *)
(* overrule them.                                                          *)
(*                                                                         *)
(* What the detectors of the code find in the words of a message are its   *)
(* Traits; what the rules read of the chat is a context c:                 *)
(*   from, text  who wrote what                                            *)
(*   mention     the text mentions her (for a bot, also by name)           *)
(*   rows        the session: messages, oldest first, the last being this  *)
(*   listening   she spoke just now (in_post_reply_listen_window)          *)
(*   limited, muted, owner, low                                            *)
(*               the rate limit is reached, the sender is ignored, is an   *)
(*               owner, she thinks little of the sender or the planner     *)
(*               says that the topic comes again and again                 *)
(*   ownerDm, proxy                                                        *)
(*               the turn is the owner's private chat, a bot's question    *)
(*               for the owner                                             *)
(*   plan        the planner's should_reply: "yes", "no", "unsure"         *)
(*   humor       the planner saw a joke worth making                       *)
(***************************************************************************)
EXTENDS Naturals, Sequences, FiniteSets, SequencesExt

CONSTANTS Texts,
          Traits,        \* what the detectors find in each text ("photo": no words)
          ReplyTo,       \* whose message the text replies to, or None
          Vanessa, None,
          Topic,         \* texts of one topic have most of their words in common
          RepeatWindow,  \* rows RepeatedQuestionRule looks at
          LoopWindow,    \* rows searched for a topic that comes again and again
          ContinueBack   \* rows within which a continuation is hers to answer

ASSUME ReplyRulesAssumption ==
    /\ Traits \in [Texts -> SUBSET
          {"mention", "name", "lead", "question", "trigger", "request", "long",
           "filler", "short", "closure", "remark", "third", "dismissal", "vocative",
           "username", "continuation", "echo", "photo",
           "mute", "spare", "pronoun", "owner"}]
    /\ \A t \in Texts : "photo" \in Traits[t] => "dismissal" \notin Traits[t]
    /\ Vanessa # None

Is(c, trait) == trait \in Traits[c.text]

-----------------------------------------------------------------------------
(* The session *)

Row(from, text) == [from |-> from, text |-> text]

HerLast(rows) == SelectLastInSeq(rows, LAMBDA r : r.from = Vanessa)

Dismisses(r) == r.from # Vanessa /\ "dismissal" \in Traits[r.text]

\* Nobody told her to stop since she last spoke (or ever, in this session).
Hushed(rows) == \E i \in HerLast(rows) + 1 .. Len(rows) : Dismisses(rows[i])

\* The sender is the one she answered last.
Partner(c) ==
    LET i == HerLast(c.rows)
    IN  i > 1 /\ c.rows[i - 1].from = c.from

FollowsHer(c) == Len(c.rows) >= 2 /\ c.rows[Len(c.rows) - 1].from = Vanessa

\* A request that nobody dismissed is still open in the session; after a
\* dismissal only one that names her.
SessionActive(c) ==
    LET last == SelectLastInSeq(c.rows, Dismisses)
        Of(i) == IF c.rows[i].from = Vanessa THEN {} ELSE Traits[c.rows[i].text]
    IN  \E i \in last + 1 .. Len(c.rows) :
            /\ Of(i) \cap {"question", "name", "trigger"} # {}
            /\ last > 0 => "name" \in Of(i)

Repeats(rows, c) ==
    Cardinality({i \in 1 .. Len(rows) : rows[i] = Row(c.from, c.text)}) >= 2

Latest(rows, n) == SubSeq(rows, IF Len(rows) > n THEN Len(rows) - n + 1 ELSE 1, Len(rows))

\* The same question, whoever asked it, was answered at once.
AnsweredBefore(c) ==
    LET rows == Latest(c.rows, RepeatWindow)
    IN  /\ Is(c, "long")
        /\ \E i \in 1 .. Len(rows) - 1 :
              /\ rows[i].from # Vanessa
              /\ rows[i].text = c.text
              /\ rows[i + 1].from = Vanessa

\* The sender has asked for this topic twice before; the message itself, the last
\* of the rows, is not compared to itself.
Annoys(c) ==
    LET rows == Latest(c.rows, LoopWindow)
    IN  Cardinality({i \in 1 .. Len(rows) - 1 :
                        rows[i].from = c.from /\ Topic[rows[i].text] = Topic[c.text]}) >= 2

\* It says no more than what she said, to her last words; the pair it makes with
\* them is the first of the loop.
Echoes(c) == Is(c, "echo") /\ HerLast(c.rows) > 0

-----------------------------------------------------------------------------
(* Who is meant *)

RepliesToHer(c) == ReplyTo[c.text] = Vanessa
RepliesToOther(c) == ReplyTo[c.text] \notin {Vanessa, None}
Direct(c) == c.mention \/ RepliesToHer(c)
Addressed(c) == Direct(c) \/ Is(c, "name")
Asks(c) == Is(c, "question") \/ Is(c, "name")

\* Said about something else: a remark, talk about her, a farewell.
Aside(c) == Is(c, "closure") \/ Is(c, "remark") \/ Is(c, "third")

\* mention_warrants_reply
Warrants(c, plan) == RepliesToHer(c) \/ plan = "yes" \/ ~Aside(c)

Expected(c) == Addressed(c) /\ Warrants(c, c.plan)

\* planner_affirms_reply
Affirmed(c) ==
    /\ c.plan = "yes"
    /\ \/ Addressed(c)
       \/ c.listening
       \/ SessionActive(c) /\ (Asks(c) \/ Is(c, "trigger"))

Chatter(c) == Is(c, "filler") /\ ~Is(c, "trigger")

Continues(c) ==
    /\ Is(c, "continuation")
    /\ HerLast(c.rows) > 0
    /\ Len(c.rows) - HerLast(c.rows) <= ContinueBack
    /\ Partner(c)

-----------------------------------------------------------------------------
(* Before the planner *)

\* Mutant: who is ignored is looked at last, after what is said.
HardIgnoreUnmuted(c) ==
    IF Is(c, "dismissal") THEN "dismissal"
    ELSE IF Echoes(c) THEN "quote_echo"
    ELSE IF \/ Is(c, "third") /\ ~Direct(c)
            \/ (RepliesToOther(c) \/ Is(c, "username")) /\ ~Addressed(c) THEN "side_talk"
    ELSE IF c.muted /\ ~Direct(c) THEN "user_ignored"
    ELSE ""

\* Silence whatever the planner would say; "" is no such case.
HardIgnore(c) ==
    IF c.muted THEN "user_ignored"
    ELSE IF Is(c, "dismissal") THEN "dismissal"
    ELSE IF Echoes(c) THEN "quote_echo"
    ELSE IF \/ Is(c, "third") /\ ~Direct(c)
            \/ (RepliesToOther(c) \/ Is(c, "username")) /\ ~Addressed(c) THEN "side_talk"
    ELSE ""

\* A table of steps decides by the first that applies.
FirstOf(steps) == steps[SelectInSeq(steps, LAMBDA s : s.on)]

\* The prefilter's checks, in their order: is it worth asking the planner?
PrefilterChecks(c) == <<
    [on |-> Addressed(c), allow |-> Warrants(c, "unsure")],
    [on |-> Continues(c), allow |-> TRUE],
    [on |-> c.listening, allow |-> ~(Chatter(c) \/ Is(c, "remark") \/ Is(c, "closure"))],
    [on |-> (Is(c, "filler") \/ Is(c, "short")) /\ ~Is(c, "trigger"),
     allow |-> ~Is(c, "filler")],
    [on |-> Is(c, "closure"), allow |-> FALSE],
    [on |-> /\ FollowsHer(c)
            /\ ~(Is(c, "filler") \/ Is(c, "short"))
            /\ Is(c, "trigger") \/ Is(c, "question"), allow |-> TRUE],
    [on |-> Is(c, "trigger") /\ FollowsHer(c), allow |-> TRUE],
    [on |-> Is(c, "question") /\ ~Hushed(c.rows), allow |-> TRUE],
    [on |-> TRUE, allow |-> FALSE]>>

PrefilterAllows(c) == HardIgnore(c) = "" /\ FirstOf(PrefilterChecks(c)).allow

\* The reaction gate: what is never asked about, what the words make clear, and
\* what its language model may answer.  An error or an odd answer is a yes.
Bypasses(c) == RepliesToHer(c) \/ c.listening
Clear(c) == Is(c, "lead") \/ Is(c, "question") \/ Is(c, "request") \/ Continues(c)
Classified == BOOLEAN

FastVerdict(c) ==
    FirstOf(<<[on |-> Clear(c), respond |-> {TRUE}],
              [on |-> Is(c, "filler"), respond |-> {FALSE}],
              [on |-> TRUE, respond |-> Classified]>>).respond

Reactions(c) == IF Bypasses(c) THEN {TRUE} ELSE FastVerdict(c)

-----------------------------------------------------------------------------
(* After the planner *)

ReplyReasons == {"owner_dm", "proxy_question", "addressing", "listen_window",
                 "planner", "intent", "force_reply"}

PreApproved == ReplyReasons \ {"intent"}

\* Mutant: the planner may veto an answer to a message that addresses her.
SettleVetoed(c) ==
    IF c.plan = "no" /\ Direct(c) /\ ~c.muted THEN "not_expected"
    ELSE FirstOf(<<
      [on |-> c.limited, why |-> "rate_limited"],
      [on |-> c.proxy, why |-> "proxy_question"],
      [on |-> HardIgnore(c) # "", why |-> HardIgnore(c)],
      [on |-> Direct(c) /\ Warrants(c, c.plan), why |-> "addressing"],
      [on |-> c.plan = "yes", why |-> "planner"],
      [on |-> TRUE, why |-> "ignore"]>>).why

\* What the rules look for, by their names.  The last row of the session is the
\* message itself, so ConsecutiveReplyRule never applies; SenderMetricsRule comes
\* last and only renames the silence of the last line of Settle.
Noise(c) == Chatter(c) /\ ~Asks(c)

Repeated(c) ==
    c.plan # "yes" /\ (Repeats(Latest(c.rows, RepeatWindow), c) \/ AnsweredBefore(c))

Essential(c) == c.owner \/ c.listening \/ Expected(c) \/ c.plan = "yes"
LowAttitude(c) == (c.low \/ Annoys(c)) /\ ~Essential(c)

DirectAddress(c) == Direct(c) /\ Warrants(c, c.plan)

ListenWindow(c) ==
    /\ c.listening /\ ~Addressed(c) /\ ~Chatter(c) /\ ~Is(c, "closure")
    /\ \/ ~Is(c, "remark") /\ ~Is(c, "third") /\ c.plan # "no"
       \/ Partner(c)

Vetoed(c) == ~c.listening /\ c.plan = "no" /\ ~Addressed(c)

Intent(c) ==
    /\ Asks(c)
    /\ ~Is(c, "third") \/ Addressed(c)
    /\ Expected(c) \/ Affirmed(c) \/ (c.plan # "no" /\ SessionActive(c))

Trigger(c) ==
    /\ Is(c, "trigger")
    /\ Addressed(c) \/ Affirmed(c) \/ SessionActive(c) \/ c.plan = "unsure"

\* default_decision_rules
Settle(c) ==
    FirstOf(<<
      [on |-> c.limited, why |-> "rate_limited"],
      [on |-> c.ownerDm, why |-> "owner_dm"],
      [on |-> c.proxy, why |-> "proxy_question"],
      [on |-> Noise(c), why |-> "noise"],
      [on |-> HardIgnore(c) # "", why |-> HardIgnore(c)],
      [on |-> Repeated(c), why |-> "repeated"],
      [on |-> LowAttitude(c), why |-> "low_attitude"],
      [on |-> DirectAddress(c), why |-> "addressing"],
      [on |-> ListenWindow(c), why |-> "listen_window"],
      [on |-> Vetoed(c), why |-> "not_expected"],
      [on |-> c.plan = "yes", why |-> "planner"],
      [on |-> Intent(c), why |-> "intent"],
      [on |-> Trigger(c), why |-> "force_reply"],
      [on |-> TRUE, why |-> "ignore"]>>).why

\* is_addressed_to_bot, outside the listen window: meant for her, if not by name.
MeantForHer(c) ==
    IF Addressed(c) THEN Warrants(c, c.plan)
    ELSE \/ c.plan = "yes"
         \/ Is(c, "vocative") /\ ~Is(c, "remark") /\ ~Is(c, "third")
         \/ Is(c, "question") /\ ~Aside(c)

\* should_block_compose: the last word on an answer no explicit reason backs.
BlocksCompose(c) ==
    /\ ~c.humor
    /\ \/ RepliesToOther(c) /\ ~Direct(c)
       \/ c.plan = "no" /\ (Repeats(c.rows, c) \/ ~Addressed(c))
       \/ ~c.listening /\ ~MeantForHer(c)

\* DecisionEngine.decide
Decide(c) ==
    LET why == Settle(c)
    IN  IF why \in ReplyReasons \ PreApproved /\ BlocksCompose(c)
        THEN "not_expected" ELSE why
===============================================================================
