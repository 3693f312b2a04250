----------------------------- MODULE TurnGateProofs -----------------------------
(***************************************************************************)
(* Proofs about the decision gate, for any people and bots, any texts with *)
(* any traits, any session window and any opinion of the models.           *)
(***************************************************************************)
EXTENDS TurnGate, OrderingProofs, SequenceTheorems

-----------------------------------------------------------------------------
(* Tables and rows *)

\* Some numbers up to n have a least one, and a greatest one.
LEMMA ExtremesExist ==
    ASSUME NEW n \in Nat, NEW S \in SUBSET (1 .. n), S # {}
    PROVE  (\E x \in S : \A y \in S : x <= y) /\ (\E x \in S : \A y \in S : x >= y)
<1>1. S \in SUBSET Nat /\ \A k \in S : k <= n
    OBVIOUS
<1>2. QED
    BY <1>1, LeastOfNaturals, GreatestOfNaturals

\* A table decides by a step that is on, and by none after one that is.
LEMMA FirstOfIs ==
    ASSUME NEW steps, Len(steps) \in Nat, NEW k \in 1 .. Len(steps), steps[k].on
    PROVE  \E i \in 1 .. k : steps[i].on /\ FirstOf(steps) = steps[i]
<1> DEFINE S == {i \in 1 .. Len(steps) : steps[i].on}
<1>1. S \in SUBSET (1 .. Len(steps)) /\ k \in S
    OBVIOUS
<1>2. SelectInSeq(steps, LAMBDA s : s.on) = CHOOSE x \in S : \A y \in S : x <= y
    BY <1>1 DEF SelectInSeq, Min
<1>3. PICK x \in S : \A y \in S : x <= y
    BY <1>1, ExtremesExist
<1>4. PICK m \in S : m = SelectInSeq(steps, LAMBDA s : s.on) /\ \A y \in S : m <= y
    BY <1>2, <1>3
<1>5. m \in 1 .. k /\ steps[m].on
    BY <1>1, <1>4
<1>6. QED BY <1>4, <1>5 DEF FirstOf

-----------------------------------------------------------------------------
(* Types *)

Persons == People \cup Bots \cup {Vanessa}

Reasons == Answers \cup
    {"none", "failed", "declined", "bot_peer_side", "bot_peer_limit", "prefilter",
     "reaction_gate", "not_expected", "user_ignored", "dismissal", "quote_echo",
     "side_talk", "rate_limited", "noise", "repeated", "low_attitude", "ignore"}

\* The newest of some rows are rows, no more than asked for; the last stays last.
LEMMA NewestIs ==
    ASSUME NEW R, NEW rows \in Seq(R), NEW n \in Nat \ {0}, Len(rows) > 0
    PROVE  /\ Newest(rows, n) \in Seq(R)
           /\ Len(Newest(rows, n)) = IF Len(rows) > n THEN n ELSE Len(rows)
           /\ \A i \in 1 .. Len(Newest(rows, n)) :
                 Newest(rows, n)[i] = rows[Len(rows) - Len(Newest(rows, n)) + i]
<1>1. Len(rows) \in Nat /\ \A i \in 1 .. Len(rows) : rows[i] \in R
    BY LenProperties, ElementOfSeq
<1>2. PICK m \in 1 .. Len(rows) : m = IF Len(rows) > n THEN Len(rows) - n + 1 ELSE 1
    <2>1. (IF Len(rows) > n THEN Len(rows) - n + 1 ELSE 1) \in 1 .. Len(rows)
        BY <1>1
    <2>2. QED BY <2>1
<1>3. Newest(rows, n) = SubSeq(rows, m, Len(rows))
    BY <1>2 DEF Newest
<1>4. m \in Int /\ Len(rows) \in Int /\ \A i \in m .. Len(rows) : rows[i] \in R
    BY <1>1
<1>5. /\ SubSeq(rows, m, Len(rows)) \in Seq(R)
      /\ Len(SubSeq(rows, m, Len(rows))) = IF m <= Len(rows) THEN Len(rows) - m + 1 ELSE 0
      /\ \A i \in 1 .. Len(rows) - m + 1 : SubSeq(rows, m, Len(rows))[i] = rows[m + i - 1]
    BY <1>4, SubSeqProperties
<1>6. Len(Newest(rows, n)) = Len(rows) - m + 1
    BY <1>1, <1>3, <1>5
<1>7. Len(rows) - m + 1 = IF Len(rows) > n THEN n ELSE Len(rows)
    BY <1>1, <1>2
<1>8. \A i \in 1 .. Len(rows) - m + 1 :
          m + i - 1 = Len(rows) - (Len(rows) - m + 1) + i
    BY <1>1
<1>9. QED BY <1>3, <1>5, <1>6, <1>7, <1>8

\* What a turn sees is a session whose last row is the message.
LEMMA ViewIs ==
    ASSUME recent \in Seq(Rows), NEW s \in Says
    PROVE  /\ View(s) \in Seq(Rows) /\ Len(View(s)) \in 1 .. Window
           /\ View(s)[Len(View(s))] = Row(s[1], s[2])
<1>1. Row(s[1], s[2]) \in Rows
    BY TurnGateAssumption DEF Row, Rows, People
<1>2. PICK q \in Seq(Rows) : q = IF quiet > IdleGap THEN <<>> ELSE recent
    <2>1. <<>> \in Seq(Rows)
        OBVIOUS
    <2>2. QED BY <2>1
<1>3. PICK a : a = Append(q, Row(s[1], s[2]))
    OBVIOUS
<1>4. a \in Seq(Rows) /\ Len(a) = Len(q) + 1 /\ a[Len(a)] = Row(s[1], s[2]) /\ Len(q) \in Nat
    BY <1>1, <1>3, AppendProperties, LenProperties
<1>5. View(s) = Newest(a, Window) /\ Window \in Nat \ {0}
    BY <1>2, <1>3, TurnGateAssumption DEF View
<1>6. PICK v : v = Newest(a, Window)
    OBVIOUS
<1>11. Len(a) > 0
    BY <1>4
<1>7. /\ v \in Seq(Rows)
      /\ Len(v) = IF Len(a) > Window THEN Window ELSE Len(a)
      /\ \A i \in 1 .. Len(v) : v[i] = a[Len(a) - Len(v) + i]
    BY <1>4, <1>5, <1>6, <1>11, NewestIs
<1>8. Len(v) \in 1 .. Window /\ Len(a) - Len(v) + Len(v) = Len(a)
    BY <1>4, <1>5, <1>7
<1>9. v[Len(v)] = a[Len(a)]
    BY <1>7, <1>8, SMTT(30)
<1>10. QED BY <1>4, <1>5, <1>6, <1>7, <1>8, <1>9

\* A command means people of the chat.
LEMMA TargetIs ==
    ASSUME recent \in Seq(Rows), NEW s \in Says
    PROVE  IgnoreTarget(s) \subseteq Persons
<1>1. ReplyTo[s[2]] \notin {None, s[1]} => ReplyTo[s[2]] \in Persons
    BY TurnGateAssumption DEF Persons
<1>2. PICK view \in Seq(Rows) : view = View(s)
    BY ViewIs
<1>3. PICK S : S = {k \in 1 .. Len(view) : view[k].from \notin {Vanessa, s[1]}}
    OBVIOUS
<1>4. PICK i : i = IF S # {} THEN Max(S) ELSE 0
    OBVIOUS
<1>5. i > 0 => view[i].from \in Persons
    <2>1. Len(view) \in Nat /\ \A k \in 1 .. Len(view) : view[k] \in Rows
        BY LenProperties, ElementOfSeq
    <2>2. S # {} => \E k \in S : \A m \in S : k >= m
        BY <1>3, <2>1, ExtremesExist
    <2>3. i > 0 => i \in S
        BY <1>4, <2>2 DEF Max
    <2>4. QED BY <1>3, <2>1, <2>3 DEF Rows, Persons
<1>6. IgnoreTarget(s) = IF ReplyTo[s[2]] \notin {None, s[1]} THEN {ReplyTo[s[2]]}
         ELSE IF "pronoun" \in Traits[s[2]] /\ i > 0 THEN {view[i].from} ELSE {}
    BY <1>2, <1>3, <1>4 DEF IgnoreTarget, SelectLastInSeq
<1>7. QED BY <1>1, <1>5, <1>6

\* The rules name one of their reasons; on a sender who is ignored they agree
\* unless what comes before has settled the turn.
LEMMA SettleIs ==
    ASSUME NEW c
    PROVE  /\ Settle(c) \in Reasons
           /\ c.muted =>
                 \/ Settle(c) \in {"rate_limited", "noise", "user_ignored"}
                 \/ Settle(c) = "owner_dm" /\ c.ownerDm
                 \/ Settle(c) = "proxy_question" /\ c.proxy
<1> DEFINE T == <<
      [on |-> c.limited, why |-> "rate_limited"],
      [on |-> c.ownerDm, why |-> "owner_dm"],
      [on |-> c.proxy, why |-> "proxy_question"],
      [on |-> Noise(c), why |-> "noise"],
      [on |-> HardIgnore(c) # "", why |-> HardIgnore(c)],
      [on |-> Repeated(c), why |-> "repeated"],
      [on |-> LowAttitude(c), why |-> "low_attitude"],
      [on |-> DirectAddress(c), why |-> "addressing"],
      [on |-> ListenWindow(c), why |-> "listen_window"],
      [on |-> Vetoed(c), why |-> "not_expected"],
      [on |-> c.plan = "yes", why |-> "planner"],
      [on |-> Intent(c), why |-> "intent"],
      [on |-> Trigger(c), why |-> "force_reply"],
      [on |-> TRUE, why |-> "ignore"]>>
<1>1. Settle(c) = FirstOf(T).why
    BY DEF Settle
<1>2. Len(T) = 14
    OBVIOUS
<1>3. HardIgnore(c) \in {"", "user_ignored", "dismissal", "quote_echo", "side_talk"}
    BY DEF HardIgnore
<1>4. \A i \in 1 .. 14 : T[i].on => T[i].why \in Reasons
    <2>1. /\ T[1].why = "rate_limited" /\ T[2].why = "owner_dm"
          /\ T[3].why = "proxy_question" /\ T[4].why = "noise"
          /\ T[6].why = "repeated" /\ T[7].why = "low_attitude"
          /\ T[8].why = "addressing" /\ T[9].why = "listen_window"
          /\ T[10].why = "not_expected" /\ T[11].why = "planner"
          /\ T[12].why = "intent" /\ T[13].why = "force_reply" /\ T[14].why = "ignore"
        OBVIOUS
    <2>2. T[5].on => T[5].why \in {"user_ignored", "dismissal", "quote_echo", "side_talk"}
        BY <1>3
    <2>3. {"rate_limited", "owner_dm", "proxy_question", "noise", "repeated", "low_attitude",
           "addressing", "listen_window", "not_expected", "planner", "intent",
           "force_reply", "ignore", "user_ignored", "dismissal", "quote_echo", "side_talk"}
             \subseteq Reasons
        BY DEF Reasons, Answers, ReplyReasons
    <2>4. \A i \in 1 .. 14 : i = 5 \/ i \in {1, 2, 3, 4, 6, 7, 8, 9, 10, 11, 12, 13, 14}
        OBVIOUS
    <2> HIDE DEF T
    <2>5. QED BY <2>1, <2>2, <2>3, <2>4
<1>5. T[14].on
    OBVIOUS
<1>6. c.muted => T[5].on
    BY DEF HardIgnore
<1>7. c.muted => \A i \in 1 .. 5 : T[i].on =>
          \/ T[i].why \in {"rate_limited", "noise", "user_ignored"}
          \/ T[i].why = "owner_dm" /\ c.ownerDm
          \/ T[i].why = "proxy_question" /\ c.proxy
    BY DEF HardIgnore
<1> HIDE DEF T
<1>8. Len(T) \in Nat /\ 14 \in 1 .. Len(T) /\ 5 \in 1 .. Len(T)
    BY <1>2
<1>9. Settle(c) \in Reasons
    <2>1. PICK i \in 1 .. 14 : T[i].on /\ FirstOf(T) = T[i]
        BY <1>5, <1>8, FirstOfIs
    <2>2. QED BY <1>1, <1>4, <2>1
<1>10. ASSUME c.muted
       PROVE  \/ Settle(c) \in {"rate_limited", "noise", "user_ignored"}
              \/ Settle(c) = "owner_dm" /\ c.ownerDm
              \/ Settle(c) = "proxy_question" /\ c.proxy
    <2>1. PICK i \in 1 .. 5 : T[i].on /\ FirstOf(T) = T[i]
        BY <1>6, <1>8, <1>10, FirstOfIs
    <2>2. QED BY <1>1, <1>7, <1>10, <2>1
<1>11. QED BY <1>9, <1>10

\* The gate of compose does not change that.
LEMMA DecideIs ==
    ASSUME NEW c
    PROVE  /\ Decide(c) \in Reasons
           /\ c.muted =>
                 \/ Decide(c) \in {"rate_limited", "noise", "user_ignored"}
                 \/ Decide(c) = "owner_dm" /\ c.ownerDm
                 \/ Decide(c) = "proxy_question" /\ c.proxy
<1>1. Decide(c) \in {"not_expected", Settle(c)}
    BY DEF Decide
<1>2. Settle(c) \in {"rate_limited", "noise", "user_ignored", "owner_dm", "proxy_question"}
         => Decide(c) = Settle(c)
    BY DEF Decide, ReplyReasons, PreApproved
<1>3. QED BY <1>1, <1>2, SettleIs DEF Reasons

\* Whatever the models say, the rules read of a turn who sent it.
LEMMA DecisionsAre ==
    ASSUME NEW s, NEW d \in Decisions(Context(s))
    PROVE  /\ d \in Reasons
           /\ s[1] \in ApplyIgnore(s) =>
                 d \in {"rate_limited", "noise", "user_ignored", "proxy_question"}
<1>1. ASSUME NEW x, d = Decide(x), x.muted = (s[1] \in ApplyIgnore(s)), x.ownerDm = FALSE
      PROVE  /\ d \in Reasons
             /\ s[1] \in ApplyIgnore(s) =>
                   d \in {"rate_limited", "noise", "user_ignored", "proxy_question"}
    BY <1>1, DecideIs
<1>2. CASE d = Decide([Context(s) EXCEPT !.limited = TRUE])
    <2>1. PICK x : x = [Context(s) EXCEPT !.limited = TRUE]
        OBVIOUS
    <2>2. x.muted = (s[1] \in ApplyIgnore(s)) /\ x.ownerDm = FALSE
        BY <2>1 DEF Context
    <2>3. QED BY <1>1, <1>2, <2>1, <2>2
<1>3. ASSUME NEW o \in Opinion, d = Decide(Told(Context(s), o))
      PROVE  /\ d \in Reasons
             /\ s[1] \in ApplyIgnore(s) =>
                   d \in {"rate_limited", "noise", "user_ignored", "proxy_question"}
    <2>1. PICK x : x = Told(Context(s), o)
        OBVIOUS
    <2>2. x.muted = (s[1] \in ApplyIgnore(s)) /\ x.ownerDm = FALSE
        BY <2>1 DEF Context, Told
    <2>3. QED BY <1>1, <1>3, <2>1, <2>2
<1>4. \/ d = Decide([Context(s) EXCEPT !.limited = TRUE])
      \/ \E o \in Opinion : d = Decide(Told(Context(s), o))
    BY DEF Decisions
<1>5. QED BY <1>2, <1>3, <1>4

\* The verdicts on a turn; an ignored sender is answered for a photo, or a bot's
\* question to the owner, at most.
LEMMA VerdictsAre ==
    ASSUME NEW s, NEW d \in Verdicts(s)
    PROVE  /\ d \in Reasons
           /\ s[1] \in ApplyIgnore(s) => d \notin Answers \ {"photo", "proxy_question"}
<1>1. PICK c : c = Context(s)
    OBVIOUS
<1>2. \/ d \in {"bot_peer_side", "bot_peer_limit", "photo", "not_expected"}
      \/ d \in Filtered(c)
    BY <1>1 DEF Verdicts
<1>3. HardIgnore(c) \in {"", "user_ignored", "dismissal", "quote_echo", "side_talk"}
    BY DEF HardIgnore
<1>4. d \in Filtered(c) =>
          \/ d \in {"prefilter", "reaction_gate", "user_ignored", "dismissal", "quote_echo", "side_talk"}
          \/ d \in Decisions(c)
    BY <1>3 DEF Filtered
<1>5. QED BY <1>1, <1>2, <1>4, DecisionsAre DEF Reasons, Answers, ReplyReasons

\* At the start nobody has written.
LEMMA InitGate == Init => TypeOK
<1> SUFFICES ASSUME Init PROVE TypeOK
    OBVIOUS
<1>1. <<>> \in Seq(Rows) /\ Len(<<>>) = 0
    OBVIOUS
<1>2. QED BY <1>1, TurnGateAssumption DEF Init, TypeOK

\* The types after a turn that is kept with its answer, or without.
LEMMA HeardTypes ==
    ASSUME TypeOK, NEW s \in Says, Heard(s)
    PROVE  ignored' \subseteq Persons /\ wanted' \subseteq Persons
<1>1. IgnoreTarget(s) \subseteq Persons
    BY TargetIs DEF TypeOK
<1>2. ignored \subseteq Persons /\ wanted \subseteq Persons
    BY DEF TypeOK, Persons
<1>3. ignored' \in {ignored, ignored \cup IgnoreTarget(s), ignored \ IgnoreTarget(s)}
    BY DEF Heard, ApplyIgnore
<1>4. wanted' \in {wanted, wanted \cup IgnoreTarget(s), wanted \ IgnoreTarget(s)}
    BY DEF Heard, Wish
<1>5. QED BY <1>1, <1>2, <1>3, <1>4

\* Her answer joins the session, after the message.
LEMMA AnsweredIs ==
    ASSUME TypeOK, NEW s \in Says
    PROVE  /\ Newest(Append(View(s), Row(Vanessa, None)), Window) \in Seq(Rows)
           /\ Len(Newest(Append(View(s), Row(Vanessa, None)), Window)) \in 1 .. Window
           /\ Window > 1 =>
                 LET rows == Newest(Append(View(s), Row(Vanessa, None)), Window)
                 IN  Len(rows) > 1 /\ rows[Len(rows) - 1] = Row(s[1], s[2])
<1>1. PICK v \in Seq(Rows) : v = View(s) /\ Len(v) \in 1 .. Window /\ v[Len(v)] = Row(s[1], s[2])
    BY ViewIs DEF TypeOK
<1>2. Row(Vanessa, None) \in Rows
    BY DEF Row, Rows
<1>3. PICK a : a = Append(v, Row(Vanessa, None))
    OBVIOUS
<1>4. /\ a \in Seq(Rows) /\ Len(a) = Len(v) + 1
      /\ \A i \in 1 .. Len(v) : a[i] = v[i]
    BY <1>2, <1>3, AppendProperties
<1>5. Len(a) > 0 /\ Len(v) \in Nat /\ Len(v) > 0 /\ Window \in Nat \ {0} /\ Len(a) \in Nat
    BY <1>1, <1>4, TurnGateAssumption
<1>6. PICK rows : rows = Newest(a, Window)
    OBVIOUS
<1>7. /\ rows \in Seq(Rows) /\ Len(rows) = IF Len(a) > Window THEN Window ELSE Len(a)
      /\ \A i \in 1 .. Len(rows) : rows[i] = a[Len(a) - Len(rows) + i]
    BY <1>4, <1>5, <1>6, NewestIs
<1>8. Len(rows) \in 1 .. Window
    BY <1>5, <1>7
<1>9. ASSUME Window > 1 PROVE Len(rows) > 1 /\ rows[Len(rows) - 1] = Row(s[1], s[2])
    <2>1. Len(rows) > 1 /\ Len(rows) - 1 \in 1 .. Len(rows)
        BY <1>4, <1>5, <1>7, <1>9
    <2>2. Len(a) - Len(rows) + (Len(rows) - 1) = Len(v)
        BY <1>4, <1>5, <1>8
    <2>3. rows[Len(rows) - 1] = a[Len(v)]
        BY <1>7, <2>1, <2>2
    <2>4. QED BY <1>1, <1>4, <1>5, <2>1, <2>3
<1>10. QED BY <1>1, <1>3, <1>6, <1>7, <1>8, <1>9

\* Each step keeps the types.
LEMMA GateStep == TypeOK /\ [Next]_vars => TypeOK'
<1> SUFFICES ASSUME TypeOK, [Next]_vars PROVE TypeOK'
    OBVIOUS
<1>1. why \in Reasons <=> why \in Answers \cup
         {"none", "failed", "declined", "bot_peer_side", "bot_peer_limit", "prefilter",
          "reaction_gate", "not_expected", "user_ignored", "dismissal", "quote_echo",
          "side_talk", "rate_limited", "noise", "repeated", "low_attitude", "ignore"}
    BY DEF Reasons
<1>2. ASSUME NEW s \in Says, Answer(s, Verdicts(s)) PROVE TypeOK'
    <2>1. why' \in Reasons
        BY <1>2, VerdictsAre DEF Answer
    <2>2. recent' \in Seq(Rows) /\ Len(recent') <= Window
        BY <1>2, AnsweredIs, TurnGateAssumption DEF Answer
    <2>3. quiet' = 0 /\ spoke' = 0
        BY <1>2 DEF Answer
    <2>4. ignored' \subseteq Persons /\ wanted' \subseteq Persons
        BY <1>2, HeardTypes DEF Answer
    <2>5. QED BY <2>1, <2>2, <2>3, <2>4, TurnGateAssumption DEF TypeOK, Reasons, Persons
<1>3. ASSUME NEW s \in Says, Keep(s, Verdicts(s)) PROVE TypeOK'
    <2>1. why' \in Reasons
        BY <1>3, VerdictsAre DEF Keep, Reasons
    <2>2. recent' \in Seq(Rows) /\ Len(recent') <= Window
        BY <1>3, ViewIs, TurnGateAssumption DEF Keep, TypeOK
    <2>3. quiet' = 0 /\ spoke' = spoke
        BY <1>3 DEF Keep
    <2>4. ignored' \subseteq Persons /\ wanted' \subseteq Persons
        BY <1>3, HeardTypes DEF Keep
    <2>5. QED BY <2>1, <2>2, <2>3, <2>4, TurnGateAssumption DEF TypeOK, Reasons, Persons
<1>4. ASSUME NEW s \in Says, Fail(s) PROVE TypeOK'
    <2>1. ignored' \subseteq Persons /\ wanted' \subseteq Persons
        BY <1>4, HeardTypes DEF Fail
    <2>2. QED BY <1>4, <2>1 DEF Fail, TypeOK, Persons
<1>5. CASE Tick
    <2>1. quiet' \in 0 .. IdleGap + 1 /\ spoke' \in 0 .. IdleGap + 1
        BY <1>5, TurnGateAssumption DEF Tick, TypeOK
    <2>2. QED BY <1>5, <2>1 DEF Tick, TypeOK
<1>6. CASE Restart
    BY <1>6 DEF Restart, TypeOK
<1>7. CASE UNCHANGED vars
    BY <1>7 DEF vars, TypeOK
<1>8. QED BY <1>2, <1>3, <1>4, <1>5, <1>6, <1>7 DEF Next

\* Every reachable state is well typed.
THEOREM GateTypes == Spec => []TypeOK
BY InitGate, GateStep, PTL DEF Spec

-----------------------------------------------------------------------------
(* Who is answered *)

\* Whom the owner muted gets no answer in any session of more than one row, but
\* to a bare photo or to a bot's question for the owner.
THEOREM MutedGetNoAnswer ==
    ASSUME Window > 1 PROVE Spec => MutedStayUnanswered
<1>1. TypeOK /\ [Next]_vars =>
          [why' \in Answers \ {"photo", "proxy_question"} =>
              \A s \in Says :
                  Answered(Row(s[1], s[2]), View(s)) => s[1] \notin ignored \cap ignored']_vars
    <2>1. SUFFICES ASSUME TypeOK, Next,
                          why' \in Answers \ {"photo", "proxy_question"},
                          NEW s \in Says, Answered(Row(s[1], s[2]), View(s))
                   PROVE  s[1] \notin ignored'
        OBVIOUS
    <2>2. PICK t \in Says : Answer(t, Verdicts(t))
        <3>1. ASSUME NEW t \in Says, Keep(t, Verdicts(t)) PROVE FALSE
            BY <2>1, <3>1 DEF Keep, Answers, ReplyReasons
        <3>2. ASSUME NEW t \in Says, Fail(t) PROVE FALSE
            BY <2>1, <3>2 DEF Fail, Answers, ReplyReasons
        <3>3. ~Tick /\ ~Restart
            BY <2>1 DEF Tick, Restart, Answers, ReplyReasons
        <3>4. QED BY <2>1, <3>1, <3>2, <3>3 DEF Next
    <2>3. /\ recent' = Newest(Append(View(t), Row(Vanessa, None)), Window)
          /\ why' \in Verdicts(t) /\ ignored' = ApplyIgnore(t)
        BY <2>2 DEF Answer, Heard
    <2>4. recent' = Newest(Append(View(s), Row(Vanessa, None)), Window)
        BY <2>1 DEF Answered
    <2>5. recent'[Len(recent') - 1] = Row(t[1], t[2])
        BY <2>1, <2>3, AnsweredIs
    <2>6. recent'[Len(recent') - 1] = Row(s[1], s[2])
        BY <2>1, <2>4, AnsweredIs
    <2>7. s[1] = t[1]
        BY <2>5, <2>6 DEF Row
    <2>8. t[1] \notin ApplyIgnore(t)
        BY <2>1, <2>3, VerdictsAre
    <2>9. QED BY <2>3, <2>7, <2>8
<1>2. QED BY <1>1, GateTypes, PTL DEF Spec, MutedStayUnanswered

Overheard == {"prefilter", "not_expected", "side_talk", "low_attitude", "ignore"}

\* To a message that addresses her in any view of the planner, neither the filter
\* nor the rules say that it was not for her.
LEMMA DirectIsHeard ==
    ASSUME NEW c, Direct(c), \A p : Warrants(c, p)
    PROVE  /\ HardIgnore(c) # "side_talk"
           /\ HardIgnore(c) = "" => PrefilterAllows(c)
           /\ Decide(c) \notin Overheard
<1>1. Addressed(c) /\ Expected(c) /\ DirectAddress(c)
    BY DEF Addressed, Expected, DirectAddress
<1>2. HardIgnore(c) \in {"", "user_ignored", "dismissal", "quote_echo"}
    BY <1>1 DEF HardIgnore
<1>3. HardIgnore(c) = "" => PrefilterAllows(c)
    <2> DEFINE T == PrefilterChecks(c)
    <2>1. Len(T) = 9 /\ T[1].on /\ T[1].allow
        BY <1>1 DEF PrefilterChecks
    <2> HIDE DEF T
    <2>2. Len(T) \in Nat /\ 1 \in 1 .. Len(T)
        BY <2>1
    <2>3. PICK i \in 1 .. 1 : FirstOf(T) = T[i]
        BY <2>1, <2>2, FirstOfIs
    <2>4. FirstOf(T).allow
        BY <2>1, <2>3
    <2>5. QED BY <2>4 DEF PrefilterAllows, T
<1>4. Decide(c) \notin Overheard
    <2> DEFINE T == <<
          [on |-> c.limited, why |-> "rate_limited"],
          [on |-> c.ownerDm, why |-> "owner_dm"],
          [on |-> c.proxy, why |-> "proxy_question"],
          [on |-> Noise(c), why |-> "noise"],
          [on |-> HardIgnore(c) # "", why |-> HardIgnore(c)],
          [on |-> Repeated(c), why |-> "repeated"],
          [on |-> LowAttitude(c), why |-> "low_attitude"],
          [on |-> DirectAddress(c), why |-> "addressing"],
          [on |-> ListenWindow(c), why |-> "listen_window"],
          [on |-> Vetoed(c), why |-> "not_expected"],
          [on |-> c.plan = "yes", why |-> "planner"],
          [on |-> Intent(c), why |-> "intent"],
          [on |-> Trigger(c), why |-> "force_reply"],
          [on |-> TRUE, why |-> "ignore"]>>
    <2>1. Settle(c) = FirstOf(T).why /\ Len(T) = 14 /\ T[8].on
        BY <1>1 DEF Settle
    <2>2. ~T[7].on
        BY <1>1 DEF LowAttitude, Essential
    <2>3. \A i \in 1 .. 8 : i # 7 /\ T[i].on => T[i].why \notin Overheard \cup {"intent"}
        <3>1. /\ T[1].why = "rate_limited" /\ T[2].why = "owner_dm"
              /\ T[3].why = "proxy_question" /\ T[4].why = "noise"
              /\ T[6].why = "repeated" /\ T[8].why = "addressing"
            OBVIOUS
        <3>2. T[5].on => T[5].why \in {"user_ignored", "dismissal", "quote_echo"}
            BY <1>2
        <3>3. \A i \in 1 .. 8 : i \in {1, 2, 3, 4, 5, 6, 7, 8}
            OBVIOUS
        <3> HIDE DEF T
        <3>4. QED BY <3>1, <3>2, <3>3 DEF Overheard
    <2> HIDE DEF T
    <2>4. Len(T) \in Nat /\ 8 \in 1 .. Len(T)
        BY <2>1
    <2>5. PICK i \in 1 .. 8 : T[i].on /\ FirstOf(T) = T[i]
        BY <2>1, <2>4, FirstOfIs
    <2>6. Settle(c) \notin Overheard \cup {"intent"}
        BY <2>1, <2>2, <2>3, <2>5
    <2>7. Settle(c) = "intent" \/ Decide(c) = Settle(c)
        BY DEF Decide, ReplyReasons, PreApproved
    <2>8. QED BY <2>6, <2>7
<1>5. QED BY <1>2, <1>3, <1>4

Addresses(s) ==
    /\ s[1] \in People
    /\ "photo" \notin Traits[s[2]]
    /\ \/ ReplyTo[s[2]] = Vanessa
       \/ /\ "mention" \in Traits[s[2]]
          /\ Traits[s[2]] \cap {"closure", "remark", "third"} = {}

\* So it is with the verdicts on the turn.
LEMMA AddressedVerdicts ==
    ASSUME NEW s, Addresses(s), NEW d \in Verdicts(s)
    PROVE  d \notin Overheard
<1>1. ASSUME NEW x, x.text = s[2],
             x.mention = (\/ "mention" \in Traits[s[2]]
                          \/ s[1] \in Bots /\ "name" \in Traits[s[2]])
      PROVE  Direct(x) /\ \A p : Warrants(x, p)
    BY <1>1 DEF Addresses, Direct, RepliesToHer, Warrants, Aside, Is
<1>2. PICK c : c = Context(s)
    OBVIOUS
<1>3. /\ c.text = s[2] /\ c.mention = (\/ "mention" \in Traits[s[2]]
                                       \/ s[1] \in Bots /\ "name" \in Traits[s[2]])
    BY <1>2 DEF Context
<1>4. ~Is(c, "photo") /\ s[1] \notin Bots
    BY <1>3 DEF Addresses, Is, People
<1>5. d \in Filtered(c)
    BY <1>2, <1>4 DEF Verdicts
<1>6. /\ HardIgnore(c) \in {"", "user_ignored", "dismissal", "quote_echo"}
      /\ HardIgnore(c) = "" => PrefilterAllows(c)
    BY <1>1, <1>3, DirectIsHeard DEF HardIgnore
<1>7. d \in {"reaction_gate", "user_ignored", "dismissal", "quote_echo"} \/ d \in Decisions(c)
    BY <1>5, <1>6 DEF Filtered
<1>8. ASSUME d \in Decisions(c) PROVE d \notin Overheard
    <2>1. \/ d = Decide([c EXCEPT !.limited = TRUE])
          \/ \E o \in Opinion : d = Decide(Told(c, o))
        BY <1>8 DEF Decisions
    <2>2. CASE d = Decide([c EXCEPT !.limited = TRUE])
        <3>1. PICK x : x = [c EXCEPT !.limited = TRUE]
            OBVIOUS
        <3>2. x.text = c.text /\ x.mention = c.mention
            BY <1>2, <3>1 DEF Context
        <3>3. d = Decide(x)
            BY <2>2, <3>1
        <3>4. QED BY <1>1, <1>3, <3>2, <3>3, DirectIsHeard
    <2>3. ASSUME NEW o \in Opinion, d = Decide(Told(c, o)) PROVE d \notin Overheard
        <3>1. PICK x : x = Told(c, o)
            OBVIOUS
        <3>2. x.text = c.text /\ x.mention = c.mention
            BY <1>2, <3>1 DEF Context, Told
        <3>3. QED BY <1>1, <1>3, <2>3, <3>1, <3>2, DirectIsHeard
    <2>4. QED BY <2>1, <2>2, <2>3
<1>9. QED BY <1>7, <1>8 DEF Overheard

\* A message that addresses her is not dropped as meant for others.
THEOREM AddressedStayHeard == Spec => AddressedAreHeard
<1>1. TypeOK /\ [Next]_vars =>
          [why' \in {"prefilter", "not_expected", "side_talk", "low_attitude", "ignore"} =>
              ~\E s \in Says :
                 /\ s[1] \in People
                 /\ "photo" \notin Traits[s[2]]
                 /\ \/ ReplyTo[s[2]] = Vanessa
                    \/ /\ "mention" \in Traits[s[2]]
                       /\ Traits[s[2]] \cap {"closure", "remark", "third"} = {}
                 /\ recent' = View(s)
                 /\ recent' # recent]_vars
    <2>1. SUFFICES ASSUME TypeOK, Next, why' \in Overheard, NEW s \in Says, Addresses(s),
                          recent' = View(s), recent' # recent
                   PROVE  FALSE
        BY DEF Addresses, Overheard
    <2>2. PICK t \in Says : Keep(t, Verdicts(t))
        <3>1. ASSUME NEW t \in Says, Answer(t, Verdicts(t)) PROVE FALSE
            BY <2>1, <3>1 DEF Answer, Answers, ReplyReasons, Overheard
        <3>2. ASSUME NEW t \in Says, Fail(t) PROVE FALSE
            BY <2>1, <3>2 DEF Fail, Overheard
        <3>3. ~Tick /\ ~Restart
            BY <2>1 DEF Tick, Restart, Overheard
        <3>4. QED BY <2>1, <3>1, <3>2, <3>3 DEF Next
    <2>3. recent' = View(t) /\ why' \in Verdicts(t)
        BY <2>1, <2>2 DEF Keep, Overheard
    <2>4. recent'[Len(recent')] = Row(s[1], s[2]) /\ recent'[Len(recent')] = Row(t[1], t[2])
        BY <2>1, <2>3, ViewIs DEF TypeOK
    <2>5. s[1] = t[1] /\ s[2] = t[2]
        BY <2>4 DEF Row
    <2>6. Addresses(t)
        BY <2>1, <2>5 DEF Addresses
    <2>7. QED BY <2>1, <2>3, <2>6, AddressedVerdicts
<1>2. QED BY <1>1, GateTypes, PTL DEF Spec, AddressedAreHeard

-----------------------------------------------------------------------------
(* After a dismissal *)

LastHush(view) == SelectLastInSeq(view, Dismisses)

\* Her last row in a session, if there is one.
LEMMA HerLastIs ==
    ASSUME NEW view, Len(view) \in Nat
    PROVE  /\ HerLast(view) \in 0 .. Len(view)
           /\ \A k \in 1 .. Len(view) : view[k].from = Vanessa => k <= HerLast(view)
<1> DEFINE S == {i \in 1 .. Len(view) : view[i].from = Vanessa}
<1>1. HerLast(view) = IF S # {} THEN CHOOSE x \in S : \A y \in S : x >= y ELSE 0
    BY DEF HerLast, SelectLastInSeq, Max
<1>2. S # {} => \E x \in S : \A y \in S : x >= y
    BY ExtremesExist
<1>3. CASE S = {}
    BY <1>1, <1>3
<1>4. CASE S # {}
    <2>1. HerLast(view) \in S /\ \A y \in S : HerLast(view) >= y
        BY <1>1, <1>2, <1>4
    <2>2. QED BY <2>1
<1>5. QED BY <1>3, <1>4

\* The last dismissal of a session, if there is one.
LEMMA LastHushIs ==
    ASSUME NEW view, Len(view) \in Nat
    PROVE  /\ LastHush(view) \in 0 .. Len(view)
           /\ LastHush(view) > 0 => Dismisses(view[LastHush(view)])
           /\ \A k \in 1 .. Len(view) : Dismisses(view[k]) => k <= LastHush(view)
<1> DEFINE S == {i \in 1 .. Len(view) : Dismisses(view[i])}
<1>1. LastHush(view) = IF S # {} THEN CHOOSE x \in S : \A y \in S : x >= y ELSE 0
    BY DEF LastHush, SelectLastInSeq, Max
<1>2. S # {} => \E x \in S : \A y \in S : x >= y
    BY ExtremesExist
<1> HIDE DEF Dismisses
<1>3. CASE S = {}
    BY <1>1, <1>3
<1>4. CASE S # {}
    <2>1. LastHush(view) \in S /\ \A y \in S : LastHush(view) >= y
        BY <1>1, <1>2, <1>4
    <2>2. QED BY <2>1
<1>5. QED BY <1>3, <1>4

\* What the rules read of a turn in a hushed session where nobody calls her.
Unasked(c) ==
    /\ ~c.listening /\ ~c.ownerDm
    /\ ~Addressed(c) /\ ~SessionActive(c) /\ ~Continues(c) /\ ~FollowsHer(c)
    /\ Hushed(c.rows)

\* Then a trigger of hers does not get past the filter.
LEMMA TriggerIsFiltered ==
    ASSUME NEW c, Unasked(c), Is(c, "trigger") PROVE ~PrefilterAllows(c)
<1> DEFINE T == PrefilterChecks(c)
<1>1. Len(T) = 9 /\ T[9].on /\ T[9].allow = FALSE
    BY DEF PrefilterChecks
<1>2. ~T[1].on /\ ~T[2].on /\ ~T[3].on /\ ~T[4].on /\ ~T[6].on /\ ~T[7].on /\ ~T[8].on
    BY DEF PrefilterChecks, Unasked
<1>3. T[5].allow = FALSE
    BY DEF PrefilterChecks
<1>4. \A i \in 1 .. 9 : i \in {1, 2, 3, 4, 5, 6, 7, 8, 9}
    OBVIOUS
<1> HIDE DEF T
<1>5. Len(T) \in Nat /\ 9 \in 1 .. Len(T)
    BY <1>1
<1>6. PICK i \in 1 .. 9 : T[i].on /\ FirstOf(T) = T[i]
    BY <1>1, <1>5, FirstOfIs
<1>7. FirstOf(T).allow = FALSE
    BY <1>1, <1>2, <1>3, <1>4, <1>6
<1>8. QED BY <1>7 DEF PrefilterAllows, T

\* A turn that the filter would not drop for its trigger.
NoTrigger(c) == c.proxy \/ ~Is(c, "trigger") \/ HardIgnore(c) # ""

\* And without one, only the planner may speak for her.
LEMMA OnlyPlannerSpeaks ==
    ASSUME NEW c, Unasked(c), NoTrigger(c)
    PROVE  Decide(c) \notin Answers \ {"planner", "proxy_question"}
<1> DEFINE T == <<
      [on |-> c.limited, why |-> "rate_limited"],
      [on |-> c.ownerDm, why |-> "owner_dm"],
      [on |-> c.proxy, why |-> "proxy_question"],
      [on |-> Noise(c), why |-> "noise"],
      [on |-> HardIgnore(c) # "", why |-> HardIgnore(c)],
      [on |-> Repeated(c), why |-> "repeated"],
      [on |-> LowAttitude(c), why |-> "low_attitude"],
      [on |-> DirectAddress(c), why |-> "addressing"],
      [on |-> ListenWindow(c), why |-> "listen_window"],
      [on |-> Vetoed(c), why |-> "not_expected"],
      [on |-> c.plan = "yes", why |-> "planner"],
      [on |-> Intent(c), why |-> "intent"],
      [on |-> Trigger(c), why |-> "force_reply"],
      [on |-> TRUE, why |-> "ignore"]>>
<1>1. Settle(c) = FirstOf(T).why
    BY DEF Settle
<1>2. Len(T) = 14
    OBVIOUS
<1>17. T[14].on
    OBVIOUS
<1>3. HardIgnore(c) \in {"", "user_ignored", "dismissal", "quote_echo", "side_talk"}
    BY DEF HardIgnore
<1>4. /\ T[1].why = "rate_limited" /\ T[2].why = "owner_dm"
      /\ T[3].why = "proxy_question" /\ T[4].why = "noise"
      /\ T[6].why = "repeated" /\ T[7].why = "low_attitude"
      /\ T[8].why = "addressing" /\ T[9].why = "listen_window"
      /\ T[10].why = "not_expected" /\ T[11].why = "planner"
      /\ T[12].why = "intent" /\ T[13].why = "force_reply" /\ T[14].why = "ignore"
    OBVIOUS
<1>5. T[5].on => T[5].why \in {"user_ignored", "dismissal", "quote_echo", "side_talk"}
    BY <1>3
<1>6. ~T[2].on /\ ~T[8].on /\ ~T[9].on
    BY DEF Unasked, DirectAddress, Direct, Addressed, ListenWindow
<1>7. ~T[12].on
    BY DEF Unasked, Intent, Expected, Affirmed
<1>8. c.proxy => T[3].on
    OBVIOUS
<1>9. HardIgnore(c) # "" => T[5].on
    OBVIOUS
<1>10. T[13].on => Is(c, "trigger")
    BY DEF Trigger
<1> HIDE DEF T
<1>11. \A i \in 1 .. 14 : i <= 7 \/ i \in {8, 9, 10, 11, 12, 13, 14}
    OBVIOUS
<1>18. \A i \in 1 .. 14 : i <= 7 => i \in {1, 2, 3, 4, 5, 6, 7}
    OBVIOUS
<1>12. Len(T) \in Nat /\ 14 \in 1 .. Len(T) /\ 5 \in 1 .. Len(T) /\ 3 \in 1 .. Len(T)
    BY <1>2
<1>13. PICK i \in 1 .. 14 : T[i].on /\ FirstOf(T) = T[i] /\ i # 13
    <2>1. CASE c.proxy
        <3>1. T[3].on
            BY <1>8, <2>1
        <3>2. PICK i \in 1 .. 3 : T[i].on /\ FirstOf(T) = T[i]
            BY <1>12, <3>1, FirstOfIs
        <3>3. i \in 1 .. 14 /\ i # 13
            OBVIOUS
        <3>4. QED BY <3>2, <3>3
    <2>2. CASE HardIgnore(c) # ""
        <3>1. T[5].on
            BY <1>9, <2>2
        <3>2. PICK i \in 1 .. 5 : T[i].on /\ FirstOf(T) = T[i]
            BY <1>12, <3>1, FirstOfIs
        <3>3. i \in 1 .. 14 /\ i # 13
            OBVIOUS
        <3>4. QED BY <3>2, <3>3
    <2>3. CASE ~Is(c, "trigger")
        <3>1. PICK i \in 1 .. 14 : T[i].on /\ FirstOf(T) = T[i]
            BY <1>17, <1>12, FirstOfIs
        <3>2. QED BY <1>10, <2>3, <3>1
    <2>4. QED BY <2>1, <2>2, <2>3 DEF NoTrigger
<1>14. Settle(c) \in {"rate_limited", "proxy_question", "noise", "repeated", "low_attitude",
                      "not_expected", "planner", "ignore", "user_ignored", "dismissal",
                      "quote_echo", "side_talk"}
    BY <1>1, <1>4, <1>5, <1>6, <1>7, <1>11, <1>13, <1>18
<1>15. Decide(c) \in {"not_expected", Settle(c)}
    BY DEF Decide
<1>16. QED BY <1>14, <1>15 DEF Answers, ReplyReasons

\* In a hushed session, nobody having called her since, a turn is one of these or
\* goes on with what she was saying, or is itself the dismissal.
LEMMA HushedTurns ==
    ASSUME TypeOK, NEW s \in Says, NEW c,
           c.text = s[2], c.from = s[1], c.rows = View(s), c.listening = Listens(View(s)),
           c.mention = (\/ "mention" \in Traits[s[2]]
                        \/ s[1] \in Bots /\ "name" \in Traits[s[2]]),
           c.ownerDm = FALSE,
           Hushed(View(s)), ~Continues(c),
           ~\E i \in LastHush(View(s)) + 1 .. Len(View(s)) : Calls(View(s)[i])
    PROVE  Unasked(c) \/ Is(c, "dismissal")
<1>1. PICK view \in Seq(Rows) : /\ view = View(s) /\ Len(view) \in 1 .. Window
                                /\ view[Len(view)] = Row(s[1], s[2])
    BY ViewIs DEF TypeOK
<1>2. PICK n \in Nat : n = Len(view) /\ n >= 1
    BY <1>1, LenProperties
<1>3. PICK last \in 0 .. n : /\ last = LastHush(view)
                             /\ last > 0 => Dismisses(view[last])
                             /\ \A k \in 1 .. n : Dismisses(view[k]) => k <= last
    BY <1>2, LastHushIs
<1>4. PICK h \in 0 .. n : h = HerLast(view) /\ \A k \in 1 .. n : view[k].from = Vanessa => k <= h
    BY <1>2, HerLastIs
<1>5. PICK d \in h + 1 .. n : Dismisses(view[d])
    BY <1>1, <1>2, <1>4 DEF Hushed
<1>6. h < last /\ last > 0
    BY <1>3, <1>4, <1>5
<1>7. s[1] # Vanessa /\ view[n].from = s[1] /\ view[n].text = s[2]
    BY <1>1, <1>2, TurnGateAssumption DEF Row, People
<1>8. CASE last = n
    BY <1>3, <1>6, <1>7, <1>8 DEF Dismisses, Is
<1>9. CASE last < n
    <2>1. ~Calls(view[n]) /\ \A i \in last + 1 .. n : ~Calls(view[i])
        BY <1>1, <1>2, <1>3, <1>9
    <2>2. Traits[s[2]] \cap {"name", "mention"} = {} /\ ReplyTo[s[2]] # Vanessa
        BY <1>7, <2>1 DEF Calls
    <2>3. ~Addressed(c)
        BY <2>2 DEF Addressed, Direct, RepliesToHer, Is
    <2>4. ~c.listening
        BY DEF Listens
    <2>5. ~FollowsHer(c)
        <3>1. SUFFICES ASSUME n >= 2, view[n - 1].from = Vanessa PROVE FALSE
            BY <1>1, <1>2 DEF FollowsHer
        <3>2. n - 1 <= h
            BY <1>4, <3>1
        <3>3. QED BY <1>3, <1>6, <1>9, <3>2
    <2>6. ~SessionActive(c)
        <3>1. SUFFICES ASSUME NEW i \in last + 1 .. n, view[i].from # Vanessa,
                              "name" \in Traits[view[i].text]
                       PROVE  FALSE
            BY <1>1, <1>2, <1>3, <1>6 DEF SessionActive, LastHush
        <3>2. Calls(view[i])
            BY <3>1 DEF Calls
        <3>3. QED BY <2>1, <3>2
    <2>7. QED BY <1>1, <2>3, <2>4, <2>5, <2>6 DEF Unasked
<1>10. QED BY <1>3, <1>8, <1>9

\* The dismissal itself is never answered, for it has words.
LEMMA DismissalIsKept ==
    ASSUME NEW c, Is(c, "dismissal"), c.ownerDm = FALSE
    PROVE  /\ ~PrefilterAllows(c)
           /\ Decide(c) \notin Answers \ {"planner", "proxy_question"}
<1>1. HardIgnore(c) \in {"user_ignored", "dismissal"}
    BY DEF HardIgnore
<1>2. ~PrefilterAllows(c)
    BY <1>1 DEF PrefilterAllows
<1>3. CASE c.muted
    BY <1>2, <1>3, DecideIs DEF Answers, ReplyReasons
<1>4. CASE ~c.muted
    <2> DEFINE T == <<
          [on |-> c.limited, why |-> "rate_limited"],
          [on |-> c.ownerDm, why |-> "owner_dm"],
          [on |-> c.proxy, why |-> "proxy_question"],
          [on |-> Noise(c), why |-> "noise"],
          [on |-> HardIgnore(c) # "", why |-> HardIgnore(c)],
          [on |-> Repeated(c), why |-> "repeated"],
          [on |-> LowAttitude(c), why |-> "low_attitude"],
          [on |-> DirectAddress(c), why |-> "addressing"],
          [on |-> ListenWindow(c), why |-> "listen_window"],
          [on |-> Vetoed(c), why |-> "not_expected"],
          [on |-> c.plan = "yes", why |-> "planner"],
          [on |-> Intent(c), why |-> "intent"],
          [on |-> Trigger(c), why |-> "force_reply"],
          [on |-> TRUE, why |-> "ignore"]>>
    <2>1. Settle(c) = FirstOf(T).why
        BY DEF Settle
    <2>2. Len(T) = 14
        OBVIOUS
    <2>3. T[5].on /\ T[5].why \in {"user_ignored", "dismissal"} /\ ~T[2].on
        BY <1>1
    <2>4. T[1].why = "rate_limited" /\ T[3].why = "proxy_question" /\ T[4].why = "noise"
        OBVIOUS
    <2> HIDE DEF T
    <2>5. Len(T) \in Nat /\ 5 \in 1 .. Len(T)
        BY <2>2
    <2>6. PICK i \in 1 .. 5 : T[i].on /\ FirstOf(T) = T[i]
        BY <2>3, <2>5, FirstOfIs
    <2>7. i \in {1, 2, 3, 4, 5}
        OBVIOUS
    <2>8. Settle(c) \in {"rate_limited", "proxy_question", "noise", "user_ignored", "dismissal"}
        BY <2>1, <2>3, <2>4, <2>6, <2>7
    <2>9. Decide(c) \in {"not_expected", Settle(c)}
        BY DEF Decide
    <2>10. QED BY <1>2, <2>8, <2>9 DEF Answers, ReplyReasons
<1>5. QED BY <1>2, <1>3, <1>4

\* So it is with the verdicts on the turn.
LEMMA HushedVerdicts ==
    ASSUME TypeOK, NEW s \in Says, NEW d \in Verdicts(s),
           d \in Answers \ {"planner", "proxy_question"}, Hushed(View(s)),
           ~\E i \in LastHush(View(s)) + 1 .. Len(View(s)) : Calls(View(s)[i])
    PROVE  Continues(Context(s))
<1> SUFFICES ASSUME ~Continues(Context(s)) PROVE FALSE
    OBVIOUS
<1>1. PICK c : c = Context(s)
    OBVIOUS
<1>2. /\ c.text = s[2] /\ c.from = s[1] /\ c.rows = View(s) /\ c.listening = Listens(View(s))
      /\ c.mention = (\/ "mention" \in Traits[s[2]]
                      \/ s[1] \in Bots /\ "name" \in Traits[s[2]])
      /\ c.ownerDm = FALSE /\ c.muted = (s[1] \in ApplyIgnore(s)) /\ c.proxy = ProxyQuestion(s)
    BY <1>1 DEF Context
<1>3. ASSUME NEW x, x.text = c.text, x.from = c.from, x.rows = c.rows,
             x.listening = c.listening, x.mention = c.mention, x.ownerDm = FALSE
      PROVE  Unasked(x) \/ Is(x, "dismissal")
    <2>1. ~Continues(x)
        BY <1>1, <1>3 DEF Continues, Is, Partner
    <2>2. QED BY <1>2, <1>3, <2>1, HushedTurns
<1>4. Unasked(c) \/ Is(c, "dismissal")
    BY <1>2, <1>3
<1>5. d \in Filtered(c)
    <2>1. CASE Is(c, "photo")
        <3>1. ~Is(c, "dismissal")
            BY <1>2, <2>1, ReplyRulesAssumption, TurnGateAssumption DEF Is
        <3>2. ~c.listening /\ ~Direct(c)
            BY <1>4, <3>1 DEF Unasked, Addressed
        <3>3. QED BY <1>1, <2>1, <3>2 DEF Verdicts, Answers, ReplyReasons
    <2>2. CASE ~Is(c, "photo")
        BY <1>1, <2>2 DEF Verdicts, Answers, ReplyReasons
    <2>3. QED BY <2>1, <2>2
<1>6. d \in Decisions(c) /\ (c.proxy \/ PrefilterAllows(c))
    <2>1. HardIgnore(c) \in {"", "user_ignored", "dismissal", "quote_echo", "side_talk"}
        BY DEF HardIgnore
    <2>2. d \notin {"prefilter", "reaction_gate", "user_ignored", "dismissal", "quote_echo",
                    "side_talk"}
        BY DEF Answers, ReplyReasons
    <2>3. QED BY <1>5, <2>1, <2>2 DEF Filtered
<1>7. c.proxy \/ ~Is(c, "trigger") \/ Is(c, "dismissal")
    BY <1>4, <1>6, TriggerIsFiltered
<1>8. ASSUME NEW x, d = Decide(x), x.text = c.text, x.from = c.from, x.rows = c.rows,
             x.listening = c.listening, x.mention = c.mention, x.ownerDm = FALSE,
             x.proxy = c.proxy
      PROVE  FALSE
    <2>1. CASE Is(x, "dismissal")
        BY <1>8, <2>1, DismissalIsKept
    <2>2. CASE ~Is(x, "dismissal")
        <3>1. Unasked(x)
            BY <1>3, <1>8, <2>2
        <3>2. NoTrigger(x)
            BY <1>7, <1>8, <2>2 DEF NoTrigger, Is
        <3>3. QED BY <1>8, <3>1, <3>2, OnlyPlannerSpeaks
    <2>3. QED BY <2>1, <2>2
<1>9. \/ d = Decide([c EXCEPT !.limited = TRUE])
      \/ \E o \in Opinion : d = Decide(Told(c, o))
    BY <1>6 DEF Decisions
<1>10. CASE d = Decide([c EXCEPT !.limited = TRUE])
    <2>1. PICK x : x = [c EXCEPT !.limited = TRUE]
        OBVIOUS
    <2>2. /\ x.text = c.text /\ x.from = c.from /\ x.rows = c.rows /\ x.listening = c.listening
          /\ x.mention = c.mention /\ x.ownerDm = FALSE /\ x.proxy = c.proxy
        BY <1>1, <2>1 DEF Context
    <2>3. d = Decide(x)
        BY <1>10, <2>1
    <2>4. QED BY <1>8, <2>2, <2>3
<1>11. ASSUME NEW o \in Opinion, d = Decide(Told(c, o)) PROVE FALSE
    <2>1. PICK x : x = Told(c, o)
        OBVIOUS
    <2>2. /\ x.text = c.text /\ x.from = c.from /\ x.rows = c.rows /\ x.listening = c.listening
          /\ x.mention = c.mention /\ x.ownerDm = FALSE /\ x.proxy = c.proxy
        BY <1>1, <2>1 DEF Context, Told
    <2>3. d = Decide(x)
        BY <1>11, <2>1
    <2>4. QED BY <1>8, <2>2, <2>3
<1>12. QED BY <1>9, <1>10, <1>11

\* Told to stop, she speaks to nobody who does not call her.
THEOREM HushStays ==
    ASSUME Window > 1 PROVE Spec => HushHolds
<1>1. TypeOK /\ [Next]_vars =>
       [why' \in Answers \ {"planner", "proxy_question"} =>
       \A s \in Says :
          LET view == View(s)
              last == SelectLastInSeq(view, Dismisses)
          IN  Answered(Row(s[1], s[2]), view) /\ Hushed(view) =>
              \/ \E i \in last + 1 .. Len(view) : Calls(view[i])
              \/ Continues(Context(s))]_vars
    <2>1. SUFFICES ASSUME TypeOK, Next, why' \in Answers \ {"planner", "proxy_question"},
                          NEW s \in Says, Answered(Row(s[1], s[2]), View(s)), Hushed(View(s)),
                          ~\E i \in LastHush(View(s)) + 1 .. Len(View(s)) : Calls(View(s)[i])
                   PROVE  Continues(Context(s))
        BY DEF LastHush
    <2>2. PICK t \in Says : Answer(t, Verdicts(t))
        <3>1. ASSUME NEW t \in Says, Keep(t, Verdicts(t)) PROVE FALSE
            BY <2>1, <3>1 DEF Keep, Answers, ReplyReasons
        <3>2. ASSUME NEW t \in Says, Fail(t) PROVE FALSE
            BY <2>1, <3>2 DEF Fail, Answers, ReplyReasons
        <3>3. ~Tick /\ ~Restart
            BY <2>1 DEF Tick, Restart, Answers, ReplyReasons
        <3>4. QED BY <2>1, <3>1, <3>2, <3>3 DEF Next
    <2>3. /\ recent' = Newest(Append(View(t), Row(Vanessa, None)), Window)
          /\ why' \in Verdicts(t)
        BY <2>2 DEF Answer
    <2>4. recent' = Newest(Append(View(s), Row(Vanessa, None)), Window)
        BY <2>1 DEF Answered
    <2>5. recent'[Len(recent') - 1] = Row(t[1], t[2])
        BY <2>1, <2>3, AnsweredIs
    <2>6. recent'[Len(recent') - 1] = Row(s[1], s[2])
        BY <2>1, <2>4, AnsweredIs
    <2>7. s = t
        <3>1. s[1] = t[1] /\ s[2] = t[2]
            BY <2>5, <2>6 DEF Row
        <3>2. QED BY <3>1, TurnGateAssumption
    <2>8. why' \in Verdicts(s)
        BY <2>3, <2>7
    <2>9. QED BY <2>1, <2>8, HushedVerdicts
<1>2. QED BY <1>1, GateTypes, PTL DEF Spec, HushHolds
===============================================================================
