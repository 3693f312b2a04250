---------------------------- MODULE RemindersProofs -----------------------------
(***************************************************************************)
(* Proofs about the parts of MCReminders.                                  *)
(*                                                                         *)
(* The ticks, for any rows, periods, workers and bounds: a run that was    *)
(* settled is not published again, and a row leaves a run only when it was *)
(* published or too late to be.                                            *)
(*                                                                         *)
(* The table of posts, for any requests and cron expressions: what is due  *)
(* next is the next match, its links are kept, and only turns that overlap *)
(* make a post twice, or one too many.                                     *)
(*                                                                         *)
(* The prompt of a reply, for any sizes, ranks and caps: what is cut, and  *)
(* what the turn is told of the lookups it made.                           *)
(***************************************************************************)
EXTENDS MCReminders, OrderingProofs

\* A row a tick has is live: the row lock keeps a cancel away until its commit.
LocksOK ==
    /\ \A r \in Rows : lock[r] # Nobody => status[r] = "live"
    /\ \A w \in Workers : todo[w] \cap moved[w] = {}
    /\ \A w \in Workers : wpc[w] = "sleep" => moved[w] = {}

\* Settled runs are behind their row.
SettledOK ==
    \A r \in Rows : \A run \in 0 .. LastRun :
        <<r, run>> \in settled =>
            status[r] = "gone" \/ (status[r] = "live" /\ run < next[r])

\* A tick moves a row on for a reason.
MovedOK ==
    \A w \in Workers : \A r \in moved[w] :
        <<r, next[r]>> \in sent \/ TooLate(w, r)

RemindersInv ==
    /\ TypeOK
    /\ LocksOK
    /\ SettledOK
    /\ MovedOK
    /\ SettledStaysSilent

-----------------------------------------------------------------------------
LEMMA BoundsAreNat ==
    /\ BatchSize \in Nat /\ MaxLate \in Nat /\ DedupTtl \in Nat
    /\ MaxTime \in Nat /\ Many \in Nat /\ LastRun \in Nat
BY RemindersAssumption DEF RemindersAssumption, LastRun

\* The next run of a recurring row is later than its current one.
LEMMA NextRunIsLater ==
    ASSUME TypeOK, NEW w \in Workers, NEW r \in Rows, ~Ends(w, r)
    PROVE  NextRun(w, r) \in 0 .. LastRun /\ next[r] < NextRun(w, r)
<1>1. PICK p \in Nat, n \in Nat, t \in Nat : p = Period[r] /\ n = next[r] /\ t = tick[w]
    BY RemindersAssumption, BoundsAreNat DEF TypeOK
<1>2. p # 0 /\ NextRun(w, r) <= LastRun
    <2>1. Period[r] # 0 /\ ~(NextRun(w, r) > LastRun)
        BY DEF Ends
    <2>2. PICK after \in Nat : after >= n /\ after = IF t > n THEN t ELSE n
        OBVIOUS
    <2>3. NextRun(w, r) = n + p * ((after - n) \div p + 1)
        BY <1>1, <2>2 DEF NextRun
    <2>4. (after - n) \div p \in Int
        BY <1>1, <2>1, <2>2
    <2>5. NextRun(w, r) \in Int
        BY <2>3, <2>4
    <2>6. QED BY <1>1, <2>1, <2>5, BoundsAreNat
<1>3. PICK after \in Nat : after >= n /\ after = IF t > n THEN t ELSE n
    OBVIOUS
<1>4. NextRun(w, r) = n + p * ((after - n) \div p + 1)
    BY <1>1, <1>3 DEF NextRun
<1>5. PICK q \in Nat : q = (after - n) \div p
    BY <1>2, <1>3
<1>6. p * (q + 1) \in Nat /\ p * (q + 1) > 0
    BY <1>2, <1>5
<1>7. QED BY <1>1, <1>2, <1>4, <1>5, <1>6, BoundsAreNat

LEMMA InitReminders == Init => RemindersInv
BY BoundsAreNat, RemindersAssumption
   DEF Init, RemindersInv, TypeOK, LocksOK, SettledOK, MovedOK, SettledStaysSilent, Runs, LastRun

\* A row a tick has yet to fire is live, so its run is not settled.
LEMMA TodoIsUnsettled ==
    ASSUME RemindersInv, NEW w \in Workers, NEW r \in todo[w]
    PROVE  /\ r \in Rows /\ lock[r] = w /\ status[r] = "live"
           /\ <<r, next[r]>> \in Runs
           /\ <<r, next[r]>> \notin settled
<1>1. r \in Rows /\ lock[r] = w /\ status[r] = "live" /\ next[r] \in 0 .. LastRun
    BY RemindersAssumption DEF RemindersInv, TypeOK, LocksOK
<1>2. ~(next[r] < next[r])
    BY <1>1, BoundsAreNat
<1>3. QED BY <1>1, <1>2 DEF RemindersInv, SettledOK, Runs

-----------------------------------------------------------------------------
(* Time, the agent and the bot *)

LEMMA PassReminders == RemindersInv /\ Pass => RemindersInv'
BY BoundsAreNat
   DEF Pass, RemindersInv, TypeOK, LocksOK, SettledOK, MovedOK, TooLate, SettledStaysSilent,
       table, workers, bot, history

LEMMA AddReminders ==
    \A r \in Rows, run \in 1 .. MaxTime : RemindersInv /\ Add(r, run) => RemindersInv'
<1> SUFFICES ASSUME NEW r \in Rows, NEW run \in 1 .. MaxTime, RemindersInv, Add(r, run)
             PROVE  RemindersInv'
    OBVIOUS
<1> USE DEF RemindersInv, Add, workers, bot, history
<1>1. run \in 0 .. LastRun
    BY BoundsAreNat DEF LastRun
<1>2. TypeOK'
    BY <1>1 DEF TypeOK
<1>3. lock[r] = Nobody
    BY DEF LocksOK
<1>4. LocksOK'
    BY <1>3 DEF LocksOK, TypeOK
<1>5. SettledOK'
    BY DEF SettledOK, TypeOK
<1>6. MovedOK'
    BY <1>3, RemindersAssumption DEF MovedOK, TooLate, TypeOK
<1>7. QED BY <1>2, <1>4, <1>5, <1>6 DEF SettledStaysSilent

LEMMA CancelReminders == \A r \in Rows : RemindersInv /\ Cancel(r) => RemindersInv'
<1> SUFFICES ASSUME NEW r \in Rows, RemindersInv, Cancel(r) PROVE RemindersInv'
    OBVIOUS
<1> USE DEF RemindersInv, Cancel, workers, bot
<1>1. TypeOK'
    BY DEF TypeOK, Runs
<1>2. LocksOK'
    BY DEF LocksOK, TypeOK
<1>3. SettledOK'
    BY DEF SettledOK, TypeOK
<1>4. MovedOK'
    BY DEF MovedOK, TooLate, TypeOK
<1>5. QED BY <1>1, <1>2, <1>3, <1>4 DEF SettledStaysSilent

LEMMA BotReminders ==
    \A id \in Runs : RemindersInv /\ (Deliver(id) \/ Drop(id)) => RemindersInv'
<1> SUFFICES ASSUME NEW id \in Runs, RemindersInv, Deliver(id) \/ Drop(id) PROVE RemindersInv'
    OBVIOUS
<1> USE DEF RemindersInv, table, workers, history
<1>1. /\ UNCHANGED <<now, table, workers, history>>
      /\ queued' = [queued EXCEPT ![id] = @ - 1] /\ queued[id] > 0
      /\ UNCHANGED keyUntil \/ keyUntil' = [keyUntil EXCEPT ![id] = now + DedupTtl]
      /\ UNCHANGED posts \/ posts' = [posts EXCEPT ![id] = OneMore(@)]
    BY DEF Deliver, Drop, TakeCopy
<1>2. queued' \in [Runs -> 0 .. Many]
    BY <1>1, BoundsAreNat DEF TypeOK
<1>3. keyUntil' \in [Runs -> 0 .. MaxTime + DedupTtl]
    BY <1>1, BoundsAreNat DEF TypeOK
<1>4. posts' \in [Runs -> 0 .. Many]
    BY <1>1, BoundsAreNat DEF TypeOK, OneMore
<1>5. TypeOK'
    BY <1>1, <1>2, <1>3, <1>4 DEF TypeOK
<1>6. QED BY <1>1, <1>5 DEF LocksOK, SettledOK, MovedOK, TooLate, SettledStaysSilent

-----------------------------------------------------------------------------
(* The tick *)

LEMMA ClaimReminders == \A w \in Workers : RemindersInv /\ Claim(w) => RemindersInv'
<1> SUFFICES ASSUME NEW w \in Workers, RemindersInv, Claim(w) PROVE RemindersInv'
    OBVIOUS
<1> USE RemindersAssumption DEF RemindersInv, bot, history
<1>1. PICK S \in SUBSET Rows :
          /\ \A r \in S : status[r] = "live" /\ lock[r] = Nobody
          /\ todo' = [todo EXCEPT ![w] = S]
          /\ lock' = [r \in Rows |-> IF r \in S THEN w ELSE lock[r]]
    BY DEF Claim, FirstOf, Due
<1>2. /\ tick' = [tick EXCEPT ![w] = now]
      /\ wpc[w] = "sleep" /\ wpc' = [wpc EXCEPT ![w] = "fire"]
      /\ UNCHANGED <<now, status, next, moved, bot, history>>
    BY DEF Claim
<1>3. TypeOK'
    <2>1. \A v \in Workers : todo'[v] \cup moved'[v] \subseteq {r \in Rows : lock'[r] = v}
        <3> SUFFICES ASSUME NEW v \in Workers, NEW r \in todo'[v] \cup moved'[v]
                     PROVE  r \in Rows /\ lock'[r] = v
            OBVIOUS
        <3>1. CASE v = w /\ r \in S
            BY <1>1, <3>1
        <3>2. CASE ~(v = w /\ r \in S)
            <4>1. r \in todo[v] \cup moved[v]
                BY <1>1, <1>2, <3>2 DEF TypeOK
            <4>2. r \in Rows /\ lock[r] = v
                BY <4>1 DEF TypeOK
            <4>3. r \notin S
                BY <1>1, <4>2
            <4>4. QED BY <1>1, <4>2, <4>3
        <3>3. QED BY <3>1, <3>2
    <2>2. /\ todo' \in [Workers -> SUBSET Rows]
          /\ lock' \in [Rows -> Workers \cup {Nobody}]
          /\ tick' \in [Workers -> 0 .. MaxTime]
          /\ wpc' \in [Workers -> {"sleep", "fire"}]
        BY <1>1, <1>2 DEF TypeOK
    <2>3. QED BY <1>2, <2>1, <2>2 DEF TypeOK
<1>4. LocksOK'
    <2>1. \A r \in Rows : lock'[r] # Nobody => status'[r] = "live"
        BY <1>1, <1>2 DEF LocksOK, TypeOK
    <2>2. \A v \in Workers : todo'[v] \cap moved'[v] = {}
        BY <1>1, <1>2 DEF LocksOK, TypeOK
    <2>3. \A v \in Workers : wpc'[v] = "sleep" => moved'[v] = {}
        BY <1>2 DEF LocksOK, TypeOK
    <2>4. QED BY <2>1, <2>2, <2>3 DEF LocksOK
<1>5. SettledOK'
    BY <1>2 DEF SettledOK
<1>6. MovedOK'
    BY <1>1, <1>2 DEF MovedOK, TooLate, TypeOK, LocksOK
<1>7. QED BY <1>2, <1>3, <1>4, <1>5, <1>6 DEF SettledStaysSilent

\* What the three ways to end the work on a row have in common: the row leaves
\* the tick's list, and is moved on if its run was published or is too late.
LEMMA FireReminders ==
    \A w \in Workers : \A r \in Rows :
        RemindersInv /\ (Fire(w, r) \/ PostFails(w, r)) => RemindersInv'
<1> SUFFICES ASSUME NEW w \in Workers, NEW r \in Rows, RemindersInv,
                    Fire(w, r) \/ PostFails(w, r)
             PROVE  RemindersInv'
    OBVIOUS
<1> DEFINE id == <<r, next[r]>>
<1> USE DEF RemindersInv, table
<1>1. /\ r \in todo[w] /\ wpc[w] = "fire"
      /\ todo' = [todo EXCEPT ![w] = @ \ {r}]
      /\ UNCHANGED <<now, table, wpc, tick>>
    BY DEF Fire, SkipStale, Post, PostFails, Turn
<1>2. lock[r] = w /\ status[r] = "live" /\ id \in Runs /\ id \notin settled
    BY <1>1, TodoIsUnsettled
<1>3. /\ UNCHANGED <<keyUntil, posts, settled>>
      /\ queued' = queued \/ queued' = [queued EXCEPT ![id] = OneMore(@)]
      /\ sent' = sent \/ sent' = sent \cup {id}
      /\ late' = late
    BY <1>2 DEF Fire, SkipStale, Post, PostFails, Enqueue, bot, history
<1>4. \/ UNCHANGED moved
      \/ /\ moved' = [moved EXCEPT ![w] = @ \cup {r}]
         /\ id \in sent' \/ TooLate(w, r)
    BY DEF Fire, SkipStale, Post, PostFails, Enqueue
<1>5. TypeOK'
    <2>1. queued' \in [Runs -> 0 .. Many]
        <3>1. PICK x \in Runs : x = id
            BY <1>2
        <3>2. OneMore(queued[x]) \in 0 .. Many
            BY BoundsAreNat DEF TypeOK, OneMore
        <3>3. QED BY <1>3, <3>1, <3>2 DEF TypeOK
    <2>2. todo' \in [Workers -> SUBSET Rows] /\ moved' \in [Workers -> SUBSET Rows]
        BY <1>1, <1>4 DEF TypeOK
    <2>3. \A v \in Workers : todo'[v] \cup moved'[v] \subseteq todo[v] \cup moved[v]
        BY <1>1, <1>4 DEF TypeOK
    <2>4. \A v \in Workers : todo'[v] \cup moved'[v] \subseteq {s \in Rows : lock'[s] = v}
        BY <1>1, <2>3 DEF TypeOK
    <2>5. sent' \subseteq Runs
        BY <1>2, <1>3 DEF TypeOK
    <2>6. QED BY <1>1, <1>3, <2>1, <2>2, <2>4, <2>5 DEF TypeOK
<1>6. LocksOK'
    <2>1. \A v \in Workers : todo'[v] \cap moved'[v] = {}
        BY <1>1, <1>4 DEF LocksOK, TypeOK
    <2>2. \A v \in Workers : wpc'[v] = "sleep" => moved'[v] = {}
        BY <1>1, <1>4 DEF LocksOK, TypeOK
    <2>3. QED BY <1>1, <2>1, <2>2 DEF LocksOK
<1>7. SettledOK'
    BY <1>1, <1>3 DEF SettledOK
<1>8. MovedOK'
    <2> SUFFICES ASSUME NEW v \in Workers, NEW s \in moved'[v]
                 PROVE  <<s, next[s]>> \in sent' \/ TooLate(v, s)
        BY <1>1 DEF MovedOK, TooLate
    <2>1. CASE s \in moved[v]
        BY <1>3, <2>1 DEF MovedOK
    <2>2. CASE s \notin moved[v]
        BY <1>4, <2>2, SMTT(30) DEF TypeOK
    <2>3. QED BY <2>1, <2>2
<1>9. QED BY <1>3, <1>5, <1>6, <1>7, <1>8 DEF SettledStaysSilent

\* The end of a transaction, committed or not: its rows are free again.
LEMMA EndTickReminders ==
    ASSUME RemindersInv, NEW w \in Workers, EndTick(w),
           Write(w) \/ UNCHANGED <<status, next, settled>>
    PROVE  RemindersInv'
<1> USE RemindersAssumption DEF RemindersInv, EndTick, bot
<1>1. /\ status' \in [Rows -> {"absent", "live", "gone"}]
      /\ next' \in [Rows -> 0 .. LastRun]
      /\ settled' \subseteq Runs
    <2>1. CASE UNCHANGED <<status, next, settled>>
        BY <2>1 DEF TypeOK
    <2>2. CASE Write(w)
        <3>1. \A r \in moved[w] : r \in Rows /\ next[r] \in 0 .. LastRun
            BY DEF TypeOK
        <3>2. {<<r, next[r]>> : r \in moved[w]} \subseteq Runs
            BY <3>1 DEF Runs
        <3>3. settled' \subseteq Runs
            BY <2>2, <3>2 DEF TypeOK, Write
        <3>4. next' \in [Rows -> 0 .. LastRun]
            BY <2>2, NextRunIsLater DEF TypeOK, Write
        <3>5. status' \in [Rows -> {"absent", "live", "gone"}]
            BY <2>2 DEF TypeOK, Write
        <3>6. QED BY <3>3, <3>4, <3>5
    <2>3. QED BY <2>1, <2>2
\* Only the rows this tick has change.
<1>2. \A r \in Rows : lock[r] # w => status'[r] = status[r] /\ next'[r] = next[r]
    BY DEF TypeOK, Write
<1>3. /\ lock' \in [Rows -> Workers \cup {Nobody}]
      /\ \A r \in Rows : lock'[r] # Nobody => lock[r] # w /\ lock'[r] = lock[r]
      /\ \A r \in Rows : lock[r] # w => lock'[r] = lock[r]
    BY DEF TypeOK
<1>4. /\ todo' \in [Workers -> SUBSET Rows] /\ moved' \in [Workers -> SUBSET Rows]
      /\ wpc' \in [Workers -> {"sleep", "fire"}] /\ tick' \in [Workers -> 0 .. MaxTime]
      /\ todo'[w] = {} /\ moved'[w] = {}
      /\ \A v \in Workers \ {w} : /\ todo'[v] = todo[v] /\ moved'[v] = moved[v]
                                   /\ wpc'[v] = wpc[v] /\ tick'[v] = tick[v]
    BY BoundsAreNat DEF TypeOK
<1>5. \A v \in Workers \ {w} : \A r \in todo[v] \cup moved[v] :
          r \in Rows /\ lock[r] = v /\ next'[r] = next[r]
    BY <1>2 DEF TypeOK
<1>6. TypeOK'
    <2>1. \A v \in Workers : todo'[v] \cup moved'[v] \subseteq {r \in Rows : lock'[r] = v}
        <3> SUFFICES ASSUME NEW v \in Workers, NEW r \in todo'[v] \cup moved'[v]
                     PROVE  r \in Rows /\ lock'[r] = v
            OBVIOUS
        <3>1. v # w
            BY <1>4
        <3>2. r \in Rows /\ lock[r] = v
            BY <1>4, <1>5, <3>1
        <3>3. QED BY <1>3, <3>1, <3>2
    <2>2. QED BY <1>1, <1>3, <1>4, <2>1 DEF TypeOK
<1>7. LocksOK'
    <2>1. \A r \in Rows : lock'[r] # Nobody => status'[r] = "live"
        BY <1>2, <1>3 DEF LocksOK
    <2>2. \A v \in Workers : todo'[v] \cap moved'[v] = {}
        BY <1>4 DEF LocksOK
    <2>3. \A v \in Workers : wpc'[v] = "sleep" => moved'[v] = {}
        BY <1>4 DEF LocksOK
    <2>4. QED BY <2>1, <2>2, <2>3 DEF LocksOK
<1>8. SettledOK'
    <2>1. CASE UNCHANGED <<status, next, settled>>
        BY <2>1 DEF SettledOK
    <2>2. CASE Write(w)
        <3> SUFFICES ASSUME NEW r \in Rows, NEW run \in 0 .. LastRun, <<r, run>> \in settled'
                     PROVE  status'[r] = "gone" \/ (status'[r] = "live" /\ run < next'[r])
            BY DEF SettledOK
        <3>1. CASE r \in moved[w]
            <4>1. status[r] = "live"
                BY <3>1 DEF LocksOK, TypeOK
            <4>2. run <= next[r]
                <5>1. <<r, run>> \in settled \/ run = next[r]
                    BY <2>2 DEF Write
                <5>2. QED BY <4>1, <5>1, BoundsAreNat DEF SettledOK, TypeOK
            <4>3. CASE Ends(w, r)
                BY <2>2, <3>1, <4>3 DEF Write, TypeOK
            <4>4. CASE ~Ends(w, r)
                <5>1. status'[r] = "live" /\ next'[r] = NextRun(w, r)
                    BY <2>2, <3>1, <4>1, <4>4 DEF Write, TypeOK
                <5>2. NextRun(w, r) \in Nat /\ next[r] \in Nat /\ next[r] < NextRun(w, r)
                    BY <4>4, NextRunIsLater, BoundsAreNat DEF TypeOK
                <5>3. QED BY <4>2, <5>1, <5>2, BoundsAreNat
            <4>5. QED BY <4>3, <4>4
        <3>2. CASE r \notin moved[w]
            BY <2>2, <3>2 DEF Write, SettledOK, TypeOK
        <3>3. QED BY <3>1, <3>2
    <2>3. QED BY <2>1, <2>2
<1>9. MovedOK'
    <2> SUFFICES ASSUME NEW v \in Workers, NEW r \in moved'[v]
                 PROVE  (<<r, next[r]>> \in sent \/ TooLate(v, r))'
        BY DEF MovedOK
    <2>1. v # w /\ r \in moved[v] /\ next'[r] = next[r] /\ tick'[v] = tick[v]
        BY <1>4, <1>5
    <2>2. <<r, next[r]>> \in sent \/ TooLate(v, r)
        BY <2>1 DEF MovedOK
    <2>3. QED BY <2>1, <2>2 DEF TooLate
<1>10. QED BY <1>6, <1>7, <1>8, <1>9 DEF SettledStaysSilent

LEMMA CommitReminders == \A w \in Workers : RemindersInv /\ Commit(w) => RemindersInv'
BY EndTickReminders DEF Commit

LEMMA AbortReminders == \A w \in Workers : RemindersInv /\ Abort(w) => RemindersInv'
BY EndTickReminders DEF Abort

-----------------------------------------------------------------------------
LEMMA NextReminders == RemindersInv /\ [Next]_vars => RemindersInv'
<1> SUFFICES ASSUME RemindersInv, [Next]_vars PROVE RemindersInv'
    OBVIOUS
<1>1. CASE UNCHANGED vars
    BY <1>1 DEF vars, table, workers, bot, history, RemindersInv, TypeOK, LocksOK, SettledOK,
                MovedOK, TooLate, SettledStaysSilent
<1>2. CASE Next
    BY <1>2, PassReminders, CancelReminders, AddReminders, ClaimReminders, CommitReminders,
       AbortReminders, FireReminders, BotReminders DEF Next
<1>3. QED BY <1>1, <1>2

\* The invariant of the table, its locks and the ticks under way.
THEOREM RemindersInvariant == Spec => []RemindersInv
BY InitReminders, NextReminders, PTL DEF Spec

\* The variables hold what they are declared to, and a tick works on the rows
\* it has locked.
THEOREM RemindersTypes == Spec => []TypeOK
<1>1. RemindersInv => TypeOK
    BY DEF RemindersInv
<1>2. QED BY <1>1, RemindersInvariant, PTL

\* claim_due locks the rows it takes until the tick commits, and compute_next
\* never gives a run that is not later: whatever overlaps, a run that was
\* committed away or cancelled is not published again.
THEOREM SettledRunsStaySilent == Spec => []SettledStaysSilent
<1>1. RemindersInv => SettledStaysSilent
    BY DEF RemindersInv
<1>2. QED BY <1>1, RemindersInvariant, PTL

\* A tick advances only the rows it posted or found too late.
THEOREM RunsAreKept == Spec => RunsAreNotForgotten
<1> DEFINE MovedOn(r) ==
        lock[r] # Nobody /\ (status'[r] # status[r] \/ next'[r] # next[r]) =>
            <<r, next[r]>> \in sent \/ TooLate(lock[r], r)
<1>1. RemindersInv /\ [Next]_vars => [\A r \in Rows : MovedOn(r)]_vars
    <2> SUFFICES ASSUME RemindersInv, Next, NEW r \in Rows,
                        lock[r] # Nobody, status'[r] # status[r] \/ next'[r] # next[r]
                 PROVE  <<r, next[r]>> \in sent \/ TooLate(lock[r], r)
        OBVIOUS
    <2> USE DEF RemindersInv, table
    <2>1. status[r] = "live"
        BY DEF LocksOK
    <2>2. PICK w \in Workers : Commit(w)
        <3>1. ASSUME NEW s \in Rows, Cancel(s) \/ \E run \in 1 .. MaxTime : Add(s, run) PROVE FALSE
            BY <2>1, <3>1 DEF Cancel, Add, TypeOK
        <3>2. ASSUME NEW w \in Workers, NEW s \in Rows, Fire(w, s) \/ PostFails(w, s) PROVE FALSE
            BY <3>2 DEF Fire, SkipStale, Post, PostFails
        <3>3. ASSUME NEW w \in Workers, Claim(w) \/ Abort(w) PROVE FALSE
            BY <3>3 DEF Claim, Abort
        <3>4. ASSUME NEW id \in Runs, Deliver(id) \/ Drop(id) PROVE FALSE
            BY <3>4 DEF Deliver, Drop
        <3>5. ~Pass
            BY DEF Pass
        <3>6. QED BY <3>1, <3>2, <3>3, <3>4, <3>5 DEF Next
    <2>3. r \in moved[w]
        BY <2>2 DEF Commit, Write, TypeOK
    <2>4. lock[r] = w
        BY <2>3 DEF TypeOK
    <2>5. QED BY <2>3, <2>4 DEF MovedOK
<1>2. QED BY <1>1, RemindersInvariant, PTL DEF Spec, RunsAreNotForgotten

-----------------------------------------------------------------------------
(* Days and the search for the next run                                    *)

LEMMA ScheduleBounds ==
    /\ DaySlots \in Nat /\ DaySlots > 0
    /\ SearchDays \in Nat /\ MaxAhead \in Nat /\ MaxPosts \in Nat
    /\ LastNow \in Nat /\ LastId \in Nat
BY ScheduleAssumption DEF ScheduleAssumption

\* A moment is a slot of its day.
LEMMA DayIs ==
    ASSUME NEW m \in Nat
    PROVE  /\ Day(m) \in Nat /\ m % DaySlots \in 0 .. DaySlots - 1
           /\ \E s : s = m % DaySlots /\ m = Day(m) * DaySlots + s
<1>1. PICK k \in Nat : k = DaySlots /\ k > 0
    BY ScheduleBounds
<1>2. PICK q \in Int : q = m \div k
    BY <1>1
<1>3. PICK r \in 0 .. k - 1 : r = m % k
    BY <1>1
<1>4. q \in Nat
    BY <1>1, <1>2, SMTT(20)
<1>5. r = m - k * q
    BY <1>1, <1>2, <1>3, SMTT(20)
<1>6. m = q * k + r
    BY <1>1, <1>4, <1>5
<1>7. Day(m) = q /\ m % DaySlots = r
    BY <1>1, <1>2, <1>3 DEF Day
<1>8. \E s : s = m % DaySlots /\ m = Day(m) * DaySlots + s
    BY <1>1, <1>6, <1>7, Zenon
<1>9. m % DaySlots \in 0 .. DaySlots - 1 /\ Day(m) \in Nat
    BY <1>1, <1>3, <1>4, <1>7, Zenon
<1>10. QED
    BY <1>8, <1>9

LEMMA DayOfSlot ==
    ASSUME NEW d \in Nat, NEW s \in 0 .. DaySlots - 1
    PROVE  /\ d * DaySlots + s \in Nat
           /\ Day(d * DaySlots + s) = d /\ (d * DaySlots + s) % DaySlots = s
<1>1. PICK k \in Nat : k = DaySlots /\ k > 0
    BY ScheduleBounds
<1>2. d * k + s \in Nat
    BY <1>1
<1>3. (d * k + s) \div k = d
    BY <1>1, SMTT(20)
<1>4. (d * k + s) % k = s
    BY <1>1, SMTT(20)
<1>5. QED
    BY <1>1, <1>2, <1>3, <1>4 DEF Day

LEMMA DaysFollow ==
    ASSUME NEW m \in Nat, NEW n \in Nat, m <= n
    PROVE  Day(m) <= Day(n)
<1>1. PICK k \in Nat : k = DaySlots /\ k > 0
    BY ScheduleBounds
<1>2. m \div k <= n \div k
    BY <1>1, SMTT(20)
<1>3. QED
    BY <1>1, <1>2 DEF Day

\* n is the first run of the cron after now.
FirstAfter(c, moment, n) ==
    /\ n \in Nat /\ n \in RunsOf(c, n, n)
    /\ RunsOf(c, moment + 1, n - 1) = {}

LEMMA OnDayIs ==
    ASSUME NEW c, c.slots \subseteq 0 .. DaySlots - 1, NEW d \in Nat, NEW after \in Nat
    PROVE  \A m : m \in OnDay(c, d, after) <=>
               m \in Nat /\ Day(m) = d /\ m % DaySlots \in c.slots /\ m > after
<1>1. ASSUME NEW m \in OnDay(c, d, after)
      PROVE  m \in Nat /\ Day(m) = d /\ m % DaySlots \in c.slots /\ m > after
    <2>1. PICK s \in c.slots : m = d * DaySlots + s /\ m > after
        BY <1>1 DEF OnDay
    <2>2. s \in 0 .. DaySlots - 1
        OBVIOUS
    <2>3. QED
        BY <2>1, <2>2, DayOfSlot
<1>2. ASSUME NEW m \in Nat, Day(m) = d, m % DaySlots \in c.slots, m > after
      PROVE  m \in OnDay(c, d, after)
    <2>1. PICK s : s = m % DaySlots /\ m = Day(m) * DaySlots + s
        BY <1>2, DayIs
    <2>2. m = d * DaySlots + s
        BY <2>1, <1>2, Zenon
    <2>3. m = d * DaySlots + s /\ s \in c.slots
        BY <2>1, <2>2, <1>2, Zenon
    <2>4. QED
        BY <2>3, <1>2 DEF OnDay
<1>3. QED
    BY <1>1, <1>2

LEMMA NextMatchIs ==
    ASSUME NEW c, c.slots \subseteq 0 .. DaySlots - 1, NEW after \in Nat,
           NextMatch(c, after) # Never
    PROVE  FirstAfter(c, after, NextMatch(c, after)) /\ NextMatch(c, after) > after
<1> DEFINE days == {d \in Day(after) .. Day(after) + SearchDays - 1 :
                       DayMatches(c, d) /\ OnDay(c, d, after) # {}}
<1>1. days # {} /\ NextMatch(c, after) = Min(OnDay(c, Min(days), after))
    BY DEF NextMatch
<1>2. Day(after) \in Nat /\ SearchDays \in Nat
    BY DayIs, ScheduleBounds
<1>3. days \in SUBSET Nat
    BY <1>2
<1>4. PICK first : first = Min(days)
    OBVIOUS
<1>5. first \in days /\ \A d \in days : first <= d
    <2> HIDE DEF days
    <2> QED
        BY <1>1, <1>3, <1>4, LeastOfNaturals
<1>6. /\ first \in Nat /\ DayMatches(c, first) /\ OnDay(c, first, after) # {}
      /\ first \in Day(after) .. Day(after) + SearchDays - 1
    BY <1>2, <1>5
<1>7. OnDay(c, first, after) \in SUBSET Nat
    BY <1>6, OnDayIs
<1>8. PICK n : n = NextMatch(c, after)
    OBVIOUS
<1>9. n \in OnDay(c, first, after) /\ \A m \in OnDay(c, first, after) : n <= m
    BY <1>1, <1>4, <1>6, <1>7, <1>8, LeastOfNaturals
<1>10. n \in Nat /\ Day(n) = first /\ n % DaySlots \in c.slots /\ n > after
    BY <1>6, <1>9, OnDayIs
<1>11. n \in RunsOf(c, n, n)
    BY <1>6, <1>10 DEF RunsOf
<1>12. RunsOf(c, after + 1, n - 1) = {}
    <2> SUFFICES ASSUME NEW m \in RunsOf(c, after + 1, n - 1) PROVE FALSE
        OBVIOUS
    <2>1. /\ m \in Nat /\ after < m /\ m < n
          /\ m % DaySlots \in c.slots /\ DayMatches(c, Day(m))
        BY <1>10 DEF RunsOf
    <2>2. Day(after) <= Day(m) /\ Day(m) <= first /\ Day(m) \in Nat
        BY <2>1, <1>10, DaysFollow, DayIs
    <2>3. m \in OnDay(c, Day(m), after)
        BY <2>1, <2>2, OnDayIs
    <2>4. Day(m) \in days
        BY <1>2, <1>6, <2>1, <2>2, <2>3
    <2>5. Day(m) = first
        <3>1. first <= Day(m)
            <4> HIDE DEF days
            <4> QED
                BY <1>5, <2>4
        <3>2. QED
            BY <3>1, <2>2, <1>6
    <2>6. n <= m
        BY <1>9, <2>3, <2>5
    <2>7. QED
        BY <2>1, <2>6, <1>10
<1>13. QED
    BY <1>8, <1>10, <1>11, <1>12 DEF FirstAfter
-----------------------------------------------------------------------------
(* The table                                                               *)

PostRows ==
    {RowOf(r, id, time, last) : r \in Requests, id \in Nat, time \in Nat, last \in Nat}

LEMMA PostRowIs ==
    ASSUME NEW row \in PostRows
    PROVE  /\ row.id \in Nat /\ row.next \in Nat
           /\ row.cron.slots \subseteq 0 .. DaySlots - 1
           /\ \A l \in row.source : Holds(row.links, l)
           /\ \A n \in Nat : [row EXCEPT !.next = n] \in PostRows
<1>1. PICK r \in Requests, id \in Nat, time \in Nat, last \in Nat : row = RowOf(r, id, time, last)
    BY DEF PostRows
<1>2. /\ row.id = id /\ row.next = time /\ row.cron = r.cron
      /\ row.source = r.source /\ row.links = KeepLinks(r)
    BY <1>1 DEF RowOf
<1>3. row.cron.slots \subseteq 0 .. DaySlots - 1
    BY <1>2, ScheduleAssumption DEF ScheduleAssumption
<1>4. \A l \in row.source : Holds(row.links, l)
    BY <1>2 DEF Holds, KeepLinks
<1>5. ASSUME NEW n \in Nat PROVE [row EXCEPT !.next = n] \in PostRows
    <2>1. [row EXCEPT !.next = n] = RowOf(r, id, n, last)
        BY <1>1 DEF RowOf
    <2>2. QED
        BY <2>1 DEF PostRows
<1>6. QED
    BY <1>2, <1>3, <1>4, <1>5

\* The rows of a table in the order of their ids, the recurring ones on their
\* next run.
TableOK(rows, last, moment) ==
    /\ rows \in Seq(PostRows)
    /\ \A i \in DOMAIN rows : rows[i].id \in 1 .. last
    /\ \A i, j \in DOMAIN rows : i < j => rows[i].id < rows[j].id
    /\ \A i \in DOMAIN rows : rows[i].cron # Once => FirstAfter(rows[i].cron, moment, rows[i].next)

\* Some of the rows are left, in their order.
Thins(rows, all) ==
    /\ Len(rows) <= Len(all)
    /\ \E f \in [DOMAIN rows -> DOMAIN all] :
          /\ \A i, j \in DOMAIN rows : i < j => f[i] < f[j]
          /\ \A i \in DOMAIN rows : rows[i] = all[f[i]]

LEMMA SelectedThin ==
    ASSUME NEW all \in Seq(PostRows), NEW P \in SUBSET DOMAIN all
    PROVE  ItemsAt(all, P) \in Seq(PostRows) /\ Thins(ItemsAt(all, P), all)
<1>1. PICK o, rows, n : o = Ascending(P) /\ rows = ItemsAt(all, P) /\ n = Cardinality(P)
    OBVIOUS
<1>2. /\ IsFiniteSet(P) /\ n \in Nat /\ o \in [1..n -> P] /\ Increases(o, n)
      /\ rows \in Seq(PostRows) /\ Len(rows) = n /\ DOMAIN rows = 1..n
      /\ \A k \in 1..n : rows[k] = all[o[k]]
    BY <1>1, ItemsAre
<1>3. Len(all) \in Nat /\ DOMAIN all = 1..Len(all)
    BY LenProperties
<1>4. n <= Len(all)
    <2>1. PICK m \in Nat : m = Len(all)
        BY <1>3
    <2>2. IsFiniteSet(1..m) /\ Cardinality(1..m) = m
        BY FS_Interval
    <2>3. P \in SUBSET (1..m)
        BY <1>3, <2>1
    <2>4. Cardinality(P) <= Cardinality(1..m)
        BY <2>2, <2>3, FS_Subset
    <2>5. QED
        BY <1>1, <2>1, <2>2, <2>4
<1>5. o \in [DOMAIN rows -> DOMAIN all]
    BY <1>2
<1>6. \A i, j \in DOMAIN rows : i < j => o[i] < o[j]
    BY <1>2 DEF Increases
<1>7. Thins(rows, all)
    BY <1>2, <1>4, <1>5, <1>6 DEF Thins
<1>8. QED
    BY <1>1, <1>2, <1>7

LEMMA RemovedThin ==
    ASSUME NEW all \in Seq(PostRows), NEW i \in DOMAIN all
    PROVE  RemoveAt(all, i) \in Seq(PostRows) /\ Thins(RemoveAt(all, i), all)
<1>1. PICK n \in Nat : n = Len(all) /\ DOMAIN all = 1..n
    BY LenProperties
<1>2. i \in 1..n /\ \A k \in 1..n : all[k] \in PostRows
    BY <1>1, ElementOfSeq
<1>3. PICK left, right : left = SubSeq(all, 1, i - 1) /\ right = SubSeq(all, i + 1, n)
    OBVIOUS
<1>4. /\ left \in Seq(PostRows) /\ Len(left) = i - 1
      /\ \A k \in 1..(i - 1) : left[k] = all[k]
    <2>1. \A k \in 1..(i - 1) : all[k] \in PostRows
        BY <1>2
    <2>2. left = [k \in 1..(i - 1) |-> all[k]]
        BY <1>1, <1>2, <1>3
    <2>3. left \in [1..(i - 1) -> PostRows] /\ i - 1 \in Nat
        BY <2>1, <2>2, <1>2
    <2>4. left \in Seq(PostRows)
        BY <2>3
    <2>5. QED
        BY <2>2, <2>3, <2>4
<1>5. /\ right \in Seq(PostRows) /\ Len(right) = n - i
      /\ \A k \in 1..(n - i) : right[k] = all[i + k]
    <2>1. right = [k \in 1..(n - i) |-> all[i + k]]
        BY <1>1, <1>2, <1>3
    <2>2. \A k \in 1..(n - i) : all[i + k] \in PostRows
        BY <1>2
    <2>3. right \in [1..(n - i) -> PostRows] /\ n - i \in Nat
        BY <2>1, <2>2, <1>2
    <2>4. right \in Seq(PostRows)
        BY <2>3
    <2>5. QED
        BY <2>1, <2>3, <2>4
<1>6. PICK rows : rows = left \o right
    OBVIOUS
<1>7. /\ rows \in Seq(PostRows) /\ Len(rows) = n - 1
      /\ \A k \in 1..(n - 1) : rows[k] = IF k < i THEN all[k] ELSE all[k + 1]
    <2>0. /\ rows \in Seq(PostRows) /\ Len(rows) = Len(left) + Len(right)
          /\ \A k \in 1..Len(left) + Len(right) :
                 rows[k] = IF k <= Len(left) THEN left[k] ELSE right[k - Len(left)]
        <3>1. left \in Seq(PostRows) /\ right \in Seq(PostRows)
            BY <1>4, <1>5
        <3>2. QED
            BY <3>1, <1>6, ConcatProperties
    <2>1. rows \in Seq(PostRows) /\ Len(rows) = (i - 1) + (n - i)
        BY <1>4, <1>5, <2>0
    <2>2. ASSUME NEW k \in 1..(n - 1) PROVE rows[k] = IF k < i THEN all[k] ELSE all[k + 1]
        <3>0. k \in 1..Len(left) + Len(right)
            BY <1>2, <1>4, <1>5
        <3>1. CASE k < i
            <4>0. k <= Len(left)
                BY <1>2, <1>4, <3>1
            <4>1. rows[k] = left[k]
                BY <1>4, <2>0, <3>0, <4>0
            <4>2. QED
                BY <4>1, <3>1, <1>4, <1>2
        <3>2. CASE ~(k < i)
            <4>0. ~(k <= Len(left))
                BY <1>2, <1>4, <3>2
            <4>1. rows[k] = right[k - (i - 1)]
                BY <1>4, <2>0, <3>0, <4>0
            <4>2. k - (i - 1) \in 1..(n - i) /\ i + (k - (i - 1)) = k + 1
                BY <1>2, <3>2
            <4>3. QED
                BY <4>1, <4>2, <3>2, <1>5
        <3>3. QED
            BY <3>1, <3>2
    <2>3. QED
        BY <2>1, <2>2, <1>2
<1>8. DOMAIN rows = 1..(n - 1)
    BY <1>7, LenProperties
<1>9. PICK f : f = [k \in 1..(n - 1) |-> IF k < i THEN k ELSE k + 1]
    OBVIOUS
<1>10. f \in [DOMAIN rows -> DOMAIN all] /\ \A h, k \in DOMAIN rows : h < k => f[h] < f[k]
    BY <1>1, <1>2, <1>8, <1>9
<1>11. \A k \in DOMAIN rows : rows[k] = all[f[k]]
    BY <1>7, <1>8, <1>9
<1>12. Thins(rows, all)
    BY <1>1, <1>7, <1>10, <1>11 DEF Thins
<1>13. QED
    BY <1>1, <1>3, <1>6, <1>7, <1>12 DEF RemoveAt

LEMMA ThinTables ==
    ASSUME NEW last \in Nat, NEW moment \in Nat, NEW all, TableOK(all, last, moment),
           NEW rows \in Seq(PostRows), Thins(rows, all)
    PROVE  TableOK(rows, last, moment)
<1>1. PICK f \in [DOMAIN rows -> DOMAIN all] :
          /\ \A i, j \in DOMAIN rows : i < j => f[i] < f[j]
          /\ \A i \in DOMAIN rows : rows[i] = all[f[i]]
    BY DEF Thins
<1>2. \A i \in DOMAIN rows : rows[i].id \in 1 .. last
    BY <1>1 DEF TableOK
<1>3. \A i, j \in DOMAIN rows : i < j => rows[i].id < rows[j].id
    BY <1>1 DEF TableOK
<1>4. \A i \in DOMAIN rows : rows[i].cron # Once => FirstAfter(rows[i].cron, moment, rows[i].next)
    BY <1>1 DEF TableOK
<1>5. QED
    BY <1>2, <1>3, <1>4 DEF TableOK
-----------------------------------------------------------------------------
(* What the turns hold                                                     *)

TurnPlaces == {"idle", "adds", "cancels"}

\* A turn that adds has a first run, which is still the next one.
DueOK(a) ==
    does[a] = "adds" =>
        /\ wish[a] \in Requests /\ due[a] \in Nat
        /\ wish[a].cron # Once => FirstAfter(wish[a].cron, clock, due[a])

ScheduleInv ==
    /\ ScheduleTypeOK
    /\ TableOK(stored, ids, clock)
    /\ \A a \in Agents : DueOK(a)

LEMMA TableTypes ==
    ASSUME NEW last \in Nat, NEW moment \in Nat, NEW rows, TableOK(rows, last, moment)
    PROVE  /\ \A i \in DOMAIN rows : rows[i].id \in 1 .. last /\ rows[i].next \in Nat
           /\ \A i, j \in DOMAIN rows : i < j => rows[i].id < rows[j].id
<1>1. \A i \in DOMAIN rows : rows[i] \in PostRows
    BY ElementOfSeq, LenProperties DEF TableOK
<1>2. \A i \in DOMAIN rows : rows[i].next \in Nat
    BY <1>1, PostRowIs
<1>3. QED
    BY <1>2 DEF TableOK

LEMMA InitSchedule == ScheduleInit => ScheduleInv
<1> SUFFICES ASSUME ScheduleInit PROVE ScheduleInv
    OBVIOUS
<1>1. stored = <<>> /\ DOMAIN stored = {} /\ stored \in Seq(PostRows)
    BY DEF ScheduleInit
<1>2. TableOK(stored, ids, clock)
    BY <1>1 DEF TableOK
<1>3. ScheduleTypeOK
    BY <1>1, ScheduleBounds DEF ScheduleInit, ScheduleTypeOK
<1>4. \A a \in Agents : does[a] = "idle"
    BY DEF ScheduleInit
<1>5. QED
    BY <1>2, <1>3, <1>4 DEF ScheduleInv, DueOK

LEMMA FirstRunIs ==
    ASSUME clock \in Nat, NEW r \in Requests, FirstRun(r) # Never
    PROVE  FirstRun(r) \in Nat /\ (r.cron # Once => FirstAfter(r.cron, clock, FirstRun(r)))
<1>1. r.at \in Nat /\ r.cron.slots \subseteq 0 .. DaySlots - 1
    BY ScheduleAssumption DEF ScheduleAssumption
<1>2. CASE r.cron # Once
    <2>1. FirstRun(r) = NextMatch(r.cron, clock) /\ NextMatch(r.cron, clock) # Never
        BY <1>2 DEF FirstRun
    <2>2. FirstAfter(r.cron, clock, NextMatch(r.cron, clock))
        BY <1>1, <2>1, NextMatchIs
    <2>3. QED
        BY <2>1, <2>2 DEF FirstAfter
<1>3. CASE r.cron = Once
    BY <1>1, <1>3 DEF FirstRun
<1>4. QED
    BY <1>2, <1>3

\* What a turn holds, given ids that only grow.
TurnTypes(given) ==
    /\ does \in [Agents -> TurnPlaces]
    /\ wish \in [Agents -> Requests \cup {NoWish}]
    /\ due \in [Agents -> Nat \cup {Never}]
    /\ gone \in [Agents -> SUBSET (1 .. given)]
    /\ since \in [Agents -> 0 .. given]

LEMMA TypesOfTurns ==
    ASSUME ScheduleTypeOK PROVE ids \in Nat /\ clock \in Nat /\ TurnTypes(ids)
BY ScheduleBounds DEF ScheduleTypeOK, TurnTypes, TurnPlaces

LEMMA TurnGoesOn ==
    ASSUME ScheduleTypeOK, ids' \in Nat, ids <= ids', NEW a \in Agents, NEW to \in TurnPlaces,
           NEW r \in Requests \cup {NoWish}, NEW time \in Nat \cup {Never},
           NEW picked \in SUBSET (1 .. ids'), NEW last \in 0 .. ids',
           TurnGoes(a, to, r, time, picked, last)
    PROVE  /\ TurnTypes(ids)'
           /\ does'[a] = to /\ wish'[a] = r /\ due'[a] = time /\ since'[a] = last
           /\ \A b \in Agents : b # a =>
                  /\ does'[b] = does[b] /\ wish'[b] = wish[b]
                  /\ due'[b] = due[b] /\ since'[b] = since[b]
<1>1. ids \in Nat /\ TurnTypes(ids)
    BY TypesOfTurns
<1>2. 1 .. ids \subseteq 1 .. ids' /\ 0 .. ids \subseteq 0 .. ids'
    BY <1>1
<1>3. /\ gone \in [Agents -> SUBSET (1 .. ids')]
      /\ since \in [Agents -> 0 .. ids']
    BY <1>1, <1>2 DEF TurnTypes
<1>4. QED
    BY <1>1, <1>3 DEF TurnGoes, TurnTypes

LEMMA TurnIsOver ==
    ASSUME ScheduleTypeOK, ids' \in Nat, ids <= ids', NEW a \in Agents, TurnEnds(a)
    PROVE  /\ TurnTypes(ids)' /\ does'[a] = "idle"
           /\ \A b \in Agents : b # a =>
                  /\ does'[b] = does[b] /\ wish'[b] = wish[b]
                  /\ due'[b] = due[b] /\ since'[b] = since[b]
<1>1. "idle" \in TurnPlaces /\ 0 \in 0 .. ids'
    BY DEF TurnPlaces
<1>2. QED
    BY <1>1, TurnGoesOn DEF TurnEnds

\* Steps that leave the table alone.
LEMMA ReadToAddSchedule == \A a \in Agents : ScheduleInv /\ ReadToAdd(a) => ScheduleInv'
<1> SUFFICES ASSUME NEW a \in Agents, ScheduleInv, ReadToAdd(a) PROVE ScheduleInv'
    OBVIOUS
<1>1. UNCHANGED <<clock, stored, ids>> /\ ids \in Nat /\ clock \in Nat /\ ScheduleTypeOK
    BY TypesOfTurns DEF ReadToAdd, ScheduleInv
<1>2. PICK r \in Requests : /\ FirstRun(r) # Never
                            /\ TurnGoes(a, "adds", r, FirstRun(r), {}, ids)
    BY DEF ReadToAdd
<1>3. /\ FirstRun(r) \in Nat
      /\ r.cron # Once => FirstAfter(r.cron, clock, FirstRun(r))
    BY <1>1, <1>2, FirstRunIs
<1>4. PICK time \in Nat : time = FirstRun(r)
    BY <1>3
<1>5. "adds" \in TurnPlaces /\ ids \in 0 .. ids'
    BY <1>1 DEF TurnPlaces
<1>6. /\ TurnTypes(ids)'
      /\ does'[a] = "adds" /\ wish'[a] = r /\ due'[a] = time
      /\ \A b \in Agents : b # a =>
             does'[b] = does[b] /\ wish'[b] = wish[b] /\ due'[b] = due[b]
    <2>1. TurnGoes(a, "adds", r, time, {}, ids)
        BY <1>2, <1>4
    <2>2. QED
        BY <1>1, <1>5, <2>1, TurnGoesOn
<1>7. ScheduleTypeOK'
    BY <1>1, <1>6 DEF ScheduleTypeOK, TurnTypes, TurnPlaces
<1>8. TableOK(stored, ids, clock)'
    BY <1>1 DEF ScheduleInv
<1>9. ASSUME NEW b \in Agents PROVE DueOK(b)'
    <2>1. CASE b = a
        BY <1>1, <1>3, <1>4, <1>6, <2>1 DEF DueOK
    <2>2. CASE b # a
        BY <1>1, <1>6, <2>2 DEF ScheduleInv, DueOK
    <2>3. QED
        BY <2>1, <2>2
<1>10. QED
    BY <1>7, <1>8, <1>9 DEF ScheduleInv

\* A step after which a turn adds nothing, and that leaves the table one.
LEMMA TableSteps ==
    ASSUME ScheduleInv, ids' \in 0 .. LastId, TableOK(stored, ids, clock)', UNCHANGED clock,
           TurnTypes(ids)',
           \A b \in Agents :
               \/ does'[b] # "adds"
               \/ does'[b] = does[b] /\ wish'[b] = wish[b] /\ due'[b] = due[b]
    PROVE  ScheduleInv'
<1>1. /\ \A i \in DOMAIN stored' : stored'[i].id \in 1 .. ids' /\ stored'[i].next \in Nat
      /\ \A i, j \in DOMAIN stored' : i < j => stored'[i].id < stored'[j].id
    <2>0. ids' \in Nat /\ clock' \in Nat
        BY ScheduleBounds DEF ScheduleInv, ScheduleTypeOK
    <2>1. PICK last \in Nat, moment \in Nat : last = ids' /\ moment = clock'
        BY <2>0
    <2>5. PICK rows : rows = stored'
        OBVIOUS
    <2>2. TableOK(rows, last, moment)
        BY <2>1, <2>5
    <2>3. /\ \A i \in DOMAIN rows : rows[i].id \in 1 .. last /\ rows[i].next \in Nat
          /\ \A i, j \in DOMAIN rows : i < j => rows[i].id < rows[j].id
        BY <2>2, TableTypes
    <2>4. QED
        BY <2>1, <2>3, <2>5
<1>2. ScheduleTypeOK'
    BY <1>1 DEF ScheduleInv, ScheduleTypeOK, TurnTypes, TurnPlaces
<1>4. \A b \in Agents : DueOK(b)'
    BY DEF ScheduleInv, DueOK
<1>5. QED
    BY <1>2, <1>4 DEF ScheduleInv

LEMMA ReadToCancelSchedule == \A a \in Agents : ScheduleInv /\ ReadToCancel(a) => ScheduleInv'
<1> SUFFICES ASSUME NEW a \in Agents, ScheduleInv, ReadToCancel(a) PROVE ScheduleInv'
    OBVIOUS
<1>1. /\ UNCHANGED <<clock, stored, ids>> /\ ids \in Nat /\ ids' \in 0 .. LastId
      /\ ScheduleTypeOK /\ TableOK(stored, ids, clock)'
    BY TypesOfTurns DEF ReadToCancel, ScheduleInv, ScheduleTypeOK
<1>2. PICK r \in Requests :
          TurnGoes(a, "cancels", NoWish, Never, {stored[i].id : i \in Picked(stored, r)}, 0)
    BY DEF ReadToCancel
<1>3. Picked(stored, r) \subseteq DOMAIN stored
    <2>1. CASE Len(stored) = 1 /\ r.target = "none"
        BY <2>1, LenProperties DEF Picked, ScheduleInv, TableOK
    <2>2. CASE ~(Len(stored) = 1 /\ r.target = "none")
        BY <2>2 DEF Picked
    <2>3. QED
        BY <2>1, <2>2
<1>4. {stored[i].id : i \in Picked(stored, r)} \subseteq 1 .. ids'
    BY <1>1, <1>3 DEF ScheduleTypeOK
<1>5. "cancels" \in TurnPlaces /\ 0 \in 0 .. ids'
    BY <1>1 DEF TurnPlaces
<1>6. /\ TurnTypes(ids)' /\ does'[a] = "cancels"
      /\ \A b \in Agents : b # a =>
             does'[b] = does[b] /\ wish'[b] = wish[b] /\ due'[b] = due[b]
    <2>1. PICK picked \in SUBSET (1 .. ids') : picked = {stored[i].id : i \in Picked(stored, r)}
        BY <1>4
    <2>2. TurnGoes(a, "cancels", NoWish, Never, picked, 0)
        BY <1>2, <2>1
    <2>3. NoWish \in Requests \cup {NoWish} /\ Never \in Nat \cup {Never}
        OBVIOUS
    <2>4. ids' \in Nat /\ ids <= ids'
        BY <1>1
    <2>5. QED
        <3>1. PICK r0 \in Requests \cup {NoWish}, time \in Nat \cup {Never}, last \in 0 .. ids' :
                  r0 = NoWish /\ time = Never /\ last = 0
            BY <1>5, <2>3
        <3>2. TurnGoes(a, "cancels", r0, time, picked, last)
            BY <2>2, <3>1
        <3>3. QED
            BY <1>1, <1>5, <2>4, <3>2, TurnGoesOn, SMTT(60)
<1>7. QED
    BY <1>1, <1>6, TableSteps

LEMMA TurnDiesSchedule == \A a \in Agents : ScheduleInv /\ TurnDies(a) => ScheduleInv'
<1> SUFFICES ASSUME NEW a \in Agents, ScheduleInv, TurnDies(a) PROVE ScheduleInv'
    OBVIOUS
<1>1. /\ UNCHANGED <<clock, stored, ids>> /\ ids \in Nat /\ ids' \in 0 .. LastId
      /\ ScheduleTypeOK /\ TableOK(stored, ids, clock)' /\ TurnEnds(a)
    BY TypesOfTurns DEF TurnDies, ScheduleInv, ScheduleTypeOK
<1>2. /\ TurnTypes(ids)' /\ does'[a] = "idle"
      /\ \A b \in Agents : b # a =>
             does'[b] = does[b] /\ wish'[b] = wish[b] /\ due'[b] = due[b]
    BY <1>1, TurnIsOver
<1>3. QED
    BY <1>1, <1>2, TableSteps

\* A row that is appended is the last one, on its next run.
LEMMA AppendedTable ==
    ASSUME NEW last \in Nat, NEW moment \in Nat, NEW rows, TableOK(rows, last, moment),
           NEW r \in Requests, NEW time \in Nat, NEW read \in Nat,
           r.cron # Once => FirstAfter(r.cron, moment, time)
    PROVE  TableOK(Append(rows, RowOf(r, last + 1, time, read)), last + 1, moment)
<1>1. PICK row : row = RowOf(r, last + 1, time, read)
    OBVIOUS
<1>2. /\ row \in PostRows /\ row.id = last + 1 /\ row.cron = r.cron /\ row.next = time
    BY <1>1 DEF PostRows, RowOf
<1>3. PICK n \in Nat : n = Len(rows) /\ DOMAIN rows = 1..n
    BY LenProperties DEF TableOK
<1>4. PICK more : more = Append(rows, row)
    OBVIOUS
<1>5. /\ more \in Seq(PostRows) /\ Len(more) = n + 1 /\ DOMAIN more = 1..(n + 1)
      /\ \A i \in 1..n : more[i] = rows[i]
      /\ more[n + 1] = row
    BY <1>2, <1>3, <1>4, AppendProperties DEF TableOK
<1>6. \A i \in 1..n : more[i].id \in 1 .. last
    BY <1>3, <1>5 DEF TableOK
<1>7. \A i \in DOMAIN more : more[i].id \in 1 .. last + 1
    BY <1>2, <1>5, <1>6
<1>8. ASSUME NEW i \in DOMAIN more, NEW j \in DOMAIN more, i < j
      PROVE  more[i].id < more[j].id
    <2>1. i \in 1..n
        BY <1>5, <1>8
    <2>2. CASE j \in 1..n
        BY <1>3, <1>5, <1>8, <2>1, <2>2 DEF TableOK
    <2>3. CASE j = n + 1
        <3>1. more[j].id = last + 1 /\ more[i].id \in 1 .. last
            BY <1>2, <1>5, <1>6, <2>1, <2>3
        <3>2. QED
            BY <3>1
    <2>4. QED
        BY <1>5, <2>2, <2>3
<1>9. ASSUME NEW i \in DOMAIN more, more[i].cron # Once
      PROVE  FirstAfter(more[i].cron, moment, more[i].next)
    <2>1. CASE i \in 1..n
        BY <1>3, <1>5, <1>9, <2>1 DEF TableOK
    <2>2. CASE i = n + 1
        BY <1>2, <1>5, <1>9, <2>2
    <2>3. QED
        BY <1>5, <2>1, <2>2
<1>10. TableOK(more, last + 1, moment)
    BY <1>5, <1>7, <1>8, <1>9 DEF TableOK
<1>11. QED
    BY <1>1, <1>4, <1>10

\* A recurring row that moves on to its next run.
LEMMA MovedTable ==
    ASSUME NEW last \in Nat, NEW moment \in Nat, NEW rows, TableOK(rows, last, moment),
           NEW i \in DOMAIN rows, NEW time, time = NextMatch(rows[i].cron, moment), time # Never
    PROVE  TableOK([rows EXCEPT ![i].next = time], last, moment)
<1>1. PICK n \in Nat : n = Len(rows) /\ DOMAIN rows = 1..n
    BY LenProperties DEF TableOK
<1>2. \A k \in 1..n : rows[k] \in PostRows
    BY <1>1, ElementOfSeq DEF TableOK
<1>3. rows[i].cron.slots \subseteq 0 .. DaySlots - 1
    BY <1>1, <1>2, PostRowIs
<1>4. FirstAfter(rows[i].cron, moment, time)
    BY <1>3, NextMatchIs
<1>5. PICK row : row = [rows[i] EXCEPT !.next = time]
    OBVIOUS
<1>6. row \in PostRows
    BY <1>1, <1>2, <1>4, <1>5, PostRowIs DEF FirstAfter
<1>7. row.id = rows[i].id /\ row.cron = rows[i].cron /\ row.next = time
    <2>1. PICK r \in Requests, id \in Nat, old \in Nat, read \in Nat :
              rows[i] = RowOf(r, id, old, read)
        BY <1>1, <1>2 DEF PostRows
    <2>2. QED
        BY <1>5, <2>1 DEF RowOf
<1>8. PICK shifted : shifted = [rows EXCEPT ![i].next = time]
    OBVIOUS
<1>9. /\ DOMAIN shifted = 1..n /\ shifted[i] = row
      /\ \A k \in 1..n : k # i => shifted[k] = rows[k]
    BY <1>1, <1>5, <1>8
<1>10. shifted \in Seq(PostRows)
    <2>1. \A k \in 1..n : shifted[k] \in PostRows
        BY <1>2, <1>6, <1>9
    <2>2. shifted = [k \in 1..n |-> shifted[k]]
        BY <1>1, <1>8
    <2>3. shifted \in [1..n -> PostRows]
        BY <2>1, <2>2
    <2>4. QED
        BY <2>3
<1>11. \A k \in 1..n : shifted[k].id = rows[k].id /\ shifted[k].cron = rows[k].cron
    BY <1>7, <1>9
<1>12. /\ \A k \in DOMAIN shifted : shifted[k].id \in 1 .. last
       /\ \A h, k \in DOMAIN shifted : h < k => shifted[h].id < shifted[k].id
    BY <1>1, <1>9, <1>11 DEF TableOK
<1>13. \A k \in DOMAIN shifted :
           shifted[k].cron # Once => FirstAfter(shifted[k].cron, moment, shifted[k].next)
    BY <1>1, <1>4, <1>7, <1>9 DEF TableOK
<1>14. QED
    BY <1>8, <1>10, <1>12, <1>13 DEF TableOK

LEMMA InsertSchedule == \A a \in Agents : ScheduleInv /\ Insert(a) => ScheduleInv'
<1> SUFFICES ASSUME NEW a \in Agents, ScheduleInv, Insert(a) PROVE ScheduleInv'
    OBVIOUS
<1>1. PICK last, moment, rows :
          last \in Nat /\ moment \in Nat /\ last = ids /\ moment = clock /\ rows = stored
    BY ScheduleBounds DEF ScheduleInv, ScheduleTypeOK
<1>2. /\ UNCHANGED clock /\ does[a] = "adds" /\ ids < LastId /\ ids' = ids + 1
      /\ stored' = Append(stored, RowOf(wish[a], ids', due[a], since[a]))
      /\ TurnEnds(a) /\ ScheduleTypeOK
    BY DEF Insert, ScheduleInv
<1>3. ids' \in 0 .. LastId /\ ids' \in Nat /\ ids <= ids'
    BY <1>1, <1>2, ScheduleBounds
<1>4. /\ TurnTypes(ids)' /\ does'[a] = "idle"
      /\ \A b \in Agents : b # a =>
             does'[b] = does[b] /\ wish'[b] = wish[b] /\ due'[b] = due[b]
    BY <1>2, <1>3, TurnIsOver
<1>5. TableOK(rows, last, moment)
    BY <1>1 DEF ScheduleInv
<1>6. PICK r \in Requests, time \in Nat :
          r = wish[a] /\ time = due[a] /\ (r.cron # Once => FirstAfter(r.cron, moment, time))
    BY <1>1, <1>2 DEF ScheduleInv, DueOK
<1>7. PICK read \in Nat : read = since[a]
    BY <1>1 DEF ScheduleInv, ScheduleTypeOK
<1>8. TableOK(Append(rows, RowOf(r, last + 1, time, read)), last + 1, moment)
    BY <1>1, <1>5, <1>6, <1>7, AppendedTable
<1>9. stored' = Append(rows, RowOf(r, last + 1, time, read)) /\ ids' = last + 1 /\ clock' = moment
    BY <1>1, <1>2, <1>6, <1>7
<1>10. TableOK(stored', ids', clock')
    BY <1>8, <1>9
<1>11. TableOK(stored, ids, clock)'
    BY <1>10
<1>12. QED
    BY <1>2, <1>3, <1>4, <1>11, TableSteps

LEMMA DeleteSchedule == \A a \in Agents : ScheduleInv /\ Delete(a) => ScheduleInv'
<1> SUFFICES ASSUME NEW a \in Agents, ScheduleInv, Delete(a) PROVE ScheduleInv'
    OBVIOUS
<1>1. PICK last, moment, rows :
          last \in Nat /\ moment \in Nat /\ last = ids /\ moment = clock /\ rows = stored
    BY ScheduleBounds DEF ScheduleInv, ScheduleTypeOK
<1>2. UNCHANGED <<clock, ids>> /\ TurnEnds(a) /\ ScheduleTypeOK /\ ids' \in 0 .. LastId
    BY DEF Delete, ScheduleInv, ScheduleTypeOK
<1>3. TableOK(rows, last, moment) /\ rows \in Seq(PostRows)
    BY <1>1 DEF ScheduleInv, TableOK
<1>4. PICK P \in SUBSET DOMAIN rows : stored' = ItemsAt(rows, P)
    BY <1>1 DEF Delete, Select
<1>5. ItemsAt(rows, P) \in Seq(PostRows) /\ Thins(ItemsAt(rows, P), rows)
    BY <1>3, SelectedThin
<1>6. TableOK(ItemsAt(rows, P), last, moment)
    BY <1>1, <1>3, <1>5, ThinTables
<1>7. TableOK(stored', ids', clock')
    BY <1>1, <1>2, <1>4, <1>6
<1>8. TableOK(stored, ids, clock)'
    BY <1>7
<1>9. /\ TurnTypes(ids)' /\ does'[a] = "idle"
      /\ \A b \in Agents : b # a =>
             does'[b] = does[b] /\ wish'[b] = wish[b] /\ due'[b] = due[b]
    BY <1>1, <1>2, TurnIsOver
<1>10. QED
    BY <1>2, <1>8, <1>9, TableSteps

LEMMA PostDueSchedule == ScheduleInv /\ PostDue => ScheduleInv'
<1> SUFFICES ASSUME ScheduleInv, PostDue PROVE ScheduleInv'
    OBVIOUS
<1>1. PICK last, moment, rows :
          last \in Nat /\ moment \in Nat /\ last = ids /\ moment = clock /\ rows = stored
    BY ScheduleBounds DEF ScheduleInv, ScheduleTypeOK
<1>2. UNCHANGED <<clock, ids, does, wish, due, gone, since>>
    BY DEF PostDue
<1>3. TableOK(rows, last, moment) /\ rows \in Seq(PostRows)
    BY <1>1 DEF ScheduleInv, TableOK
<1>4. PICK i, time :
          /\ i \in DOMAIN rows
          /\ time = IF rows[i].cron = Once THEN Never ELSE NextMatch(rows[i].cron, moment)
          /\ stored' = IF time = Never THEN RemoveAt(rows, i) ELSE [rows EXCEPT ![i].next = time]
    BY <1>1 DEF PostDue
<1>5. TableOK(stored', last, moment)
    <2>1. CASE time = Never
        <3>1. RemoveAt(rows, i) \in Seq(PostRows) /\ Thins(RemoveAt(rows, i), rows)
            BY <1>1, <1>4, <1>3, RemovedThin
        <3>2. TableOK(RemoveAt(rows, i), last, moment)
            BY <1>1, <1>4, <1>3, <3>1, ThinTables
        <3>3. QED
            BY <1>4, <2>1, <3>2
    <2>2. CASE time # Never
        <3>1. time = NextMatch(rows[i].cron, moment)
            BY <1>4, <2>2
        <3>2. TableOK([rows EXCEPT ![i].next = time], last, moment)
            BY <1>1, <1>4, <1>3, <2>2, <3>1, MovedTable
        <3>3. QED
            BY <1>4, <2>2, <3>2
    <2>3. QED
        BY <2>1, <2>2
<1>6. TableOK(stored, ids, clock)' /\ ids' \in 0 .. LastId
    BY <1>1, <1>2, <1>5 DEF ScheduleInv, ScheduleTypeOK
<1>7. TurnTypes(ids)'
    BY <1>2, TypesOfTurns DEF ScheduleInv, TurnTypes
<1>8. QED
    BY <1>2, <1>6, <1>7, TableSteps

\* Time leaves a run the first one until it comes.
LEMMA FirstStays ==
    ASSUME NEW c, NEW moment \in Nat, NEW n, FirstAfter(c, moment, n)
    PROVE  FirstAfter(c, moment + 1, n)
<1>1. n \in Nat
    BY DEF FirstAfter
<1>2. RunsOf(c, moment + 1 + 1, n - 1) \subseteq RunsOf(c, moment + 1, n - 1)
    BY <1>1 DEF RunsOf
<1>3. QED
    BY <1>2 DEF FirstAfter

LEMMA LaterSchedule == ScheduleInv /\ Later => ScheduleInv'
<1> SUFFICES ASSUME ScheduleInv, Later PROVE ScheduleInv'
    OBVIOUS
<1>1. PICK moment \in Nat : moment = clock /\ clock' = moment + 1 /\ moment < LastNow
    BY ScheduleBounds DEF ScheduleInv, ScheduleTypeOK, Later
<1>2. UNCHANGED <<stored, ids, does, wish, due, gone, since>>
    BY DEF Later
<1>3. ScheduleTypeOK'
    BY <1>1, <1>2, ScheduleBounds DEF ScheduleInv, ScheduleTypeOK
<1>4. TableOK(stored', ids', clock')
    <2>1. \A i \in DOMAIN stored : stored[i].cron # Once =>
              FirstAfter(stored[i].cron, moment + 1, stored[i].next)
        BY <1>1, FirstStays DEF ScheduleInv, TableOK
    <2>2. QED
        BY <1>1, <1>2, <2>1 DEF ScheduleInv, TableOK
<1>5. \A a \in Agents : DueOK(a)'
    <2> SUFFICES ASSUME NEW a \in Agents PROVE DueOK(a)'
        OBVIOUS
    <2>1. does[a] = "adds" /\ wish[a].cron # Once => FirstAfter(wish[a].cron, moment + 1, due[a])
        BY <1>1, FirstStays DEF ScheduleInv, DueOK
    <2>2. QED
        BY <1>1, <1>2, <2>1 DEF ScheduleInv, DueOK
<1>6. TableOK(stored, ids, clock)'
    BY <1>4
<1>7. QED
    BY <1>2, <1>3, <1>5, <1>6 DEF ScheduleInv

LEMMA NextSchedule == ScheduleInv /\ [ScheduleNext]_scheduleVars => ScheduleInv'
<1> SUFFICES ASSUME ScheduleInv, [ScheduleNext]_scheduleVars PROVE ScheduleInv'
    OBVIOUS
<1>1. CASE UNCHANGED scheduleVars
    BY <1>1 DEF scheduleVars, ScheduleInv, ScheduleTypeOK, TableOK, DueOK
<1>2. CASE ScheduleNext
    BY <1>2, ReadToAddSchedule, ReadToCancelSchedule, InsertSchedule, DeleteSchedule,
       TurnDiesSchedule, PostDueSchedule, LaterSchedule DEF ScheduleNext
<1>3. QED
    BY <1>1, <1>2

\* The invariant of the table and of what the agents read of it.
THEOREM ScheduleInvariant == ScheduleSpec => []ScheduleInv
BY InitSchedule, NextSchedule, PTL DEF ScheduleSpec
-----------------------------------------------------------------------------
(* Turns that overlap: each has read a list without the other's row        *)

\* The same links on the same schedule.
SamePlan(row, other) ==
    /\ row.links = other.links /\ row.cron = other.cron
    /\ row.cron = Once => row.next = other.next

\* Of two such rows the later one's turn had not read the earlier one.
OnceTable(rows) ==
    \A i, j \in DOMAIN rows :
        i < j /\ rows[i].links # {} /\ SamePlan(rows[i], rows[j]) => rows[j].since < rows[i].id

\* Rows like the one that is to be added came after the list was read.
CameLater(rows, row) ==
    \A i \in DOMAIN rows :
        rows[i].links # {} /\ SamePlan(rows[i], row) => row.since < rows[i].id

RowToAdd(a) == RowOf(wish[a], 1, due[a], since[a])

OnceInv ==
    /\ OnceTable(stored)
    /\ \A a \in Agents : does[a] = "adds" => CameLater(stored, RowToAdd(a))

LEMMA ThinOnce ==
    ASSUME NEW all \in Seq(PostRows), NEW rows \in Seq(PostRows), Thins(rows, all)
    PROVE  /\ OnceTable(all) => OnceTable(rows)
           /\ \A row : CameLater(all, row) => CameLater(rows, row)
<1>1. PICK f \in [DOMAIN rows -> DOMAIN all] :
          /\ \A i, j \in DOMAIN rows : i < j => f[i] < f[j]
          /\ \A i \in DOMAIN rows : rows[i] = all[f[i]]
    BY DEF Thins
<1>2. OnceTable(all) => OnceTable(rows)
    BY <1>1 DEF OnceTable
<1>3. \A row : CameLater(all, row) => CameLater(rows, row)
    BY <1>1 DEF CameLater
<1>4. QED
    BY <1>2, <1>3

\* A recurring row that moves on is still the same plan.
LEMMA MovedOnce ==
    ASSUME NEW rows \in Seq(PostRows), NEW i \in DOMAIN rows, rows[i].cron # Once,
           NEW time \in Nat
    PROVE  /\ OnceTable(rows) => OnceTable([rows EXCEPT ![i].next = time])
           /\ \A row : CameLater(rows, row) => CameLater([rows EXCEPT ![i].next = time], row)
<1>1. PICK n \in Nat : n = Len(rows) /\ DOMAIN rows = 1..n
    BY LenProperties
<1>2. PICK shifted : shifted = [rows EXCEPT ![i].next = time]
    OBVIOUS
<1>3. PICK r \in Requests, id \in Nat, old \in Nat, read \in Nat : rows[i] = RowOf(r, id, old, read)
    BY <1>1, ElementOfSeq DEF PostRows
<1>4. /\ shifted[i].links = rows[i].links /\ shifted[i].cron = rows[i].cron
      /\ shifted[i].id = rows[i].id /\ shifted[i].since = rows[i].since
    BY <1>1, <1>2, <1>3 DEF RowOf
<1>5. /\ DOMAIN shifted = 1..n
      /\ \A k \in 1..n : k # i => shifted[k] = rows[k]
    BY <1>1, <1>2
<1>6. \A k \in 1..n : /\ shifted[k].links = rows[k].links /\ shifted[k].cron = rows[k].cron
                      /\ shifted[k].id = rows[k].id /\ shifted[k].since = rows[k].since
                      /\ shifted[k].cron = Once => shifted[k].next = rows[k].next
    BY <1>1, <1>4, <1>5
<1>7. OnceTable(rows) => OnceTable(shifted)
    BY <1>1, <1>5, <1>6 DEF OnceTable, SamePlan
<1>8. \A row : CameLater(rows, row) => CameLater(shifted, row)
    BY <1>1, <1>5, <1>6 DEF CameLater, SamePlan
<1>9. QED
    BY <1>2, <1>7, <1>8

\* The row of a turn is the last one; those like it came after its reading.
LEMMA AppendedOnce ==
    ASSUME NEW rows \in Seq(PostRows), NEW row \in PostRows
    PROVE  /\ OnceTable(rows) /\ CameLater(rows, row) => OnceTable(Append(rows, row))
           /\ \A other : CameLater(rows, other) /\ other.since < row.id
                             => CameLater(Append(rows, row), other)
<1>1. PICK n \in Nat : n = Len(rows) /\ DOMAIN rows = 1..n
    BY LenProperties
<1>2. PICK more : more = Append(rows, row)
    OBVIOUS
<1>3. /\ DOMAIN more = 1..(n + 1)
      /\ \A k \in 1..n : more[k] = rows[k]
      /\ more[n + 1] = row
    BY <1>1, <1>2, AppendProperties
<1>4. ASSUME OnceTable(rows), CameLater(rows, row), NEW i \in DOMAIN more, NEW j \in DOMAIN more,
             i < j, more[i].links # {}, SamePlan(more[i], more[j])
      PROVE  more[j].since < more[i].id
    <2>1. i \in 1..n
        BY <1>3, <1>4
    <2>2. CASE j \in 1..n
        BY <1>1, <1>3, <1>4, <2>1, <2>2 DEF OnceTable
    <2>3. CASE j = n + 1
        BY <1>1, <1>3, <1>4, <2>1, <2>3 DEF CameLater
    <2>4. QED
        BY <1>3, <2>2, <2>3
<1>5. ASSUME NEW other, CameLater(rows, other), other.since < row.id, NEW i \in DOMAIN more,
             more[i].links # {}, SamePlan(more[i], other)
      PROVE  other.since < more[i].id
    <2>1. CASE i \in 1..n
        BY <1>1, <1>3, <1>5, <2>1 DEF CameLater
    <2>2. CASE i = n + 1
        BY <1>3, <1>5, <2>2
    <2>3. QED
        BY <1>3, <2>1, <2>2
<1>6. QED
    BY <1>2, <1>4, <1>5 DEF OnceTable, CameLater

\* A step that leaves the table alone and lets no turn begin to add.
LEMMA OnceSteps ==
    ASSUME OnceInv, UNCHANGED stored,
           \A b \in Agents :
               \/ does'[b] # "adds"
               \/ /\ does'[b] = does[b] /\ wish'[b] = wish[b]
                  /\ due'[b] = due[b] /\ since'[b] = since[b]
    PROVE  OnceInv'
BY DEF OnceInv, RowToAdd

\* The same of a step that changes the table to one that is thinner, or where a
\* recurring row moved on.
LEMMA OnceTables ==
    ASSUME OnceInv, NEW after, stored' = after, OnceTable(after),
           \A row : CameLater(stored, row) => CameLater(after, row),
           \A b \in Agents :
               \/ does'[b] # "adds"
               \/ /\ does'[b] = does[b] /\ wish'[b] = wish[b]
                  /\ due'[b] = due[b] /\ since'[b] = since[b]
    PROVE  OnceInv'
<1>1. ASSUME NEW b \in Agents, does'[b] = "adds" PROVE CameLater(after, RowToAdd(b)')
    <2>1. RowToAdd(b)' = RowToAdd(b) /\ does[b] = "adds"
        BY <1>1 DEF RowToAdd
    <2>2. QED
        BY <2>1 DEF OnceInv
<1>2. QED
    BY <1>1 DEF OnceInv

LEMMA NextOnce == ScheduleInv /\ OnceInv /\ [ScheduleNext]_scheduleVars => OnceInv'
<1> SUFFICES ASSUME ScheduleInv, OnceInv, [ScheduleNext]_scheduleVars PROVE OnceInv'
    OBVIOUS
<1>0. /\ stored \in Seq(PostRows) /\ ids \in Nat /\ clock \in Nat /\ TurnTypes(ids)
      /\ ScheduleTypeOK
    BY TypesOfTurns DEF ScheduleInv, TableOK
<1>1. CASE UNCHANGED scheduleVars
    BY <1>1, OnceSteps DEF scheduleVars
<1>2. ASSUME NEW a \in Agents, ReadToAdd(a) PROVE OnceInv'
    <2>1. PICK r \in Requests :
              /\ FirstRun(r) # Never
              /\ \A i \in DOMAIN stored : ~Same(stored[i], r, FirstRun(r))
              /\ TurnGoes(a, "adds", r, FirstRun(r), {}, ids)
        BY <1>2 DEF ReadToAdd
    <2>2. PICK time \in Nat : time = FirstRun(r)
        BY <1>0, <2>1, FirstRunIs
    <2>3. UNCHANGED <<stored, ids>>
        BY <1>2 DEF ReadToAdd
    <2>4. /\ wish'[a] = r /\ due'[a] = time /\ since'[a] = ids
          /\ \A b \in Agents : b # a =>
                 /\ does'[b] = does[b] /\ wish'[b] = wish[b]
                 /\ due'[b] = due[b] /\ since'[b] = since[b]
        <3>1. "adds" \in TurnPlaces /\ ids \in 0 .. ids' /\ ids' \in Nat /\ ids <= ids'
            BY <1>0, <2>3 DEF TurnPlaces
        <3>2. TurnGoes(a, "adds", r, time, {}, ids)
            BY <2>1, <2>2
        <3>3. QED
            BY <1>0, <3>1, <3>2, TurnGoesOn
    <2>5. \A i \in DOMAIN stored : stored[i].links # {} => ~SamePlan(stored[i], RowOf(r, 1, time, ids))
        BY <2>1, <2>2 DEF SamePlan, RowOf, Same, SamePost
    <2>6. CameLater(stored', RowToAdd(a)')
        BY <2>3, <2>4, <2>5 DEF CameLater, RowToAdd
    <2>7. ASSUME NEW b \in Agents, b # a, does'[b] = "adds" PROVE CameLater(stored', RowToAdd(b)')
        BY <2>3, <2>4, <2>7 DEF OnceInv, RowToAdd
    <2>8. OnceTable(stored')
        BY <2>3 DEF OnceInv
    <2>9. QED
        BY <2>6, <2>7, <2>8 DEF OnceInv
<1>3. ASSUME NEW a \in Agents, ReadToCancel(a) \/ TurnDies(a) PROVE OnceInv'
    <2>1. UNCHANGED stored
        BY <1>3 DEF ReadToCancel, TurnDies
    <2>2. /\ does'[a] # "adds"
          /\ \A b \in Agents : b # a => /\ does'[b] = does[b] /\ wish'[b] = wish[b]
                                        /\ due'[b] = due[b] /\ since'[b] = since[b]
        <3>1. PICK to, r, picked, last : to # "adds" /\ TurnGoes(a, to, r, Never, picked, last)
            BY <1>3 DEF ReadToCancel, TurnDies, TurnEnds
        <3>2. QED
            BY <1>0, <3>1 DEF TurnGoes, TurnTypes
    <2>3. QED
        BY <2>1, <2>2, OnceSteps
<1>4. ASSUME NEW a \in Agents, Insert(a) PROVE OnceInv'
    <2>1. /\ does[a] = "adds" /\ ids' = ids + 1 /\ TurnEnds(a)
          /\ stored' = Append(stored, RowOf(wish[a], ids', due[a], since[a]))
        BY <1>4 DEF Insert
    <2>2. PICK r \in Requests, time \in Nat, read \in Nat :
              r = wish[a] /\ time = due[a] /\ read = since[a]
        BY <1>0, <2>1 DEF ScheduleInv, DueOK, TurnTypes
    <2>3. PICK row : row = RowOf(r, ids + 1, time, read)
        OBVIOUS
    <2>4. row \in PostRows /\ row.id = ids + 1
        <3>1. ids + 1 \in Nat
            BY <1>0 DEF ScheduleInv
        <3>2. row \in PostRows
            BY <2>3, <3>1 DEF PostRows
        <3>3. row.id = ids + 1
            BY <2>3 DEF RowOf
        <3>4. QED
            BY <3>2, <3>3
    <2>5. CameLater(stored, row)
        <3>1. CameLater(stored, RowOf(r, 1, time, read))
            BY <2>1, <2>2 DEF OnceInv, RowToAdd
        <3>2. QED
            BY <2>3, <3>1 DEF CameLater, SamePlan, RowOf
    <2>6. PICK more : more = Append(stored, row)
        OBVIOUS
    <2>7. stored' = more
        BY <2>1, <2>2, <2>3, <2>6
    <2>8. OnceTable(more)
        BY <1>0, <2>4, <2>5, <2>6, AppendedOnce DEF OnceInv
    <2>9. ASSUME NEW b \in Agents, does'[b] = "adds" PROVE CameLater(more, RowToAdd(b)')
        <3>1. b # a /\ RowToAdd(b)' = RowToAdd(b) /\ does[b] = "adds"
            BY <1>0, <2>1, <2>9 DEF TurnEnds, TurnGoes, TurnTypes, RowToAdd
        <3>2. RowToAdd(b).since < row.id
            BY <1>0, <2>4 DEF RowToAdd, RowOf, TurnTypes
        <3>3. CameLater(stored, RowToAdd(b))
            BY <3>1 DEF OnceInv
        <3>4. QED
            BY <1>0, <2>4, <2>6, <3>1, <3>2, <3>3, AppendedOnce
    <2>10. QED
        BY <2>7, <2>8, <2>9 DEF OnceInv
<1>5. ASSUME NEW a \in Agents, Delete(a) PROVE OnceInv'
    <2>1. PICK P \in SUBSET DOMAIN stored : stored' = ItemsAt(stored, P)
        BY <1>5 DEF Delete, Select
    <2>2. ItemsAt(stored, P) \in Seq(PostRows) /\ Thins(ItemsAt(stored, P), stored)
        BY <1>0, SelectedThin
    <2>3. PICK after : after = ItemsAt(stored, P)
        OBVIOUS
    <2>4. OnceTable(after) /\ \A row : CameLater(stored, row) => CameLater(after, row)
        BY <1>0, <2>2, <2>3, ThinOnce DEF OnceInv
    <2>5. \A b \in Agents :
               \/ does'[b] # "adds"
               \/ /\ does'[b] = does[b] /\ wish'[b] = wish[b]
                  /\ due'[b] = due[b] /\ since'[b] = since[b]
        BY <1>0, <1>5 DEF Delete, TurnEnds, TurnGoes, TurnTypes
    <2>6. QED
        BY <2>1, <2>3, <2>4, <2>5, OnceTables
<1>6. CASE PostDue
    <2>1. UNCHANGED <<clock, does, wish, due, since>>
        BY <1>6 DEF PostDue
    <2>2. PICK moment \in Nat : moment = clock
        BY <1>0
    <2>3. PICK i, time :
              /\ i \in DOMAIN stored
              /\ time = IF stored[i].cron = Once THEN Never ELSE NextMatch(stored[i].cron, moment)
              /\ stored' = IF time = Never THEN RemoveAt(stored, i)
                           ELSE [stored EXCEPT ![i].next = time]
        BY <1>6, <2>2 DEF PostDue
    <2>4. PICK after : after = stored'
        OBVIOUS
    <2>5. OnceTable(after) /\ \A row : CameLater(stored, row) => CameLater(after, row)
        <3>1. CASE time = Never
            <4>1. RemoveAt(stored, i) \in Seq(PostRows) /\ Thins(RemoveAt(stored, i), stored)
                BY <1>0, <2>3, RemovedThin
            <4>2. after = RemoveAt(stored, i)
                BY <2>3, <2>4, <3>1
            <4>3. QED
                BY <1>0, <4>1, <4>2, ThinOnce DEF OnceInv
        <3>2. CASE time # Never
            <4>1. stored[i].cron # Once /\ time = NextMatch(stored[i].cron, moment)
                BY <2>3, <3>2
            <4>2. stored[i] \in PostRows
                BY <1>0, <2>3, ElementOfSeq, LenProperties
            <4>3. time \in Nat
                BY <3>2, <4>1, <4>2, PostRowIs, NextMatchIs DEF FirstAfter
            <4>4. after = [stored EXCEPT ![i].next = time]
                BY <2>3, <2>4, <3>2
            <4>5. QED
                BY <1>0, <2>3, <4>1, <4>3, <4>4, MovedOnce DEF OnceInv
        <3>3. QED
            BY <3>1, <3>2
    <2>6. QED
        BY <2>1, <2>4, <2>5, OnceTables
<1>7. CASE Later
    BY <1>7, OnceSteps DEF Later
<1>8. QED
    BY <1>1, <1>2, <1>3, <1>4, <1>5, <1>6, <1>7 DEF ScheduleNext

LEMMA InitOnce == ScheduleInit => OnceInv
<1> SUFFICES ASSUME ScheduleInit PROVE OnceInv
    OBVIOUS
<1>1. stored = <<>> /\ DOMAIN stored = {}
    BY DEF ScheduleInit
<1>2. \A a \in Agents : does[a] = "idle"
    BY DEF ScheduleInit
<1>3. QED
    BY <1>1, <1>2 DEF OnceInv, OnceTable

\* The limit: every turn that adds has found room, whoever else found the same.
Adders == {a \in Agents : does[a] = "adds"}

LimitInv == Len(stored) + Cardinality(Adders) <= MaxPosts + Cardinality(Agents) - 1

LEMMA FewerAdders ==
    ASSUME Adders' \subseteq Adders
    PROVE  /\ Cardinality(Adders) \in Nat /\ Cardinality(Adders') \in Nat
           /\ Cardinality(Adders') <= Cardinality(Adders)
<1>1. IsFiniteSet(Agents)
    BY ScheduleAssumption DEF ScheduleAssumption
<1>2. Adders \in SUBSET Agents
    BY DEF Adders
<1>3. IsFiniteSet(Adders)
    BY <1>1, <1>2, FS_Subset
<1>4. IsFiniteSet(Adders') /\ Cardinality(Adders') <= Cardinality(Adders)
    BY <1>3, FS_Subset
<1>5. QED
    BY <1>3, <1>4, FS_CardinalityType

LEMMA NextLimit == ScheduleInv /\ LimitInv /\ [ScheduleNext]_scheduleVars => LimitInv'
<1> SUFFICES ASSUME ScheduleInv, LimitInv, [ScheduleNext]_scheduleVars PROVE LimitInv'
    OBVIOUS
<1>0. /\ stored \in Seq(PostRows) /\ Len(stored) \in Nat /\ TurnTypes(ids) /\ ScheduleTypeOK
      /\ MaxPosts \in Nat /\ ids \in Nat
    BY TypesOfTurns, LenProperties, ScheduleBounds DEF ScheduleInv, TableOK
<1>1. /\ IsFiniteSet(Agents) /\ Cardinality(Agents) \in Nat
      /\ IsFiniteSet(Adders) /\ Cardinality(Adders) \in Nat
      /\ Cardinality(Adders) <= Cardinality(Agents)
    <2>1. IsFiniteSet(Agents) /\ Adders \in SUBSET Agents
        BY ScheduleAssumption DEF ScheduleAssumption, Adders
    <2>2. QED
        BY <2>1, FS_Subset, FS_CardinalityType
\* A step after which no more agents add, and no more rows are there.
<1>2. ASSUME Adders' \subseteq Adders, Len(stored') \in Nat, Len(stored') <= Len(stored)
      PROVE  LimitInv'
    BY <1>0, <1>1, <1>2, FewerAdders DEF LimitInv
<1>3. CASE UNCHANGED scheduleVars
    BY <1>0, <1>2, <1>3 DEF scheduleVars, Adders
<1>4. ASSUME NEW a \in Agents, ReadToAdd(a) PROVE LimitInv'
    <2>1. UNCHANGED stored /\ Len(stored) < MaxPosts
        BY <1>4 DEF ReadToAdd
    <2>2. Adders' \in SUBSET Agents
        BY DEF Adders
    <2>3. Cardinality(Adders') \in Nat /\ Cardinality(Adders') <= Cardinality(Agents)
        BY <1>1, <2>2, FS_Subset, FS_CardinalityType
    <2>4. QED
        BY <1>0, <1>1, <2>1, <2>3 DEF LimitInv
<1>5. ASSUME NEW a \in Agents, ReadToCancel(a) \/ TurnDies(a) PROVE LimitInv'
    <2>1. UNCHANGED stored
        BY <1>5 DEF ReadToCancel, TurnDies
    <2>2. PICK to, r, picked, last : to # "adds" /\ TurnGoes(a, to, r, Never, picked, last)
        BY <1>5 DEF ReadToCancel, TurnDies, TurnEnds
    <2>3. Adders' \subseteq Adders
        BY <1>0, <2>2 DEF TurnGoes, TurnTypes, Adders
    <2>4. QED
        BY <1>0, <1>2, <2>1, <2>3
<1>6. ASSUME NEW a \in Agents, Insert(a) PROVE LimitInv'
    <2>1. does[a] = "adds" /\ TurnEnds(a)
          /\ stored' = Append(stored, RowOf(wish[a], ids', due[a], since[a]))
        BY <1>6 DEF Insert
    <2>2. Adders' = Adders \ {a} /\ a \in Adders
        BY <1>0, <2>1 DEF TurnEnds, TurnGoes, TurnTypes, Adders
    <2>3. Cardinality(Adders') = Cardinality(Adders) - 1
        BY <1>1, <2>2, FS_RemoveElement
    <2>4. Len(stored') = Len(stored) + 1
        <3>1. PICK row : row = RowOf(wish[a], ids', due[a], since[a])
            OBVIOUS
        <3>2. stored \in Seq(PostRows \cup {row})
            BY <1>0
        <3>3. QED
            BY <2>1, <3>1, <3>2, AppendProperties
    <2>5. QED
        BY <1>0, <1>1, <2>3, <2>4 DEF LimitInv
<1>7. ASSUME NEW a \in Agents, Delete(a) PROVE LimitInv'
    <2>1. PICK P \in SUBSET DOMAIN stored : stored' = ItemsAt(stored, P)
        BY <1>7 DEF Delete, Select
    <2>2. ItemsAt(stored, P) \in Seq(PostRows) /\ Thins(ItemsAt(stored, P), stored)
        BY <1>0, SelectedThin
    <2>3. Len(stored') \in Nat /\ Len(stored') <= Len(stored)
        BY <2>1, <2>2, LenProperties DEF Thins
    <2>4. Adders' \subseteq Adders
        BY <1>0, <1>7 DEF Delete, TurnEnds, TurnGoes, TurnTypes, Adders
    <2>5. QED
        BY <1>2, <2>3, <2>4
<1>8. CASE PostDue
    <2>1. UNCHANGED does
        BY <1>8 DEF PostDue
    <2>2. PICK i, time :
              /\ i \in DOMAIN stored
              /\ stored' = IF time = Never THEN RemoveAt(stored, i)
                           ELSE [stored EXCEPT ![i].next = time]
        BY <1>8 DEF PostDue
    <2>3. Len(stored') \in Nat /\ Len(stored') <= Len(stored)
        <3>1. CASE time = Never
            <4>1. RemoveAt(stored, i) \in Seq(PostRows) /\ Thins(RemoveAt(stored, i), stored)
                BY <1>0, <2>2, RemovedThin
            <4>2. QED
                BY <2>2, <3>1, <4>1, LenProperties DEF Thins
        <3>2. CASE time # Never
            BY <1>0, <2>2, <3>2
        <3>3. QED
            BY <3>1, <3>2
    <2>4. Adders' \subseteq Adders
        BY <2>1 DEF Adders
    <2>5. QED
        BY <1>2, <2>3, <2>4
<1>9. CASE Later
    BY <1>0, <1>2, <1>9 DEF Later, Adders
<1>10. QED
    BY <1>3, <1>4, <1>5, <1>6, <1>7, <1>8, <1>9 DEF ScheduleNext

LEMMA InitLimit == ScheduleInit => LimitInv
<1> SUFFICES ASSUME ScheduleInit PROVE LimitInv
    OBVIOUS
<1>1. Len(stored) = 0 /\ Adders = {}
    BY DEF ScheduleInit, Adders
<1>2. PICK a : a \in Agents
    BY ScheduleAssumption DEF ScheduleAssumption
<1>3. IsFiniteSet(Agents)
    BY ScheduleAssumption DEF ScheduleAssumption
<1>4. Cardinality(Agents) \in Nat /\ Cardinality(Agents) # 0
    BY <1>2, <1>3, FS_CardinalityType, FS_EmptySet
<1>5. QED
    BY <1>1, <1>4, FS_EmptySet, ScheduleBounds DEF LimitInv

\* What the run checks, from the table and from what the turns had read.
LEMMA TableHolds ==
    ASSUME ScheduleInv
    PROVE  NextIsNext /\ LinksAreKept
<1>1. PICK n \in Nat : n = Len(stored) /\ DOMAIN stored = 1..n
    BY LenProperties DEF ScheduleInv, TableOK
<1>2. \A i \in 1..n : stored[i] \in PostRows
    BY <1>1, ElementOfSeq DEF ScheduleInv, TableOK
<1>3. NextIsNext
    BY DEF NextIsNext, ScheduleInv, TableOK, FirstAfter
<1>4. LinksAreKept
    BY <1>1, <1>2, PostRowIs DEF LinksAreKept
<1>5. QED
    BY <1>3, <1>4

LEMMA LimitHolds == ScheduleInv /\ LimitInv => LimitIsKept
<1> SUFFICES ASSUME ScheduleInv, LimitInv PROVE LimitIsKept
    OBVIOUS
<1>1. Len(stored) \in Nat /\ MaxPosts \in Nat
    BY LenProperties, ScheduleBounds DEF ScheduleInv, TableOK
<1>2. IsFiniteSet(Agents) /\ Adders \in SUBSET Agents
    BY ScheduleAssumption DEF ScheduleAssumption, Adders
<1>3. Cardinality(Adders) \in Nat /\ Cardinality(Agents) \in Nat
    BY <1>2, FS_Subset, FS_CardinalityType
<1>4. QED
    BY <1>1, <1>3 DEF LimitInv, LimitIsKept

\* Rows, readings and requests hold what they are declared to.
THEOREM PostsStayTyped == ScheduleSpec => []ScheduleTypeOK
BY ScheduleInvariant, PTL DEF ScheduleInv

\* compute_next gives the first match after the time it is asked from, for any
\* expression: a row is due when its schedule says. Every link of the message is in
\* the post, whatever the planner made of it.
THEOREM RunsAreTheNext == ScheduleSpec => [](NextIsNext /\ LinksAreKept)
BY ScheduleInvariant, TableHolds, PTL

\* With any number of agents, however often a request is delivered and in whatever
\* words: two posts with the same links on one schedule are there only when the turn
\* of the later one had read the list before the earlier one was added, and a chat
\* passes its limit by one post for each agent but one at most.
THEOREM ScheduleIsKept == ScheduleSpec => []ScheduleHolds
<1>1. ScheduleInit => OnceInv /\ LimitInv
    BY InitOnce, InitLimit
<1>2. ScheduleInv /\ OnceInv /\ LimitInv /\ [ScheduleNext]_scheduleVars => OnceInv' /\ LimitInv'
    BY NextOnce, NextLimit
<1>3. ScheduleInv /\ OnceInv /\ LimitInv => ScheduleHolds
    BY TableHolds, LimitHolds DEF OnceInv, OnceTable, SamePlan, ScheduleHolds, LinksPostedOnce
<1>4. QED
    BY <1>1, <1>2, <1>3, ScheduleInvariant, PTL DEF ScheduleSpec


LEMMA ListIsSeq ==
    ASSUME NEW T, NEW n \in Nat, NEW t \in [1..n -> T]
    PROVE  t \in Seq(T) /\ Len(t) = n
OBVIOUS

LEMMA LayoutIs ==
    /\ Layout \in Seq(Keys) /\ Len(Layout) = 33 /\ DOMAIN Layout = 1..33
    /\ \A k \in Keys : \E i \in 1..33 : Layout[i] = k
<1>1. Len(Layout) = 33 /\ DOMAIN Layout = 1..33
    BY DEF Layout
<1>2. Layout \in [1..33 -> Keys]
    BY <1>1 DEF Keys, ToSet, Layout
<1>3. Layout \in Seq(Keys)
    BY <1>2, ListIsSeq
<1>4. \A k \in Keys : \E i \in 1..33 : Layout[i] = k
    BY <1>1 DEF Keys, ToSet
<1>5. QED
    BY <1>1, <1>3, <1>4

LEMMA LayoutApart == \A i, j \in 1..33 : Layout[i] = Layout[j] => i = j
BY SMTT(60) DEF Layout
-----------------------------------------------------------------------------
(* Characters                                                              *)

LEMMA PromptBounds ==
    /\ MaxChars \in Nat /\ Long \in Nat /\ Long > 0
    /\ Rank \in [Keys -> Nat] /\ Cap \in [Keys -> Nat]
BY PromptAssumption DEF PromptAssumption

\* The characters themselves, each told by its part and its place in it.
CharsOf(list, P) == UNION {{i} \X (1 .. list[i].size) : i \in P}

LEMMA PlacesAre ==
    ASSUME NEW list \in PartSeqs
    PROVE  /\ Len(list) \in Nat /\ DOMAIN list = 1..Len(list)
           /\ \A i \in DOMAIN list : list[i].size \in Nat /\ list[i].key \in Keys
<1>1. Len(list) \in Nat /\ DOMAIN list = 1..Len(list)
    BY LenProperties DEF PartSeqs
<1>2. \A i \in DOMAIN list : list[i] \in [key : Keys, size : Nat]
    BY <1>1, ElementOfSeq DEF PartSeqs
<1>3. QED
    BY <1>1, <1>2

LEMMA CharsAre ==
    ASSUME NEW list \in PartSeqs, NEW P \in SUBSET DOMAIN list
    PROVE  /\ IsFiniteSet(CharsOf(list, P))
           /\ Chars(list, P) = Cardinality(CharsOf(list, P)) /\ Chars(list, P) \in Nat
           /\ \A c : c \in CharsOf(list, P) <=> (\E i \in P : \E n \in 1..list[i].size : c = <<i, n>>)
<1>1. \A i \in P : list[i].size \in Nat
    BY PlacesAre
<1>2. IsFiniteSet(P)
    <2>1. PICK m \in Nat : P \in SUBSET (1..m)
        BY PlacesAre
    <2>2. IsFiniteSet(1..m)
        BY FS_Interval
    <2>3. QED
        BY <2>1, <2>2, FS_Subset
<1>3. IsFiniteSet({{i} \X (1 .. list[i].size) : i \in P})
    <2>1. PICK f : f = [i \in P |-> {i} \X (1 .. list[i].size)]
        OBVIOUS
    <2>2. f \in Surjection(P, {f[i] : i \in P})
        BY <2>1 DEF Surjection
    <2>3. IsFiniteSet({f[i] : i \in P})
        BY <1>2, <2>2, FS_Surjection
    <2>4. {f[i] : i \in P} = {{i} \X (1 .. list[i].size) : i \in P}
        BY <2>1
    <2>5. QED
        BY <2>3, <2>4
<1>4. ASSUME NEW i \in P PROVE IsFiniteSet({i} \X (1 .. list[i].size))
    <2>1. PICK s \in Nat : s = list[i].size
        BY <1>1
    <2>2. IsFiniteSet({i})
        BY FS_Singleton
    <2>3. IsFiniteSet(1..s)
        BY FS_Interval
    <2>4. QED
        BY <2>1, <2>2, <2>3, FS_Product
<1>5. \A T \in {{i} \X (1 .. list[i].size) : i \in P} : IsFiniteSet(T)
    BY <1>4
<1>6. IsFiniteSet(CharsOf(list, P))
    BY <1>3, <1>5, FS_UNION DEF CharsOf
<1>7. Chars(list, P) = Cardinality(CharsOf(list, P))
    BY DEF Chars, CharsOf
<1>8. Chars(list, P) \in Nat
    BY <1>6, <1>7, FS_CardinalityType
<1>9. \A c : c \in CharsOf(list, P) <=> (\E i \in P : \E n \in 1..list[i].size : c = <<i, n>>)
    BY DEF CharsOf
<1>10. QED
    BY <1>6, <1>7, <1>8, <1>9

LEMMA FewerChars ==
    ASSUME NEW list \in PartSeqs, NEW Q \in SUBSET DOMAIN list, NEW P \in SUBSET Q
    PROVE  Chars(list, P) <= Chars(list, Q)
<1>1. CharsOf(list, P) \in SUBSET CharsOf(list, Q)
    BY DEF CharsOf
<1>2. P \in SUBSET DOMAIN list
    OBVIOUS
<1>3. IsFiniteSet(CharsOf(list, Q))
    BY CharsAre
<1>4. Cardinality(CharsOf(list, P)) <= Cardinality(CharsOf(list, Q))
    BY <1>1, <1>3, FS_Subset
<1>5. QED
    BY <1>2, <1>4, CharsAre

LEMMA OneMorePlace ==
    ASSUME NEW list \in PartSeqs, NEW P \in SUBSET DOMAIN list, NEW i \in DOMAIN list, i \notin P
    PROVE  Chars(list, P \cup {i}) = Chars(list, P) + list[i].size
<1>1. PICK s \in Nat : s = list[i].size
    BY PlacesAre
<1>2. PICK mine : mine = {i} \X (1..s)
    OBVIOUS
<1>3. IsFiniteSet(mine) /\ Cardinality(mine) = s
    <2>1. IsFiniteSet({i}) /\ Cardinality({i}) = 1
        BY FS_Singleton
    <2>2. IsFiniteSet(1..s) /\ Cardinality(1..s) = s
        BY FS_Interval
    <2>3. IsFiniteSet(mine) /\ Cardinality(mine) = Cardinality({i}) * Cardinality(1..s)
        BY <1>2, <2>1, <2>2, FS_Product
    <2>4. QED
        BY <2>1, <2>2, <2>3
<1>4. P \cup {i} \in SUBSET DOMAIN list
    OBVIOUS
<1>5. CharsOf(list, P \cup {i}) = CharsOf(list, P) \cup mine
    BY <1>1, <1>2 DEF CharsOf
<1>6. CharsOf(list, P) \cap mine = {}
    BY <1>2, CharsAre
<1>7. IsFiniteSet(CharsOf(list, P)) /\ Chars(list, P) = Cardinality(CharsOf(list, P))
      /\ Chars(list, P) \in Nat
    BY CharsAre
<1>8. Cardinality(CharsOf(list, P) \cup mine) = Cardinality(CharsOf(list, P)) + s
    <2>1. Cardinality(CharsOf(list, P) \cup mine)
              = Cardinality(CharsOf(list, P)) + Cardinality(mine)
                    - Cardinality(CharsOf(list, P) \cap mine)
        BY <1>3, <1>7, FS_Union
    <2>2. Cardinality(CharsOf(list, P) \cap mine) = 0
        BY <1>6, FS_EmptySet
    <2>3. QED
        BY <1>3, <1>7, <2>1, <2>2
<1>9. Chars(list, P \cup {i}) = Cardinality(CharsOf(list, P \cup {i}))
    BY <1>4, CharsAre
<1>10. QED
    BY <1>1, <1>5, <1>7, <1>8, <1>9

LEMMA NoChars == ASSUME NEW list \in PartSeqs PROVE Chars(list, {}) = 0
<1>1. CharsOf(list, {}) = {}
    BY DEF CharsOf
<1>2. QED
    BY <1>1, CharsAre, FS_EmptySet

LEMMA CharsOfOne ==
    ASSUME NEW list \in PartSeqs, NEW i \in DOMAIN list
    PROVE  Chars(list, {i}) = list[i].size
<1>1. Chars(list, {} \cup {i}) = Chars(list, {}) + list[i].size
    BY OneMorePlace
<1>2. QED
    BY <1>1, NoChars, PlacesAre

\* Parts that come from parts at least as long, each from another.
LEMMA CharsFollow ==
    ASSUME NEW list \in PartSeqs, NEW text \in PartSeqs, NEW P \in SUBSET DOMAIN list,
           NEW Q \in SUBSET DOMAIN text, NEW f \in [Q -> P],
           \A i, j \in Q : i # j => f[i] # f[j],
           \A i \in Q : text[i].size <= list[f[i]].size
    PROVE  Chars(text, Q) <= Chars(list, P)
<1>1. PICK from, into : from = CharsOf(text, Q) /\ into = CharsOf(list, P)
    OBVIOUS
<1>2. /\ \A c : c \in from <=> (\E i \in Q : \E n \in 1..text[i].size : c = <<i, n>>)
      /\ \A c : c \in into <=> (\E i \in P : \E n \in 1..list[i].size : c = <<i, n>>)
      /\ IsFiniteSet(into)
    BY <1>1, CharsAre
<1>3. /\ \A i \in Q : text[i].size \in Nat
      /\ \A i \in P : list[i].size \in Nat
    BY PlacesAre
<1>4. PICK g : g = [c \in from |-> <<f[c[1]], c[2]>>]
    OBVIOUS
<1>5. ASSUME NEW c \in from PROVE g[c] \in into
    <2>1. PICK i \in Q : \E n \in 1..text[i].size : c = <<i, n>>
        BY <1>2, <1>5
    <2>2. PICK n \in 1..text[i].size : c = <<i, n>>
        BY <2>1
    <2>3. g[c] = <<f[i], n>> /\ f[i] \in P
        BY <1>4, <1>5, <2>2
    <2>4. n \in 1..list[f[i]].size
        BY <1>3, <2>2, <2>3
    <2>5. QED
        BY <1>2, <2>3, <2>4
<1>6. ASSUME NEW c \in from, NEW d \in from, g[c] = g[d] PROVE c = d
    <2>1. PICK i \in Q, n \in Nat : c = <<i, n>>
        BY <1>2, <1>3, <1>6
    <2>2. PICK j \in Q, m \in Nat : d = <<j, m>>
        BY <1>2, <1>3, <1>6
    <2>3. g[c] = <<f[i], n>> /\ g[d] = <<f[j], m>>
        BY <1>4, <1>6, <2>1, <2>2
    <2>4. <<f[i], n>> = <<f[j], m>>
        BY <1>6, <2>3
    <2>5. f[i] = f[j] /\ n = m
        BY <2>4
    <2>6. i = j
        BY <2>5
    <2>7. QED
        BY <2>1, <2>2, <2>5, <2>6
<1>7. g \in Injection(from, into)
    <2>1. g \in [from -> into]
        BY <1>4, <1>5
    <2>2. QED
        BY <2>1, <1>6 DEF Injection, IsInjective
<1>8. Cardinality(from) <= Cardinality(into)
    BY <1>2, <1>7, FS_Injection
<1>9. Chars(text, Q) = Cardinality(from) /\ Chars(list, P) = Cardinality(into)
    BY <1>1, CharsAre
<1>10. QED
    BY <1>8, <1>9
-----------------------------------------------------------------------------
(* The cap                                                                 *)

\* Outranks, for a given list of parts.
Ahead(list, i, j) ==
    \/ Rank[list[i].key] > Rank[list[j].key]
    \/ Rank[list[i].key] = Rank[list[j].key] /\ i < j

Above(list, i) == {j \in DOMAIN list : Ahead(list, j, i)}
Room(list, i) == MaxChars - Chars(list, Above(list, i))
Keep(list, i) == IF Room(list, i) <= 0 THEN 0 ELSE Min({Room(list, i), list[i].size})

LEMMA AheadIs ==
    ASSUME NEW list \in PartSeqs
    PROVE  /\ \A i \in DOMAIN list : ~Ahead(list, i, i)
           /\ \A i, j \in DOMAIN list : i # j => Ahead(list, i, j) \/ Ahead(list, j, i)
           /\ \A i, j, k \in DOMAIN list :
                  Ahead(list, i, j) /\ Ahead(list, j, k) => Ahead(list, i, k)
<1>0. PICK n \in Nat : DOMAIN list = 1..n
    BY PlacesAre
<1>1. PICK rank \in [1..n -> Nat] : \A i \in 1..n : rank[i] = Rank[list[i].key]
    <2>1. [i \in 1..n |-> Rank[list[i].key]] \in [1..n -> Nat]
        BY <1>0, PlacesAre, PromptBounds
    <2>2. QED
        BY <2>1
<1>2. \A i, j \in 1..n : Ahead(list, i, j) <=> rank[i] > rank[j] \/ (rank[i] = rank[j] /\ i < j)
    BY <1>1 DEF Ahead
<1>3. QED
    BY <1>0, <1>2

LEMMA LesserIs ==
    ASSUME NEW a \in Int, NEW b \in Int
    PROVE  Min({a, b}) = IF a <= b THEN a ELSE b
<1>1. \A x : (x \in {a, b} /\ \A y \in {a, b} : x <= y) => x = IF a <= b THEN a ELSE b
    OBVIOUS
<1>2. \E x \in {a, b} : \A y \in {a, b} : x <= y
    OBVIOUS
<1>3. QED
    BY <1>1, <1>2 DEF Min

LEMMA KeepIs ==
    ASSUME NEW list \in PartSeqs, NEW i \in DOMAIN list
    PROVE  /\ Room(list, i) \in Int /\ Keep(list, i) \in Nat
           /\ Keep(list, i) <= list[i].size
           /\ Keep(list, i) = list[i].size \/ Keep(list, i) = 0 \/ Keep(list, i) = Room(list, i)
           /\ Room(list, i) <= 0 => Keep(list, i) = 0
           /\ Keep(list, i) < list[i].size => Room(list, i) < list[i].size
           /\ Room(list, i) > 0 /\ list[i].size <= Room(list, i) => Keep(list, i) = list[i].size
           /\ Room(list, i) > 0 /\ list[i].size > 0 => Keep(list, i) > 0
<1>1. Above(list, i) \in SUBSET DOMAIN list
    BY DEF Above
<1>2. PICK left \in Int : left = Room(list, i)
    BY <1>1, CharsAre, PromptBounds DEF Room
<1>3. PICK size \in Nat : size = list[i].size
    BY PlacesAre
<1>4. Keep(list, i) = IF left <= 0 THEN 0 ELSE IF left <= size THEN left ELSE size
    BY <1>2, <1>3, LesserIs DEF Keep
<1>5. QED
    BY <1>2, <1>3, <1>4

\* A part that does not get all of itself leaves nothing to those below.
LEMMA BelowIsEmpty ==
    ASSUME NEW list \in PartSeqs, NEW i \in DOMAIN list, NEW j \in DOMAIN list,
           Ahead(list, i, j), Room(list, i) < list[i].size
    PROVE  Room(list, j) < 0
<1>1. PICK P : P = Above(list, i)
    OBVIOUS
<1>2. P \in SUBSET DOMAIN list /\ i \notin P
    BY <1>1, AheadIs DEF Above
<1>3. P \cup {i} \in SUBSET Above(list, j)
    BY <1>1, AheadIs DEF Above
<1>4. Above(list, j) \in SUBSET DOMAIN list
    BY DEF Above
<1>5. Chars(list, P \cup {i}) <= Chars(list, Above(list, j))
    BY <1>3, <1>4, FewerChars
<1>6. Chars(list, P \cup {i}) = Chars(list, P) + list[i].size
    BY <1>2, OneMorePlace
<1>7. PICK a \in Nat, b \in Nat, s \in Nat :
          a = Chars(list, P) /\ b = Chars(list, Above(list, j)) /\ s = list[i].size
    BY <1>2, <1>4, CharsAre, PlacesAre
<1>8. MaxChars - a < s /\ a + s <= b
    BY <1>1, <1>5, <1>6, <1>7 DEF Room
<1>9. QED
    BY <1>7, <1>8, PromptBounds DEF Room

\* Parts of no length count for nothing.
LEMMA EmptyAside ==
    ASSUME NEW list \in PartSeqs, NEW P \in SUBSET DOMAIN list, NEW Q \in SUBSET P,
           \A i \in P : i \notin Q => list[i].size = 0
    PROVE  Chars(list, P) = Chars(list, Q)
<1>1. Q \in SUBSET DOMAIN list
    OBVIOUS
<1>2. ASSUME NEW c, c \in CharsOf(list, P) PROVE c \in CharsOf(list, Q)
    <2>1. PICK i \in P : \E n \in 1..list[i].size : c = <<i, n>>
        BY <1>2, CharsAre
    <2>2. i \in Q
        BY <2>1
    <2>3. QED
        BY <1>1, <2>1, <2>2, CharsAre
<1>3. CharsOf(list, Q) \subseteq CharsOf(list, P)
    BY DEF CharsOf
<1>4. CharsOf(list, P) = CharsOf(list, Q)
    BY <1>2, <1>3
<1>5. QED
    BY <1>1, <1>4, CharsAre

\* Of some parts one is the last in rank.
LEMMA LowestIs ==
    ASSUME NEW list \in PartSeqs, NEW W \in SUBSET DOMAIN list, W # {}
    PROVE  \E w \in W : W \subseteq Above(list, w) \cup {w}
<1> DEFINE order == {p \in W \X W : Ahead(list, p[1], p[2])}
<1>1. IsFiniteSet(W)
    <2>1. PICK m \in Nat : W \in SUBSET (1..m)
        BY PlacesAre
    <2>2. IsFiniteSet(1..m)
        BY FS_Interval
    <2>3. QED
        BY <2>1, <2>2, FS_Subset
<1>2. \A x, y \in W : <<x, y>> \in order <=> Ahead(list, x, y)
    OBVIOUS
<1>3. Orders(order, W)
    <2> HIDE DEF order
    <2> QED
        BY <1>2, AheadIs DEF Orders
<1>4. PICK o, n : o = InOrder(W, order) /\ n = Cardinality(W)
    OBVIOUS
<1>5. /\ n \in Nat /\ o \in [1..n -> W]
      /\ \A x \in W : \E k \in 1..n : o[k] = x
      /\ \A i, j \in 1..n : <<o[i], o[j]>> \in order <=> i < j
    <2> HIDE DEF order
    <2> QED
        BY <1>1, <1>3, <1>4, InOrderIs
<1>6. n \in 1..n
    <2>1. PICK k \in 1..n : TRUE
        BY <1>5
    <2>2. QED
        BY <1>5
<1>7. PICK w \in W : w = o[n]
    BY <1>5, <1>6
<1>8. ASSUME NEW x \in W, x # w PROVE x \in Above(list, w)
    <2>1. PICK k \in 1..n : o[k] = x
        BY <1>5
    <2>2. k < n
        BY <1>5, <1>7, <1>8, <2>1
    <2>3. <<x, w>> \in order
        BY <1>5, <1>6, <1>7, <2>1, <2>2
    <2>4. QED
        BY <1>2, <2>3 DEF Above
<1>9. QED
    BY <1>8

\* What is kept of all parts is within the cap.
LEMMA KeptFits ==
    ASSUME NEW list \in PartSeqs, NEW kept \in PartSeqs, DOMAIN kept = DOMAIN list,
           \A i \in DOMAIN list : kept[i].size <= Keep(list, i)
    PROVE  Chars(kept, DOMAIN kept) <= MaxChars
<1>1. \A i \in DOMAIN list : /\ kept[i].size \in Nat /\ list[i].size \in Nat
                             /\ Keep(list, i) \in Nat /\ Keep(list, i) <= list[i].size
                             /\ kept[i].size <= list[i].size
    <2> SUFFICES ASSUME NEW i \in DOMAIN list
                 PROVE  /\ kept[i].size \in Nat /\ list[i].size \in Nat
                        /\ Keep(list, i) \in Nat /\ Keep(list, i) <= list[i].size
                        /\ kept[i].size <= list[i].size
        OBVIOUS
    <2>1. kept[i].size \in Nat /\ list[i].size \in Nat
        BY PlacesAre
    <2>2. Keep(list, i) \in Nat /\ Keep(list, i) <= list[i].size
        BY KeepIs
    <2>3. QED
        BY <2>1, <2>2
<1>2. ASSUME NEW P \in SUBSET DOMAIN list PROVE Chars(kept, P) <= Chars(list, P)
    <2>1. PICK f : f = [i \in P |-> i]
        OBVIOUS
    <2>2. /\ f \in [P -> P] /\ P \in SUBSET DOMAIN kept
          /\ \A i, j \in P : i # j => f[i] # f[j]
          /\ \A i \in P : kept[i].size <= list[f[i]].size
        BY <1>1, <2>1
    <2>3. QED
        BY <2>2, CharsFollow
<1>3. ASSUME NEW w \in DOMAIN list, NEW share \in Nat, kept[w].size <= share, share <= Room(list, w),
             \A i \in DOMAIN list : i \notin Above(list, w) \cup {w} => kept[i].size = 0
      PROVE  Chars(kept, DOMAIN kept) <= MaxChars
    <2>1. PICK P : P = Above(list, w)
        OBVIOUS
    <2>2. P \in SUBSET DOMAIN list /\ w \notin P
        BY <2>1, AheadIs DEF Above
    <2>3. Chars(kept, DOMAIN kept) = Chars(kept, P \cup {w})
        <3>1. P \cup {w} \in SUBSET DOMAIN kept
            BY <2>2
        <3>2. \A i \in DOMAIN kept : i \notin P \cup {w} => kept[i].size = 0
            BY <1>3, <2>1
        <3>3. QED
            BY <3>1, <3>2, EmptyAside
    <2>4. Chars(kept, P \cup {w}) = Chars(kept, P) + kept[w].size
        BY <2>2, OneMorePlace
    <2>5. PICK a \in Nat, b \in Nat : a = Chars(kept, P) /\ b = Chars(list, P) /\ a <= b
        BY <1>2, <2>2, CharsAre
    <2>6. share <= MaxChars - b
        BY <1>3, <2>1, <2>5 DEF Room
    <2>7. QED
        BY <1>1, <1>3, <2>3, <2>4, <2>5, <2>6, PromptBounds
<1>4. CASE \E c \in DOMAIN list : 0 < Keep(list, c) /\ Keep(list, c) < list[c].size
    <2>1. PICK c \in DOMAIN list : 0 < Keep(list, c) /\ Keep(list, c) < list[c].size
        BY <1>4
    <2>2. Keep(list, c) = Room(list, c) /\ Room(list, c) < list[c].size
        BY <1>1, <2>1, KeepIs
    <2>3. ASSUME NEW i \in DOMAIN list, i \notin Above(list, c) \cup {c} PROVE kept[i].size = 0
        <3>1. Ahead(list, c, i)
            BY <2>3, AheadIs DEF Above
        <3>2. Room(list, i) < 0 /\ Room(list, i) \in Int
            BY <2>2, <3>1, BelowIsEmpty, KeepIs
        <3>3. Keep(list, i) = 0
            BY <3>2, KeepIs
        <3>4. QED
            BY <1>1, <3>3
    <2>4. PICK share \in Nat : share = Keep(list, c)
        BY <1>1
    <2>5. kept[c].size <= share /\ share <= Room(list, c)
        BY <2>2, <2>4
    <2>6. QED
        BY <1>3, <2>3, <2>5
<1>5. CASE ~\E c \in DOMAIN list : 0 < Keep(list, c) /\ Keep(list, c) < list[c].size
    <2>1. PICK W : W = {i \in DOMAIN list : Keep(list, i) # 0}
        OBVIOUS
    <2>2. W \in SUBSET DOMAIN list /\ \A i \in DOMAIN list : i \notin W => kept[i].size = 0
        BY <1>1, <2>1
    <2>3. CASE W = {}
        <3>1. Chars(kept, DOMAIN kept) = Chars(kept, {})
            BY <2>2, <2>3, EmptyAside
        <3>2. QED
            BY <3>1, NoChars, PromptBounds
    <2>4. CASE W # {}
        <3>1. PICK w \in W : W \subseteq Above(list, w) \cup {w}
            BY <2>2, <2>4, LowestIs
        <3>2. PICK share \in Nat : share = Keep(list, w) /\ share = list[w].size
            BY <1>1, <1>5, <2>1, <2>2, <3>1
        <3>3. share <= Room(list, w)
            <4>1. PICK left \in Int : left = Room(list, w)
                BY <2>2, KeepIs
            <4>2. share # 0
                BY <2>1, <3>2
            <4>3. ~(left <= 0)
                BY <2>2, <3>2, <4>1, <4>2, KeepIs
            <4>4. share = Min({left, share})
                BY <3>2, <4>1, <4>3 DEF Keep
            <4>5. Min({left, share}) = IF left <= share THEN left ELSE share
                BY LesserIs
            <4>6. share <= left
                BY <4>4, <4>5
            <4>7. QED
                BY <4>1, <4>6
        <3>4. kept[w].size <= share
            BY <2>2, <3>2
        <3>5. \A i \in DOMAIN list : i \notin Above(list, w) \cup {w} => kept[i].size = 0
            BY <2>2, <3>1
        <3>6. QED
            BY <1>3, <2>2, <3>3, <3>4, <3>5
    <2>5. QED
        BY <2>3, <2>4
<1>6. QED
    BY <1>4, <1>5
-----------------------------------------------------------------------------
(* The order of the parts                                                  *)

\* The parts are those of some places of the layout, in its order.
PartsFrom(list, P) ==
    /\ list \in PartSeqs /\ P \in SUBSET (1..33)
    /\ DOMAIN list = 1..Cardinality(P)
    /\ \A k \in DOMAIN list : list[k].key = Layout[Ascending(P)[k]]

LEMMA PartsAre ==
    ASSUME NEW list, NEW P, PartsFrom(list, P)
    PROVE  /\ \A i, j \in DOMAIN list : list[i].key = list[j].key => i = j
           /\ \A i \in 1..33 : Layout[i] \in Shown(list) <=> i \in P
           /\ [i \in DOMAIN list |-> list[i].key]
                  = ItemsAt(Layout, {i \in DOMAIN Layout : Layout[i] \in Shown(list)})
<1>1. PICK o, n : o = Ascending(P) /\ n = Cardinality(P)
    OBVIOUS
<1>2. /\ n \in Nat /\ o \in [1..n -> P] /\ Increases(o, n)
      /\ \A x \in P : \E k \in 1..n : o[k] = x
    <2>1. P \in SUBSET DOMAIN Layout /\ Layout \in Seq(Keys)
        BY LayoutIs DEF PartsFrom
    <2>2. QED
        BY <1>1, <2>1, ItemsAre
<1>3. P \in SUBSET (1..33) /\ DOMAIN list = 1..n /\ \A k \in 1..n : list[k].key = Layout[o[k]]
    BY <1>1 DEF PartsFrom
<1>4. ASSUME NEW i \in DOMAIN list, NEW j \in DOMAIN list, list[i].key = list[j].key PROVE i = j
    <2>1. o[i] \in 1..33 /\ o[j] \in 1..33 /\ Layout[o[i]] = Layout[o[j]]
        BY <1>2, <1>3, <1>4
    <2>2. o[i] = o[j]
        BY <2>1, LayoutApart
    <2>3. (\A k \in 1..n : o[k] \in Int) /\ i \in 1..n /\ j \in 1..n
        <3>1. P \in SUBSET Int
            <4>1. P \in SUBSET (1..33)
                BY <1>3
            <4>2. QED
                BY <4>1
        <3>2. \A k \in 1..n : o[k] \in Int
            BY <1>2, <3>1
        <3>3. QED
            BY <1>3, <3>2
    <2>4. ~(i < j) /\ ~(j < i)
        BY <1>2, <2>2, <2>3, IncreasesStrictly
    <2>5. QED
        BY <1>2, <2>3, <2>4
<1>5. ASSUME NEW i \in 1..33 PROVE Layout[i] \in Shown(list) <=> i \in P
    <2>1. ASSUME i \in P PROVE Layout[i] \in Shown(list)
        <3>1. PICK k \in 1..n : o[k] = i
            BY <1>2, <2>1
        <3>2. list[k].key = Layout[i] /\ k \in DOMAIN list
            BY <1>3, <3>1
        <3>3. QED
            BY <3>2 DEF Shown
    <2>2. ASSUME Layout[i] \in Shown(list) PROVE i \in P
        <3>1. PICK k \in 1..n : list[k].key = Layout[i]
            BY <1>3, <2>2 DEF Shown
        <3>2. o[k] \in P /\ o[k] \in 1..33 /\ Layout[o[k]] = Layout[i]
            BY <1>2, <1>3, <3>1
        <3>3. o[k] = i
            BY <3>2, LayoutApart
        <3>4. QED
            BY <3>2, <3>3
    <2>3. QED
        BY <2>1, <2>2
<1>6. {i \in DOMAIN Layout : Layout[i] \in Shown(list)} = P
    BY <1>3, <1>5, LayoutIs
<1>7. ItemsAt(Layout, P) = [k \in 1..n |-> Layout[o[k]]]
    BY <1>1 DEF ItemsAt
<1>8. [i \in DOMAIN list |-> list[i].key] = [k \in 1..n |-> Layout[o[k]]]
    BY <1>3
<1>9. [i \in DOMAIN list |-> list[i].key]
          = ItemsAt(Layout, {i \in DOMAIN Layout : Layout[i] \in Shown(list)})
    BY <1>6, <1>7, <1>8
<1>10. QED
    BY <1>4, <1>5, <1>9

\* Some of the parts are cut, and those of which nothing is left are dropped.
Cuts(list, P, cut, text) ==
    /\ PartsFrom(list, P) /\ cut \in PartSeqs /\ DOMAIN cut = DOMAIN list
    /\ \A i \in DOMAIN list : cut[i].key = list[i].key
    /\ text = ItemsAt(cut, {i \in DOMAIN cut : cut[i].size > 0})

Stays(list, cut, text) ==
    /\ \E Q : PartsFrom(text, Q)
    /\ \A i \in DOMAIN list : SizeIn(text, list[i].key) = cut[i].size
    /\ \A i \in DOMAIN list : list[i].key \in Shown(text) <=> cut[i].size > 0
    /\ Total(text) <= Total(cut)
    /\ Shown(text) \subseteq Shown(list)

\* What stays of the parts, in order.
LEMMA StayIs ==
    ASSUME NEW list, NEW P, NEW cut, NEW text, Cuts(list, P, cut, text)
    PROVE  Stays(list, cut, text)
<1>0. /\ PartsFrom(list, P) /\ cut \in PartSeqs /\ DOMAIN cut = DOMAIN list
      /\ \A i \in DOMAIN list : cut[i].key = list[i].key
      /\ text = ItemsAt(cut, {i \in DOMAIN cut : cut[i].size > 0})
    BY DEF Cuts
<1> USE <1>0
<1>1. PICK o, n, all : o = Ascending(P) /\ n = Cardinality(P) /\ all = 1..n
    OBVIOUS
<1>2. /\ n \in Nat /\ o \in [all -> P] /\ Increases(o, n) /\ P \in SUBSET (1..33)
      /\ DOMAIN list = all /\ \A k \in all : list[k].key = Layout[o[k]]
      /\ P \in SUBSET Int
    <2>1. P \in SUBSET (1..33)
        BY DEF PartsFrom
    <2>2. P \in SUBSET DOMAIN Layout /\ Layout \in Seq(Keys) /\ P \in SUBSET Int
        <3>1. P \in SUBSET DOMAIN Layout /\ Layout \in Seq(Keys)
            BY <2>1, LayoutIs
        <3>2. P \in SUBSET Int
            BY <2>1
        <3>3. QED
            BY <3>1, <3>2
    <2>3. n \in Nat /\ o \in [all -> P] /\ Increases(o, n)
        BY <1>1, <2>2, ItemsAre
    <2>4. QED
        BY <1>1, <2>1, <2>2, <2>3 DEF PartsFrom
<1>3. PICK Q : Q = {i \in DOMAIN cut : cut[i].size > 0}
    OBVIOUS
<1>4. PICK h, m : h = Ascending(Q) /\ m = Cardinality(Q)
    OBVIOUS
<1>5. text = ItemsAt(cut, Q)
    BY <1>3
<1>6. /\ m \in Nat /\ h \in [1..m -> Q] /\ Increases(h, m)
      /\ \A x \in Q : \E k \in 1..m : h[k] = x
      /\ text \in PartSeqs /\ DOMAIN text = 1..m /\ \A k \in 1..m : text[k] = cut[h[k]]
      /\ Q \in SUBSET all
    <2>1. Q \in SUBSET DOMAIN cut /\ Q \in SUBSET all
        BY <1>2, <1>3
    <2>2. PICK T : T = [key : Keys, size : Nat]
        OBVIOUS
    <2>3. cut \in Seq(T)
        BY <2>2 DEF PartSeqs
    <2>4. /\ m \in Nat /\ h \in [1..m -> Q]
          /\ \A x \in Q : \E k \in 1..m : h[k] = x
          /\ Increases(h, m)
        BY <1>4, <2>1, <2>3, ItemsAre
    <2>5. /\ text \in Seq(T) /\ DOMAIN text = 1..m
          /\ \A k \in 1..m : text[k] = cut[h[k]]
        <3>1. text \in Seq(T)
            BY <1>5, <2>1, <2>3, ItemsAre
        <3>2. DOMAIN text = 1..m
            BY <1>4, <1>5, <2>1, <2>3, ItemsAre
        <3>3. \A k \in 1..m : text[k] = cut[h[k]]
            BY <1>4, <1>5 DEF ItemsAt
        <3>4. QED
            BY <3>1, <3>2, <3>3
    <2>6. QED
        BY <2>1, <2>2, <2>4, <2>5 DEF PartSeqs
<1>7. \A k \in 1..m : h[k] \in all /\ text[k].key = list[h[k]].key /\ text[k].size = cut[h[k]].size
    BY <1>2, <1>6
<1>8. \A k, l \in 1..m : k # l => h[k] # h[l]
    <2> SUFFICES ASSUME NEW k \in 1..m, NEW l \in 1..m, k # l PROVE h[k] # h[l]
        OBVIOUS
    <2>1. m \in Nat /\ Increases(h, m) /\ \A i \in 1..m : h[i] \in Int
        <3>1. Q \in SUBSET Int
            BY <1>1, <1>6
        <3>2. QED
            BY <1>6, <3>1
    <2>2. CASE k < l
        BY <2>1, <2>2, IncreasesStrictly
    <2>3. CASE l < k
        BY <2>1, <2>3, IncreasesStrictly
    <2>4. QED
        BY <1>6, <2>2, <2>3
<1>9. \A i, j \in all : list[i].key = list[j].key => i = j
    BY <1>2, PartsAre
<1>10. \E R : PartsFrom(text, R)
    <2>1. PICK f : f = [k \in 1..m |-> o[h[k]]]
        OBVIOUS
    <2>2. PICK R : R = {f[k] : k \in 1..m}
        OBVIOUS
    <2>3. \A k \in 1..m : f[k] \in P
        BY <1>2, <1>6, <2>1
    <2>4. R \in SUBSET (1..33) /\ R \in SUBSET Int /\ f \in [1..m -> R] /\ f \in [1..m -> Int]
        BY <1>2, <2>1, <2>2, <2>3
    <2>5. Increases(f, m)
        <3> SUFFICES ASSUME NEW k \in 1..m, NEW l \in 1..m, k < l PROVE f[k] < f[l]
            BY DEF Increases
        <3>1. h[k] < h[l]
            BY <1>6 DEF Increases
        <3>2. h[k] \in 1..n /\ h[l] \in 1..n
            BY <1>1, <1>7
        <3>3. o[h[k]] < o[h[l]]
            BY <1>2, <3>1, <3>2 DEF Increases
        <3>4. QED
            BY <2>1, <3>3
    <2>6. IsFiniteSet(R) /\ \A x \in R : \E k \in 1..m : f[k] = x
        <3>1. R \in SUBSET DOMAIN Layout /\ Layout \in Seq(Keys)
            BY <2>4, LayoutIs
        <3>2. IsFiniteSet(R)
            BY <3>1, ItemsAre
        <3>3. QED
            BY <2>2, <3>2
    <2>7. PICK g : g = Ascending(R)
        OBVIOUS
    <2>8. m = Cardinality(R) /\ f = g
        BY <1>6, <2>4, <2>5, <2>6, <2>7, AscendingIsThe
    <2>9. \A k \in 1..m : text[k].key = Layout[g[k]]
        <3> SUFFICES ASSUME NEW k \in 1..m PROVE text[k].key = Layout[g[k]]
            OBVIOUS
        <3>1. text[k].key = list[h[k]].key /\ h[k] \in all
            BY <1>7
        <3>2. list[h[k]].key = Layout[o[h[k]]]
            BY <1>2, <3>1
        <3>3. o[h[k]] = g[k]
            BY <2>1, <2>8
        <3>4. QED
            BY <3>1, <3>2, <3>3
    <2>10. PartsFrom(text, R)
        BY <1>6, <2>4, <2>7, <2>8, <2>9 DEF PartsFrom
    <2>11. QED
        BY <2>10
<1>11. ASSUME NEW i \in DOMAIN list
       PROVE  /\ SizeIn(text, list[i].key) = cut[i].size
              /\ list[i].key \in Shown(text) <=> cut[i].size > 0
    <2>0. cut[i].size \in Nat /\ i \in all
        BY <1>2, <1>11, PlacesAre
    <2>1. PICK S : S = {k \in DOMAIN text : text[k].key = list[i].key}
        OBVIOUS
    <2>2. \A k \in S : k \in 1..m /\ h[k] = i
        BY <1>6, <1>7, <1>9, <2>0, <2>1
    <2>3. CASE i \in Q
        <3>1. PICK k \in 1..m : h[k] = i
            BY <1>6, <2>3
        <3>2. S = {k}
            <4>1. k \in S
                BY <1>6, <1>7, <2>1, <3>1
            <4>2. \A l \in S : l = k
                BY <1>8, <2>2, <3>1
            <4>3. QED
                BY <4>1, <4>2
        <3>3. Chars(text, {k}) = cut[i].size
            BY <1>6, <1>7, <3>1, CharsOfOne
        <3>4. list[i].key \in Shown(text)
            BY <1>6, <1>7, <3>1 DEF Shown
        <3>5. cut[i].size > 0
            BY <1>3, <2>3
        <3>6. SizeIn(text, list[i].key) = cut[i].size
            BY <2>1, <3>2, <3>3 DEF SizeIn
        <3>7. QED
            BY <3>4, <3>5, <3>6
    <2>4. CASE i \notin Q
        <3>1. S = {}
            BY <1>6, <2>2, <2>4
        <3>2. SizeIn(text, list[i].key) = 0
            BY <1>6, <2>1, <3>1, NoChars DEF SizeIn
        <3>3. cut[i].size = 0
            BY <1>2, <1>3, <1>11, <2>0, <2>4
        <3>4. list[i].key \notin Shown(text)
            BY <2>1, <3>1 DEF Shown
        <3>5. QED
            BY <3>2, <3>3, <3>4
    <2>5. QED
        BY <2>3, <2>4
<1>12. Total(text) <= Total(cut)
    <2>1. h \in [1..m -> DOMAIN cut] /\ DOMAIN text \in SUBSET DOMAIN text
        BY <1>2, <1>6
    <2>2. \A k \in DOMAIN text : text[k].size <= cut[h[k]].size
        BY <1>6, <1>7, <2>1, PlacesAre
    <2>3. Chars(text, DOMAIN text) <= Chars(cut, DOMAIN cut)
        BY <1>6, <1>8, <2>1, <2>2, CharsFollow
    <2>4. QED
        BY <2>3 DEF Total
<1>13. Shown(text) \subseteq Shown(list)
    BY <1>2, <1>6, <1>7 DEF Shown
<1>14. QED
    BY <1>10, <1>11, <1>12, <1>13 DEF Stays

LEMMA TruncatedIs ==
    ASSUME NEW n \in Nat, NEW limit \in Nat, NEW early \in BOOLEAN
    PROVE  /\ Truncated(n, limit, early) \in Nat /\ Truncated(n, limit, early) <= n
           /\ limit > 0 => Truncated(n, limit, early) <= limit
           /\ limit > 0 /\ n > 0 => Truncated(n, limit, early) > 0
           /\ n <= limit \/ limit = 0 => Truncated(n, limit, early) = n
<1>1. PICK half \in Nat : half = limit \div 2
    BY SMTT(20)
<1>2. Min({limit, half + 1}) = IF limit <= half + 1 THEN limit ELSE half + 1
    BY LesserIs
<1>3. Truncated(n, limit, early) =
          IF limit = 0 \/ n <= limit THEN n
          ELSE IF early THEN IF limit <= half + 1 THEN limit ELSE half + 1 ELSE limit
    BY <1>1, <1>2 DEF Truncated
<1>4. QED
    BY <1>3
-----------------------------------------------------------------------------
(* The plan and the parts of a turn                                        *)

PlanType ==
    [reply : {"open", "yes", "no"}, detail : Details, unclear : BOOLEAN, humor : BOOLEAN,
     web : BOOLEAN, asks : BOOLEAN, card : BOOLEAN, schedules : BOOLEAN]

LEMMA AskedIs ==
    ASSUME NEW r \in Asked
    PROVE  /\ r.telegram \in BOOLEAN /\ r.bot \in BOOLEAN /\ r.wants \in Details
           /\ r.long \subseteq Keys
BY PromptAssumption DEF PromptAssumption

LEMMA PlannedIs == \A q \in Planned : q \in PlanType
<1>1. NoPlan \in PlanType
    BY DEF NoPlan, PlanType, Details
<1>2. ASSUME NEW p \in Payloads PROVE Parsed(p) \in PlanType
    <2>1. /\ p.skip \in BOOLEAN /\ p.unclear \in BOOLEAN /\ p.search \in BOOLEAN
          /\ p.schedules \in BOOLEAN /\ p.reply \in {"open", "yes", "no"} /\ p.detail \in Details
        BY PromptAssumption DEF PromptAssumption
    <2>2. SkipPlan(p) \in PlanType /\ ClarificationPlan(p) \in PlanType
        BY <2>1 DEF SkipPlan, ClarificationPlan, NoPlan, PlanType
    <2>3. SearchPlan(p) \in PlanType
        <3>1. PICK humor \in BOOLEAN, web \in BOOLEAN, asks \in BOOLEAN, card \in BOOLEAN :
                  /\ humor = (p.humor = "query")
                  /\ web = (p.web = "query" \/ (p.web = "bare" /\ p.search))
                  /\ asks = (p.hermes # "no" /\ p.hermes # "bare")
                  /\ card = (p.hermes = "card")
            BY Zenon
        <3>2. PICK reply \in {"open", "yes", "no"} : reply = IF p.schedules THEN "yes" ELSE p.reply
            BY <2>1
        <3>3. SearchPlan(p) = [reply |-> reply, unclear |-> FALSE, humor |-> humor, web |-> web,
                               asks |-> asks, card |-> card, schedules |-> p.schedules,
                               detail |-> p.detail]
            BY <3>1, <3>2 DEF SearchPlan
        <3>4. QED
            BY <2>1, <3>3 DEF PlanType
    <2>4. QED
        BY <2>1, <2>2, <2>3 DEF Parsed
<1>3. QED
    BY <1>1, <1>2 DEF Planned

LEMMA FinalPlanIs ==
    ASSUME request \in Asked, NEW q \in PlanType
    PROVE  WithCard(WithDetail(q)) \in PlanType
<1>1. request.wants \in Details
    BY AskedIs
<1>2. PICK detail \in Details :
          detail = IF q.unclear THEN "normal"
                   ELSE IF request.wants # "normal" THEN request.wants ELSE q.detail
    BY <1>1 DEF PlanType, Details
<1>3. PICK p : p = [q EXCEPT !.detail = detail]
    OBVIOUS
<1>4. WithDetail(q) = p
    BY <1>2, <1>3 DEF WithDetail, Detected
<1>5. p \in PlanType
    BY <1>3 DEF PlanType
<1>6. PICK early \in BOOLEAN : early = (request.card = "early")
    BY Zenon
<1>7. [p EXCEPT !.asks = TRUE, !.card = early] \in PlanType
    BY <1>5 DEF PlanType
<1>8. WithCard(p) = p \/ WithCard(p) = [p EXCEPT !.asks = TRUE, !.card = early]
    BY <1>6 DEF WithCard
<1>9. QED
    BY <1>4, <1>5, <1>7, <1>8

LEMMA KeysAre ==
    {"identity", "aliases", "proxy", "clarify", "tone", "attitude", "detail",
     "vision", "owner", "noPhotos", "history", "knowledge", "scene", "sceneRule",
     "web", "webRule", "asked", "offline", "answered", "nothingAsked", "retry",
     "schedule", "humor", "memes", "menu", "metrics", "earlier", "session",
     "album", "albumRule", "albumMust", "message", "task"} \subseteq Keys
<1>1. \A i \in 1..33 : Layout[i] \in Keys
    BY LayoutIs DEF Keys, ToSet
<1>2. /\ Layout[1] = "identity" /\ Layout[2] = "aliases" /\ Layout[3] = "proxy"
      /\ Layout[4] = "clarify" /\ Layout[5] = "tone" /\ Layout[6] = "attitude"
      /\ Layout[7] = "detail" /\ Layout[8] = "vision" /\ Layout[9] = "owner"
      /\ Layout[10] = "noPhotos" /\ Layout[11] = "history" /\ Layout[12] = "knowledge"
      /\ Layout[13] = "scene" /\ Layout[14] = "sceneRule" /\ Layout[15] = "web"
      /\ Layout[16] = "webRule"
    BY DEF Layout
<1>3. /\ Layout[17] = "asked" /\ Layout[18] = "offline" /\ Layout[19] = "answered"
      /\ Layout[20] = "nothingAsked" /\ Layout[21] = "retry" /\ Layout[22] = "schedule"
      /\ Layout[23] = "humor" /\ Layout[24] = "memes" /\ Layout[25] = "menu"
      /\ Layout[26] = "metrics" /\ Layout[27] = "earlier" /\ Layout[28] = "session"
      /\ Layout[29] = "album" /\ Layout[30] = "albumRule" /\ Layout[31] = "albumMust"
      /\ Layout[32] = "message" /\ Layout[33] = "task"
    BY DEF Layout
<1>4. {Layout[1], Layout[2], Layout[3], Layout[4], Layout[5], Layout[6], Layout[7], Layout[8],
       Layout[9], Layout[10], Layout[11], Layout[12], Layout[13], Layout[14], Layout[15],
       Layout[16]} \subseteq Keys
    BY <1>1
<1>5. {Layout[17], Layout[18], Layout[19], Layout[20], Layout[21], Layout[22], Layout[23],
       Layout[24], Layout[25], Layout[26], Layout[27], Layout[28], Layout[29], Layout[30],
       Layout[31], Layout[32], Layout[33]} \subseteq Keys
    BY <1>1
<1>6. QED
    BY <1>2, <1>3, <1>4, <1>5

\* What is told are keys, and of the lookup it is what its state says.
LEMMA ToldIs ==
    /\ Told \subseteq Keys /\ "message" \in Told
    /\ \A key \in {"asked", "offline", "answered", "nothingAsked"} :
           key \in Told <=> key \in When(lookup \in {"asked", "offline", "answered"}, {lookup})
                                    \cup When(lookup \in {"none", "deferred"}, {"nothingAsked"})
<1>1. /\ IdentityParts \subseteq {"identity", "aliases"} /\ ProxyParts \subseteq {"proxy"}
      /\ ToneParts \subseteq {"clarify", "tone", "attitude", "detail"}
      /\ OwnerParts \subseteq {"vision", "owner"}
    BY DEF IdentityParts, ProxyParts, ToneParts, OwnerParts, When
<1>2. /\ KnowledgeParts \subseteq {"history", "knowledge"}
      /\ SceneParts \subseteq {"scene", "sceneRule"} /\ WebParts \subseteq {"web", "webRule"}
      /\ ScheduleParts \subseteq {"schedule"} /\ MemeParts \subseteq {"memes", "menu"}
    BY DEF KnowledgeParts, SceneParts, WebParts, ScheduleParts, MemeParts, When
<1>3. /\ MetricsParts \subseteq {"metrics"} /\ HumorParts \subseteq {"humor"}
      /\ SessionParts \subseteq {"session", "earlier"}
      /\ AlbumParts \subseteq {"album", "albumRule", "albumMust", "noPhotos"}
      /\ MessageParts = {"message", "task"}
    BY DEF MetricsParts, HumorParts, SessionParts, AlbumParts, MessageParts, When
<1>4. HermesParts = When(lookup \in {"asked", "offline", "answered"}, {lookup})
                        \cup When(lookup \in {"none", "deferred"}, {"nothingAsked"})
                        \cup When(retry, {"retry"})
    BY DEF HermesParts
<1>5. HermesParts \subseteq {"asked", "offline", "answered", "nothingAsked", "retry"}
    BY <1>4 DEF When
<1>6. \A key : key \in Told <=>
          \/ key \in IdentityParts \/ key \in ProxyParts \/ key \in ToneParts
          \/ key \in OwnerParts \/ key \in KnowledgeParts \/ key \in SceneParts
          \/ key \in WebParts \/ key \in HermesParts \/ key \in ScheduleParts
          \/ key \in MemeParts \/ key \in MetricsParts \/ key \in SessionParts
          \/ key \in AlbumParts \/ key \in MessageParts \/ key \in HumorParts
    BY DEF Told
<1>7. Told \subseteq Keys /\ "message" \in Told
    BY <1>1, <1>2, <1>3, <1>5, <1>6, KeysAre
<1>8. ASSUME NEW key \in {"asked", "offline", "answered", "nothingAsked"}
      PROVE  key \in Told <=> key \in HermesParts
    BY <1>1, <1>2, <1>3, <1>6
<1>9. ASSUME NEW key \in {"asked", "offline", "answered", "nothingAsked"}
      PROVE  key \notin When(retry, {"retry"})
    BY DEF When
<1>10. QED
    BY <1>4, <1>7, <1>8, <1>9

LEMMA RetryIs == ~retry => "retry" \notin Told
<1>1. ASSUME ~retry PROVE "retry" \notin HermesParts
    <2>1. HermesParts = When(lookup \in {"asked", "offline", "answered"}, {lookup})
                            \cup When(lookup \in {"none", "deferred"}, {"nothingAsked"})
        BY <1>1 DEF HermesParts, When
    <2>2. QED
        BY <2>1 DEF When
<1>2. QED
    BY <1>1 DEF Told, IdentityParts, ProxyParts, ToneParts, OwnerParts, KnowledgeParts,
        SceneParts, WebParts, ScheduleParts, HumorParts, MemeParts, MetricsParts,
        SessionParts, AlbumParts, MessageParts, When
-----------------------------------------------------------------------------
(* The invariant                                                           *)

\* What the sources left behind.
SourcesOK ==
    /\ submitted <=> lookup \in {"asked", "deferred"}
    /\ lookup = "asked" => ~request.bot
    /\ lookup = "deferred" => request.bot
    /\ "hermes" \in pending => lookup = "none"
    /\ note = "done" => applied
    /\ retry => lookup # "asked" /\ at \notin {"plan", "gather", "memes"}

\* The parts are what the turn is told, the message of its own length.
PartsOK ==
    at \in {"fit", "ready"} =>
        /\ \E P : PartsFrom(parts, P)
        /\ Shown(parts) = Told
        /\ \A i \in DOMAIN parts : parts[i].key = "message" => parts[i].size = Length("message")

\* What is sent is among the parts, and is all of them when they are within the cap.
SentOK ==
    /\ Shown(prompt) \subseteq Shown(parts)
    /\ MaxChars = 0 \/ Total(parts) <= MaxChars => prompt = parts

PromptInv ==
    /\ PromptTypeOK /\ SourcesOK /\ PartsOK
    /\ at = "ready" => MessageComesFirst /\ CutsFollowRank /\ FitsInOrder /\ SentOK

LEMMA InitPrompt == PromptInit => PromptInv
<1> SUFFICES ASSUME PromptInit PROVE PromptInv
    OBVIOUS
<1>1. NoPlan \in PlanType
    BY DEF NoPlan, PlanType, Details
<1>2. <<>> \in PartSeqs
    BY DEF PartSeqs
<1>3. PromptTypeOK
    BY <1>1, <1>2 DEF PromptInit, PromptTypeOK, PlanType, Sources
<1>4. QED
    BY <1>3 DEF PromptInit, PromptInv, SourcesOK, PartsOK

LEMMA PlanStep == PromptInv /\ MakePlan => PromptInv'
<1> SUFFICES ASSUME PromptInv, MakePlan PROVE PromptInv'
    OBVIOUS
<1>1. PICK q \in Planned : plan' = WithCard(WithDetail(q))
    BY DEF MakePlan
<1>2. request \in Asked
    BY DEF PromptInv, PromptTypeOK
<1>3. plan' \in PlanType
    BY <1>1, <1>2, PlannedIs, FinalPlanIs
<1>4. PromptTypeOK'
    BY <1>3 DEF PromptInv, PromptTypeOK, MakePlan, PlanType
<1>5. SourcesOK' /\ PartsOK'
    BY DEF PromptInv, SourcesOK, PartsOK, MakePlan
<1>6. at' # "ready"
    BY DEF MakePlan
<1>7. QED
    BY <1>4, <1>5, <1>6 DEF PromptInv

LEMMA GatherSteps ==
    PromptInv /\ (SearchWeb \/ Pin \/ AskHermes \/ ApplySchedule) => PromptInv'
<1> SUFFICES ASSUME PromptInv, SearchWeb \/ Pin \/ AskHermes \/ ApplySchedule PROVE PromptInv'
    OBVIOUS
<1>1. PICK source : Returns(source)
    BY DEF SearchWeb, Pin, AskHermes, ApplySchedule
<1>2. /\ at = "gather" /\ at' \in {"gather", "memes"} /\ pending' \subseteq pending
      /\ UNCHANGED <<request, plan, memes, retry, parts, prompt>>
    BY <1>1 DEF Returns
<1>3. request \in Asked /\ request.bot \in BOOLEAN
    BY AskedIs DEF PromptInv, PromptTypeOK
<1>4. /\ found' \subseteq {"web", "pinned"}
      /\ lookup' \in {"none", "answered", "asked", "deferred", "offline"}
      /\ note' \in {"none", "done", "refused", "error"}
      /\ submitted' \in BOOLEAN /\ applied' \in BOOLEAN
    BY DEF SearchWeb, Pin, AskHermes, ApplySchedule, PromptInv, PromptTypeOK
<1>5. PromptTypeOK'
    <2>1. pending' \subseteq Sources
        BY <1>2 DEF PromptInv, PromptTypeOK
    <2>2. at' \in {"plan", "gather", "memes", "build", "fit", "ready"}
        BY <1>2
    <2>3. QED
        BY <1>2, <1>4, <2>1, <2>2 DEF PromptInv, PromptTypeOK
<1>6. ~retry
    BY <1>2 DEF PromptInv, SourcesOK
<1>7. SourcesOK'
    <2>1. CASE AskHermes
        <3>1. lookup = "none" /\ ~submitted /\ "hermes" \notin pending' /\ UNCHANGED <<note, applied>>
            BY <2>1 DEF AskHermes, Returns, PromptInv, SourcesOK
        <3>2. \/ lookup' = "none" /\ UNCHANGED submitted
              \/ lookup' \in {"answered", "offline"} /\ UNCHANGED submitted
              \/ lookup' = (IF request.bot THEN "deferred" ELSE "asked") /\ submitted' = TRUE
            BY <2>1, <3>1 DEF AskHermes
        <3>3. QED
            BY <1>2, <1>6, <3>1, <3>2 DEF PromptInv, SourcesOK
    <2>2. CASE ApplySchedule
        BY <1>2, <1>6, <2>2 DEF ApplySchedule, PromptInv, SourcesOK
    <2>3. CASE SearchWeb \/ Pin
        BY <1>2, <1>6, <2>3 DEF SearchWeb, Pin, PromptInv, SourcesOK
    <2>4. QED
        BY <2>1, <2>2, <2>3
<1>8. PartsOK' /\ at' # "ready"
    BY <1>2 DEF PartsOK
<1>9. QED
    BY <1>5, <1>7, <1>8 DEF PromptInv

LEMMA OtherSteps == PromptInv /\ (OfferMemes \/ Regenerate) => PromptInv'
<1> SUFFICES ASSUME PromptInv, OfferMemes \/ Regenerate PROVE PromptInv'
    OBVIOUS
<1>1. Offers \subseteq {"none", "match", "menu"}
    BY DEF Offers
<1>2. PromptTypeOK'
    BY <1>1 DEF PromptInv, PromptTypeOK, OfferMemes, Regenerate
<1>3. SourcesOK'
    BY DEF PromptInv, SourcesOK, OfferMemes, Regenerate
<1>4. PartsOK' /\ at' # "ready"
    BY DEF PartsOK, OfferMemes, Regenerate
<1>5. QED
    BY <1>2, <1>3, <1>4 DEF PromptInv

LEMMA BuildStep == PromptInv /\ Build => PromptInv'
<1> SUFFICES ASSUME PromptInv, Build PROVE PromptInv'
    OBVIOUS
<1>0. /\ at' = "fit"
      /\ UNCHANGED <<request, plan, pending, found, lookup, note, memes, retry, prompt,
                     submitted, applied>>
    BY DEF Build
<1>1. PICK keys : keys = Told
    OBVIOUS
<1>2. keys \subseteq Keys /\ "message" \in keys
    BY <1>1, ToldIs
<1>3. PICK P : P = {i \in 1..33 : Layout[i] \in keys}
    OBVIOUS
<1>4. PICK told : told = ItemsAt(Layout, P)
    OBVIOUS
<1>5. PICK early \in BOOLEAN :
          parts' = [i \in DOMAIN told |->
                       [key |-> told[i],
                        size |-> Truncated(Length(told[i]), Cap[told[i]], early)]]
    BY <1>1, <1>3, <1>4, LayoutIs DEF Build, Select
<1>6. PICK n : n = Cardinality(P)
    OBVIOUS
<1>7. /\ n \in Nat /\ told \in Seq(Keys) /\ DOMAIN told = 1..n
      /\ \A k \in 1..n : told[k] = Layout[Ascending(P)[k]]
      /\ \A k \in 1..n : told[k] \in Keys
    <2>1. P \in SUBSET DOMAIN Layout /\ Layout \in Seq(Keys)
        BY <1>3, LayoutIs
    <2>2. n \in Nat /\ told \in Seq(Keys) /\ DOMAIN told = 1..n /\ Len(told) = n
        BY <1>4, <1>6, <2>1, ItemsAre
    <2>3. \A k \in 1..n : told[k] = Layout[Ascending(P)[k]]
        BY <1>4, <1>6 DEF ItemsAt
    <2>4. \A k \in 1..n : told[k] \in Keys
        BY <2>2, ElementOfSeq
    <2>5. QED
        BY <2>2, <2>3, <2>4
<1>8. PICK list : list = parts'
    OBVIOUS
<1>9. /\ DOMAIN list = 1..n
      /\ \A k \in 1..n : /\ list[k].key = told[k]
                         /\ list[k].size = Truncated(Length(told[k]), Cap[told[k]], early)
    BY <1>5, <1>7, <1>8
<1>10. list \in PartSeqs
    <2>1. ASSUME NEW k \in 1..n PROVE list[k] \in [key : Keys, size : Nat]
        <3>1. Length(told[k]) \in Nat /\ Cap[told[k]] \in Nat
            BY <1>7, PromptBounds DEF Length
        <3>2. Truncated(Length(told[k]), Cap[told[k]], early) \in Nat
            BY <3>1, TruncatedIs
        <3>3. QED
            BY <1>5, <1>7, <1>8, <3>2
    <2>2. list \in [1..n -> [key : Keys, size : Nat]]
        BY <1>5, <1>7, <1>8, <2>1
    <2>3. QED
        BY <1>7, <2>2, ListIsSeq DEF PartSeqs
<1>11. PartsFrom(list, P)
    BY <1>3, <1>6, <1>7, <1>9, <1>10 DEF PartsFrom
<1>12. Shown(list) = keys
    <2>1. ASSUME NEW key \in Keys PROVE key \in Shown(list) <=> key \in keys
        <3>1. PICK i \in 1..33 : Layout[i] = key
            BY LayoutIs
        <3>2. Layout[i] \in Shown(list) <=> i \in P
            BY <1>11, PartsAre
        <3>3. QED
            BY <1>3, <3>1, <3>2
    <2>2. Shown(list) \subseteq Keys
        BY <1>7, <1>9 DEF Shown
    <2>3. QED
        BY <1>2, <2>1, <2>2
<1>13. ASSUME NEW k \in DOMAIN list, list[k].key = "message"
       PROVE  list[k].size = Length("message")
    <2>1. list[k].size = Truncated(Length("message"), Cap["message"], early)
        BY <1>9, <1>13
    <2>2. Cap["message"] = 0 /\ Length("message") \in Nat
        BY PromptBounds, PromptAssumption DEF PromptAssumption, Length
    <2>3. QED
        BY <2>1, <2>2, TruncatedIs
<1>14. Told' = keys /\ Length("message")' = Length("message")
    BY <1>0, <1>1 DEF Told, IdentityParts, ProxyParts, ToneParts, OwnerParts, KnowledgeParts,
        SceneParts, WebParts, HermesParts, ScheduleParts, HumorParts, MemeParts, MetricsParts,
        SessionParts, AlbumParts, MessageParts, Length
<1>15. PartsOK'
    <2>1. \E R : PartsFrom(list, R)
        BY <1>11
    <2>2. (\E R : PartsFrom(parts, R))'
        BY <1>8, <2>1
    <2>3. Shown(parts)' = Told'
        BY <1>8, <1>12, <1>14 DEF Shown
    <2>4. (\A i \in DOMAIN parts :
               parts[i].key = "message" => parts[i].size = Length("message"))'
        BY <1>8, <1>13, <1>14
    <2>5. QED
        BY <2>2, <2>3, <2>4 DEF PartsOK
<1>16. PromptTypeOK' /\ SourcesOK' /\ at' # "ready"
    BY <1>0, <1>8, <1>10 DEF PromptInv, PromptTypeOK, SourcesOK
<1>17. QED
    BY <1>15, <1>16 DEF PromptInv

\* Kept is what the cap leaves to a part.
LEMMA KeptIs ==
    /\ \A i, j : Outranks(i, j) <=> Ahead(parts, i, j)
    /\ \A i : Kept(i) = Keep(parts, i)
<1>1. \A i, j : Outranks(i, j) <=> Ahead(parts, i, j)
    BY DEF Outranks, Ahead
<1>2. ASSUME NEW i PROVE Kept(i) = Keep(parts, i)
    <2>1. {j \in DOMAIN parts : Outranks(j, i)} = Above(parts, i)
        BY <1>1 DEF Above
    <2>2. MaxChars - Chars(parts, {j \in DOMAIN parts : Outranks(j, i)}) = Room(parts, i)
        BY <2>1 DEF Room
    <2>3. QED
        BY <2>2 DEF Kept, Keep
<1>3. QED
    BY <1>1, <1>2

\* The joined text is within the cap but for its gaps when its parts are within it.
LEMMA SentIs ==
    ASSUME NEW list \in PartSeqs
    PROVE  Sent(list) <= MaxChars + Gap * (Len(list) - 1) <=> Total(list) <= MaxChars
<1>1. PICK total \in Nat : total = Total(list)
    BY CharsAre DEF Total
<1>2. PICK gaps \in Int : gaps = Gap * (Len(list) - 1)
    BY PlacesAre DEF Gap
<1>3. Sent(list) = total + gaps
    BY <1>1, <1>2 DEF Sent
<1>4. total + gaps <= MaxChars + gaps <=> total <= MaxChars
    BY PromptBounds
<1>5. QED
    BY <1>1, <1>2, <1>3, <1>4

LEMMA FitStep == PromptInv /\ Fit => PromptInv'
<1> SUFFICES ASSUME PromptInv, Fit PROVE PromptInv'
    OBVIOUS
<1>0. /\ at = "fit" /\ at' = "ready"
      /\ UNCHANGED <<request, plan, pending, found, lookup, note, memes, retry, parts,
                     submitted, applied>>
    BY DEF Fit
<1>1. PICK list : list = parts /\ list = parts'
    BY <1>0
<1>2. PICK P : PartsFrom(list, P)
    BY <1>0, <1>1 DEF PromptInv, PartsOK
<1>3. list \in PartSeqs
    BY <1>2 DEF PartsFrom
<1>4. PICK whole \in Nat : whole = Length("message") /\ whole = Length("message")' /\ whole > 0
    BY <1>0, PromptBounds DEF Length
<1>5. PICK x \in DOMAIN list : list[x].key = "message" /\ list[x].size = whole
    <2>1. "message" \in Shown(list)
        BY <1>0, <1>1, ToldIs DEF PromptInv, PartsOK
    <2>2. PICK x \in DOMAIN list : list[x].key = "message"
        BY <2>1 DEF Shown
    <2>3. list[x].size = whole
        BY <1>0, <1>1, <1>4, <2>2 DEF PromptInv, PartsOK
    <2>4. QED
        BY <2>2, <2>3
<1>6. PICK text : text = prompt'
    OBVIOUS
<1> DEFINE Cut(e) == [i \in DOMAIN list |->
                         [list[i] EXCEPT !.size =
                             IF Keep(list, i) = 0 THEN 0 ELSE Truncated(@, Keep(list, i), e)]]
<1>20. PICK early \in BOOLEAN :
          text = IF MaxChars = 0 \/ Total(list) <= MaxChars THEN list
                 ELSE ItemsAt(Cut(early), {i \in DOMAIN Cut(early) : Cut(early)[i].size > 0})
    BY <1>1, <1>6, KeptIs DEF Fit, Select
<1>21. PICK cut : cut = Cut(early)
    OBVIOUS
<1>7. /\ early \in BOOLEAN
      /\ cut = [i \in DOMAIN list |->
                   [list[i] EXCEPT !.size =
                       IF Keep(list, i) = 0 THEN 0 ELSE Truncated(@, Keep(list, i), early)]]
      /\ text = IF MaxChars = 0 \/ Total(list) <= MaxChars THEN list
                ELSE ItemsAt(cut, {i \in DOMAIN cut : cut[i].size > 0})
    BY <1>20, <1>21
<1> HIDE DEF Cut
<1>8. \A i, j \in DOMAIN list : list[i].key = list[j].key => i = j
    BY <1>2, PartsAre
<1>9. /\ \E R : PartsFrom(text, R)
      /\ "message" \in Shown(text)
      /\ MaxChars = 0 \/ whole <= MaxChars => SizeIn(text, "message") = whole
      /\ \A i \in DOMAIN list : SizeIn(text, list[i].key) < list[i].size =>
             \A j \in DOMAIN list : Ahead(list, i, j) => list[j].key \notin Shown(text)
      /\ MaxChars > 0 => Total(text) <= MaxChars
      /\ Shown(text) \subseteq Shown(list)
      /\ MaxChars = 0 \/ Total(list) <= MaxChars => text = list
    <2>1. CASE MaxChars = 0 \/ Total(list) <= MaxChars
        <3>1. text = list
            BY <1>7, <2>1
        <3>2. ASSUME NEW i \in DOMAIN list PROVE SizeIn(list, list[i].key) = list[i].size
            <4>1. {j \in DOMAIN list : list[j].key = list[i].key} = {i}
                BY <1>8, <3>2
            <4>2. QED
                BY <1>3, <4>1, CharsOfOne DEF SizeIn
        <3>3. "message" \in Shown(list) /\ SizeIn(list, "message") = whole
            BY <1>5, <3>2 DEF Shown
        <3>4. \A i \in DOMAIN list : ~(SizeIn(list, list[i].key) < list[i].size)
            BY <1>3, <3>2, PlacesAre
        <3>5. MaxChars > 0 => Total(list) <= MaxChars
            BY <2>1, PromptBounds
        <3>6. QED
            BY <1>2, <3>1, <3>3, <3>4, <3>5
    <2>2. CASE ~(MaxChars = 0 \/ Total(list) <= MaxChars)
        <3>1. text = ItemsAt(cut, {i \in DOMAIN cut : cut[i].size > 0})
            BY <1>7, <2>2
        <3>2. ASSUME NEW i \in DOMAIN list
              PROVE  /\ cut[i] \in [key : Keys, size : Nat] /\ cut[i].key = list[i].key
                     /\ cut[i].size <= Keep(list, i)
                     /\ Keep(list, i) = 0 => cut[i].size = 0
                     /\ Keep(list, i) = list[i].size => cut[i].size = list[i].size
                     /\ Keep(list, i) > 0 => cut[i].size > 0
            <4>1. PICK n \in Nat, limit \in Nat : n = list[i].size /\ limit = Keep(list, i)
                BY <1>3, PlacesAre, KeepIs
            <4>2. limit <= n
                BY <1>3, <4>1, KeepIs
            <4>3. PICK size : size = IF limit = 0 THEN 0 ELSE Truncated(n, limit, early)
                OBVIOUS
            <4>4. /\ size \in Nat /\ size <= limit /\ (limit > 0 => size > 0)
                  /\ (limit = n => size = n)
                <5>1. CASE limit = 0
                    BY <4>2, <4>3, <5>1
                <5>2. CASE limit # 0
                    <6>1. size = Truncated(n, limit, early) /\ limit > 0 /\ n > 0
                        BY <4>2, <4>3, <5>2
                    <6>2. QED
                        BY <1>7, <4>2, <6>1, TruncatedIs
                <5>3. QED
                    BY <5>1, <5>2
            <4>5. cut[i] = [list[i] EXCEPT !.size = size]
                BY <1>7, <4>1, <4>3
            <4>6. list[i] \in [key : Keys, size : Nat]
                BY <1>3, ElementOfSeq, LenProperties DEF PartSeqs
            <4>7. cut[i] \in [key : Keys, size : Nat] /\ cut[i].key = list[i].key /\ cut[i].size = size
                BY <4>4, <4>5, <4>6
            <4>8. QED
                BY <4>1, <4>4, <4>7
        <3>3. PICK n \in Nat : DOMAIN list = 1..n
            BY <1>3, PlacesAre
        <3>4. cut \in PartSeqs /\ DOMAIN cut = DOMAIN list
            <4>1. cut \in [1..n -> [key : Keys, size : Nat]]
                BY <1>7, <3>2, <3>3
            <4>2. QED
                BY <1>7, <4>1, ListIsSeq DEF PartSeqs
        <3>5. \A i \in DOMAIN list : cut[i].key = list[i].key
            BY <3>2
        <3>6. Stays(list, cut, text)
            <4>1. Cuts(list, P, cut, text)
                BY <1>2, <3>1, <3>4, <3>5 DEF Cuts
            <4>2. QED
                BY <4>1, StayIs
        <3>7. Total(text) <= MaxChars
            <4>1. \A i \in DOMAIN list : cut[i].size <= Keep(list, i)
                BY <3>2
            <4>2. Total(cut) <= MaxChars
                BY <1>3, <3>4, <4>1, KeptFits DEF Total
            <4>3. text \in PartSeqs
                BY <3>6 DEF PartsFrom, Stays
            <4>4. Total(text) \in Nat /\ Total(cut) \in Nat
                BY <3>4, <4>3, CharsAre DEF Total
            <4>5. QED
                BY <3>6, <4>2, <4>4, PromptBounds DEF Stays
        <3>8. Room(list, x) = MaxChars /\ MaxChars > 0
            <4>1. \A k \in Keys \ {"message"} : Rank[k] < Rank["message"]
                BY PromptAssumption DEF PromptAssumption
            <4>2. ASSUME NEW j \in DOMAIN list PROVE ~Ahead(list, j, x)
                <5>1. CASE j = x
                    BY <1>3, <5>1, AheadIs
                <5>2. CASE j # x
                    <6>1. list[j].key \in Keys \ {"message"} /\ "message" \in Keys
                        BY <1>3, <1>5, <1>8, <5>2, PlacesAre, KeysAre
                    <6>2. PICK a \in Nat, b \in Nat : a = Rank[list[j].key] /\ b = Rank["message"]
                        BY <6>1, PromptBounds
                    <6>3. a < b
                        BY <4>1, <6>1, <6>2
                    <6>4. ~(a > b) /\ a # b
                        BY <6>3
                    <6>5. QED
                        BY <1>5, <6>2, <6>4 DEF Ahead
                <5>3. QED
                    BY <5>1, <5>2
            <4>3. Above(list, x) = {}
                BY <4>2 DEF Above
            <4>4. QED
                BY <1>3, <2>2, <4>3, NoChars, PromptBounds DEF Room
        <3>9. Keep(list, x) > 0 /\ (whole <= MaxChars => Keep(list, x) = whole)
            BY <1>3, <1>4, <1>5, <3>8, KeepIs
        <3>10. "message" \in Shown(text)
            BY <1>5, <3>2, <3>6, <3>9 DEF Stays
        <3>11. MaxChars = 0 \/ whole <= MaxChars => SizeIn(text, "message") = whole
            <4>1. whole <= MaxChars => cut[x].size = whole
                BY <1>5, <3>2, <3>9
            <4>2. SizeIn(text, "message") = cut[x].size
                BY <1>5, <3>6 DEF Stays
            <4>3. QED
                BY <2>2, <4>1, <4>2
        <3>12. ASSUME NEW i \in DOMAIN list, SizeIn(text, list[i].key) < list[i].size,
                      NEW j \in DOMAIN list, Ahead(list, i, j)
               PROVE  list[j].key \notin Shown(text)
            <4>1. PICK uncut \in Nat, limit \in Nat, size \in Nat :
                      uncut = list[i].size /\ limit = Keep(list, i) /\ size = cut[i].size
                BY <1>3, <3>4, PlacesAre, KeepIs
            <4>2. limit <= uncut /\ size < uncut /\ (limit = uncut => size = uncut)
                BY <1>3, <3>2, <3>6, <3>12, <4>1, KeepIs DEF Stays
            <4>3. Keep(list, i) < list[i].size
                BY <4>1, <4>2
            <4>4. Room(list, i) < list[i].size
                BY <1>3, <4>3, KeepIs
            <4>5. Room(list, j) < 0 /\ Room(list, j) \in Int
                BY <1>3, <3>12, <4>4, BelowIsEmpty, KeepIs
            <4>6. Keep(list, j) = 0
                BY <1>3, <4>5, KeepIs
            <4>7. cut[j].size = 0
                BY <3>2, <4>6
            <4>8. QED
                BY <3>6, <4>7 DEF Stays
        <3>13. QED
            BY <2>2, <3>6, <3>7, <3>10, <3>11, <3>12 DEF Stays
    <2>3. QED
        BY <2>1, <2>2
<1>10. text \in PartSeqs
    BY <1>9 DEF PartsFrom
<1>11. PromptTypeOK'
    BY <1>0, <1>6, <1>10 DEF PromptInv, PromptTypeOK
<1>12. SourcesOK'
    BY <1>0 DEF PromptInv, SourcesOK
<1>13. Told' = Told
    BY <1>0 DEF Told, IdentityParts, ProxyParts, ToneParts, OwnerParts, KnowledgeParts,
        SceneParts, WebParts, HermesParts, ScheduleParts, HumorParts, MemeParts, MetricsParts,
        SessionParts, AlbumParts, MessageParts
<1>14. PartsOK'
    BY <1>0, <1>4, <1>13 DEF PromptInv, PartsOK, Shown
<1>15. MessageComesFirst'
    BY <1>4, <1>6, <1>9 DEF MessageComesFirst
<1>16. CutsFollowRank'
    <2>1. \A i, j : Outranks(i, j)' <=> Ahead(list, i, j)
        BY <1>1 DEF Outranks, Ahead
    <2>2. \A i \in DOMAIN parts' : SizeIn(text, parts'[i].key) < parts'[i].size =>
              \A j \in DOMAIN parts' : Outranks(i, j)' => parts'[j].key \notin Shown(text)
        BY <1>1, <1>9, <2>1
    <2>3. QED
        BY <1>6, <2>2 DEF CutsFollowRank
<1>17. FitsInOrder'
    <2>1. PICK R : PartsFrom(text, R)
        BY <1>9
    <2>2. [i \in DOMAIN text |-> text[i].key]
              = ItemsAt(Layout, {i \in DOMAIN Layout : Layout[i] \in Shown(text)})
        BY <2>1, PartsAre
    <2>3. QED
        BY <1>6, <1>9, <1>10, <2>2, SentIs DEF FitsInOrder, Select
<1>18. SentOK'
    BY <1>1, <1>6, <1>9 DEF SentOK
<1>19. QED
    BY <1>11, <1>12, <1>14, <1>15, <1>16, <1>17, <1>18 DEF PromptInv

LEMMA NextPrompt == PromptInv /\ [PromptNext]_promptVars => PromptInv'
<1> SUFFICES ASSUME PromptInv, [PromptNext]_promptVars PROVE PromptInv'
    OBVIOUS
<1>1. CASE UNCHANGED promptVars
    <2>1. PromptTypeOK' /\ SourcesOK'
        BY <1>1 DEF promptVars, PromptInv, PromptTypeOK, SourcesOK
    <2>2. Told' = Told /\ Length("message")' = Length("message")
        BY <1>1 DEF promptVars, Told, IdentityParts, ProxyParts, ToneParts, OwnerParts,
            KnowledgeParts, SceneParts, WebParts, HermesParts, ScheduleParts, HumorParts,
            MemeParts, MetricsParts, SessionParts, AlbumParts, MessageParts, Length
    <2>3. PartsOK'
        BY <1>1, <2>2 DEF promptVars, PromptInv, PartsOK, Shown
    <2>4. (at = "ready" => MessageComesFirst /\ CutsFollowRank /\ FitsInOrder /\ SentOK)'
        <3> SUFFICES ASSUME at' = "ready"
                     PROVE  (MessageComesFirst /\ CutsFollowRank /\ FitsInOrder /\ SentOK)'
            OBVIOUS
        <3>1. /\ UNCHANGED <<parts, prompt>>
              /\ MessageComesFirst /\ CutsFollowRank /\ FitsInOrder /\ SentOK
            BY <1>1 DEF promptVars, PromptInv
        <3>2. MessageComesFirst'
            BY <2>2, <3>1 DEF MessageComesFirst
        <3>3. \A i, j : Outranks(i, j)' <=> Outranks(i, j)
            BY <3>1 DEF Outranks
        <3>4. CutsFollowRank'
            BY <3>1, <3>3 DEF CutsFollowRank
        <3>5. FitsInOrder'
            BY <3>1 DEF FitsInOrder, Select
        <3>6. SentOK'
            BY <3>1 DEF SentOK
        <3>7. QED
            BY <3>2, <3>4, <3>5, <3>6
    <2>5. QED
        BY <2>1, <2>3, <2>4 DEF PromptInv
<1>2. CASE PromptNext
    BY <1>2, PlanStep, GatherSteps, OtherSteps, BuildStep, FitStep DEF PromptNext
<1>3. QED
    BY <1>1, <1>2

\* What the turn is told is what its sources did.
LEMMA NotesFollow == PromptInv /\ at = "ready" => NotesAreTrue
<1> SUFFICES ASSUME PromptInv, at = "ready" PROVE NotesAreTrue
    OBVIOUS
<1>1. SourcesOK /\ Shown(parts) = Told
    BY DEF PromptInv, PartsOK
<1>2. lookup \in {"none", "answered", "asked", "deferred", "offline"} /\ request.bot \in BOOLEAN
      /\ submitted \in BOOLEAN
    BY AskedIs DEF PromptInv, PromptTypeOK
<1>3. PICK x : x = IF lookup \in {"none", "deferred"} THEN "nothingAsked" ELSE lookup
    OBVIOUS
<1>4. \A key \in {"asked", "offline", "answered", "nothingAsked"} : key \in Told <=> key = x
    BY <1>2, <1>3, ToldIs DEF When
<1>5. x \in {"asked", "offline", "answered", "nothingAsked"}
    BY <1>2, <1>3
<1>6. Told \cap {"asked", "offline", "answered", "nothingAsked"} = {x}
    BY <1>4, <1>5
<1>7. PICK shown : shown = Shown(prompt)
    OBVIOUS
<1>8. SentOK /\ shown \subseteq Told /\ LookupNotes = {"asked", "offline", "answered", "nothingAsked"}
    BY <1>1, <1>7 DEF PromptInv, SentOK, LookupNotes
<1>9. shown \cap LookupNotes \subseteq {x}
    BY <1>6, <1>8
<1>10. Cardinality(shown \cap LookupNotes) <= 1
    <2>1. shown \cap LookupNotes = {} \/ shown \cap LookupNotes = {x}
        BY <1>9
    <2>2. Cardinality({}) = 0 /\ Cardinality({x}) = 1
        BY FS_EmptySet, FS_Singleton
    <2>3. QED
        BY <2>1, <2>2
<1>11. shown \cap LookupNotes = {} => MaxChars > 0 /\ Total(parts) > MaxChars
    <2> SUFFICES ASSUME MaxChars = 0 \/ ~(Total(parts) > MaxChars)
                 PROVE  shown \cap LookupNotes # {}
        BY PromptBounds
    <2>1. Total(parts) \in Nat /\ MaxChars \in Nat
        BY CharsAre, PromptBounds DEF PromptInv, PromptTypeOK, Total
    <2>2. MaxChars = 0 \/ Total(parts) <= MaxChars
        BY <2>1
    <2>3. shown = Told
        BY <1>1, <1>7, <1>8, <2>2 DEF SentOK
    <2>4. QED
        BY <1>5, <1>6, <1>8, <2>3
<1>12. "asked" \in shown => submitted /\ ~request.bot
    <2>1. "asked" \in shown => lookup = "asked"
        BY <1>2, <1>3, <1>4, <1>8
    <2>2. QED
        BY <1>1, <2>1 DEF SourcesOK
<1>13. submitted /\ ~request.bot => shown \cap (LookupNotes \cup {"retry"}) \subseteq {"asked"}
    <2> SUFFICES ASSUME submitted, ~request.bot
                 PROVE  shown \cap (LookupNotes \cup {"retry"}) \subseteq {"asked"}
        OBVIOUS
    <2>1. lookup = "asked" /\ ~retry
        BY <1>1 DEF SourcesOK
    <2>2. x = "asked"
        BY <1>3, <2>1
    <2>3. "retry" \notin Told
        BY <2>1, RetryIs
    <2>4. QED
        BY <1>8, <1>9, <2>2, <2>3
<1>14. "schedule" \in shown /\ note = "done" => applied
    BY <1>1 DEF SourcesOK
<1>15. QED
    BY <1>7, <1>10, <1>11, <1>12, <1>13, <1>14 DEF NotesAreTrue

\* The invariant of a turn: the parts are those its sources call for, and the
\* text is what the cap leaves of them.
THEOREM PromptInvariant == PromptSpec => []PromptInv
BY InitPrompt, NextPrompt, PTL DEF PromptSpec

\* The message that is answered is cut last, what is lost is lost from the lowest
\* rank up, the text that is sent is in the order of the layout and within the cap
\* but for the two characters between its parts, and the notes in it are true.
THEOREM PromptIsKept == PromptSpec => [](PromptTypeOK /\ PromptHolds)
<1>1. PromptInv => PromptTypeOK /\ PromptHolds
    BY NotesFollow DEF PromptInv, PromptHolds
<1>2. QED
    BY <1>1, PromptInvariant, PTL

-----------------------------------------------------------------------------
(* The whole                                                               *)

PartsInv == RemindersInv /\ ScheduleInv /\ PromptInv

LEMMA PartsInvariant == MCSpec => []PartsInv
<1>1. MCInit => PartsInv
    BY InitReminders, InitSchedule, InitPrompt DEF MCInit, PartsInv
<1> DEFINE all == <<part, vars, scheduleVars, promptVars>>
<1>2. PartsInv /\ [MCNext]_all => PartsInv'
    <2> SUFFICES ASSUME PartsInv, [MCNext]_all PROVE PartsInv'
        OBVIOUS
    <2>1. [Next]_vars /\ [ScheduleNext]_scheduleVars /\ [PromptNext]_promptVars
        BY DEF MCNext
    <2>2. QED
        BY <2>1, NextReminders, NextSchedule, NextPrompt DEF PartsInv
<1> HIDE DEF all
<1>3. QED
    BY <1>1, <1>2, PTL DEF MCSpec, all

\* The variables of all parts hold what they are declared to.
THEOREM RemindersStayTyped == MCSpec => []RemindersTypeOK
<1>1. PartsInv => RemindersTypeOK
    BY DEF PartsInv, RemindersInv, ScheduleInv, PromptInv, RemindersTypeOK
<1>2. QED
    BY <1>1, PartsInvariant, PTL
===============================================================================
