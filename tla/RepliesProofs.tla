---------------------------- MODULE RepliesProofs ----------------------------
(***************************************************************************)
(* Proofs about an answer on its way out.  What holds it back: the budget  *)
(* of answers to other bots, the pace of a chat, the gap between memes,    *)
(* the breaker of a tool server and the buffer of albums.  What it may     *)
(* cost: the requests of compose.  What is said: the messages that a text  *)
(* of the model becomes.  And what the bot makes of it: the text, voice,   *)
(* photo and sticker a chat gets for an update, and what it is told of     *)
(* other chats.  For any number of bots, callers, photos and updates, any  *)
(* outputs and answers, limits and time.                                   *)
(***************************************************************************)
EXTENDS MCReplies, OrderingProofs, Integers, FiniteSetTheorems, SequenceTheorems, TLAPS

-----------------------------------------------------------------------------
(* Sliding windows: the deque of stamps that both limits trim from its     *)
(* left end and append to at its right.                                    *)
Aged(stamps, now, w) == {i \in DOMAIN stamps : \A h \in 1..i : now - stamps[h] >= w}
Fresh(stamps, now, w) == SubSeq(stamps, Cardinality(Aged(stamps, now, w)) + 1, Len(stamps))

\* The deque holds the last of the n times in at; those before are w old.
Holds(stamps, at, n, now, w) ==
    /\ Len(stamps) <= n
    /\ \A i \in 1..Len(stamps) : stamps[i] = at[n - Len(stamps) + i]
    /\ \A i \in 1..(n - Len(stamps)) : now - at[i] >= w

\* A set of numbers from 1 on without a hole counts its own members.
LEMMA Prefix ==
    ASSUME NEW n \in Nat, NEW S \in SUBSET (1..n), \A i \in S : 1..i \subseteq S
    PROVE  Cardinality(S) \in 0..n /\ S = 1..Cardinality(S)
<1>1. IsFiniteSet(1..n) /\ Cardinality(1..n) = n
    BY FS_Interval
<1>2. IsFiniteSet(S) /\ Cardinality(S) <= n
    <2>1. IsFiniteSet(S) /\ Cardinality(S) <= Cardinality(1..n)
        BY <1>1, FS_Subset, Zenon
    <2>2. QED BY <1>1, <2>1
<1>3. Cardinality(S) \in Nat
    BY <1>2, FS_CardinalityType
<1>4. ASSUME NEW i \in S PROVE i \in 1..Cardinality(S)
    <2>1. Cardinality(1..i) = i
        BY FS_Interval
    <2>2. 1..i \in SUBSET S
        OBVIOUS
    <2>3. Cardinality(1..i) <= Cardinality(S)
        BY <1>2, <2>2, FS_Subset
    <2>4. QED BY <1>3, <2>1, <2>3
<1>5. IsFiniteSet(1..Cardinality(S)) /\ Cardinality(1..Cardinality(S)) = Cardinality(S)
    BY <1>3, FS_Interval
<1>6. S = 1..Cardinality(S)
    BY <1>4, <1>5, FS_Subset
<1>7. QED BY <1>2, <1>3, <1>6

\* What is trimmed is a beginning of the deque, and old.
LEMMA Trimmed ==
    ASSUME NEW stamps \in Seq(Nat), NEW now \in Nat, NEW w \in Nat
    PROVE  /\ Cardinality(Aged(stamps, now, w)) \in 0..Len(stamps)
           /\ \A i \in 1..Cardinality(Aged(stamps, now, w)) : now - stamps[i] >= w
<1> DEFINE S == Aged(stamps, now, w)
<1>1. Len(stamps) \in Nat /\ DOMAIN stamps = 1..Len(stamps)
    BY LenProperties
<1>2. S \in SUBSET (1..Len(stamps))
    BY <1>1 DEF Aged
<1>3. \A i \in S : 1..i \subseteq S
    BY <1>1 DEF Aged
<1>4. \A i \in S : now - stamps[i] >= w
    BY <1>1 DEF Aged
<1> HIDE DEF S
<1>5. Cardinality(S) \in 0..Len(stamps) /\ S = 1..Cardinality(S)
    BY <1>1, <1>2, <1>3, Prefix
<1>6. QED BY <1>4, <1>5 DEF S

\* The deque after trimming: its last stamps, in their order.
LEMMA FreshIs ==
    ASSUME NEW stamps \in Seq(Nat), NEW now \in Nat, NEW w \in Nat
    PROVE  LET c == Cardinality(Aged(stamps, now, w))
               f == Fresh(stamps, now, w)
           IN  /\ f \in Seq(Nat) /\ Len(f) = Len(stamps) - c
               /\ \A i \in 1..Len(f) : f[i] = stamps[c + i]
<1>1. PICK c \in 0..Len(stamps) : c = Cardinality(Aged(stamps, now, w))
    BY Trimmed
<1>2. Len(stamps) \in Nat
    BY LenProperties
<1>3. \A i \in (c + 1)..Len(stamps) : stamps[i] \in Nat
    BY <1>1, <1>2, ElementOfSeq
<1>4. /\ SubSeq(stamps, c + 1, Len(stamps)) \in Seq(Nat)
      /\ Len(SubSeq(stamps, c + 1, Len(stamps))) = Len(stamps) - c
      /\ \A i \in 1..(Len(stamps) - c) : SubSeq(stamps, c + 1, Len(stamps))[i] = stamps[c + i]
    <2>1. c + 1 \in Int /\ Len(stamps) \in Int
        BY <1>1, <1>2
    <2>2. /\ SubSeq(stamps, c + 1, Len(stamps)) \in Seq(Nat)
          /\ Len(SubSeq(stamps, c + 1, Len(stamps)))
                = IF c + 1 <= Len(stamps) THEN Len(stamps) - (c + 1) + 1 ELSE 0
          /\ \A i \in 1..(Len(stamps) - (c + 1) + 1) :
                SubSeq(stamps, c + 1, Len(stamps))[i] = stamps[c + 1 + i - 1]
        BY <1>3, <2>1, SubSeqProperties
    <2>3. Len(stamps) - (c + 1) + 1 = Len(stamps) - c
        BY <1>1, <1>2
    <2>4. \A i \in 1..(Len(stamps) - c) : c + 1 + i - 1 = c + i
        BY <1>1, <1>2
    <2>5. Len(SubSeq(stamps, c + 1, Len(stamps))) = Len(stamps) - c
        BY <1>1, <1>2, <2>2
    <2>6. QED BY <2>2, <2>3, <2>4, <2>5
<1>5. QED BY <1>1, <1>4 DEF Fresh

\* Trimming forgets only what is old.
LEMMA TrimHolds ==
    ASSUME NEW stamps \in Seq(Nat), NEW n \in Nat, NEW at \in [1..n -> Nat],
           NEW now \in Nat, NEW w \in Nat, Holds(stamps, at, n, now, w)
    PROVE  Holds(Fresh(stamps, now, w), at, n, now, w)
<1>1. PICK c \in 0..Len(stamps) : c = Cardinality(Aged(stamps, now, w))
    BY Trimmed
<1>2. PICK f : f = Fresh(stamps, now, w)
    OBVIOUS
<1>3. Len(f) = Len(stamps) - c /\ \A i \in 1..Len(f) : f[i] = stamps[c + i]
    BY <1>1, <1>2, FreshIs
<1>4. Len(stamps) \in Nat /\ Len(stamps) <= n
    BY LenProperties DEF Holds
<1>8. c \in Nat /\ c <= Len(stamps) /\ Len(f) = Len(stamps) - c
    BY <1>1, <1>3, <1>4
<1>5. \A i \in 1..Len(f) : f[i] = at[n - Len(f) + i]
    <2>1. SUFFICES ASSUME NEW i \in 1..Len(f) PROVE f[i] = at[n - Len(f) + i]
        OBVIOUS
    <2>2. c + i \in 1..Len(stamps) /\ n - Len(stamps) + (c + i) = n - Len(f) + i
        BY <1>4, <1>8
    <2>3. stamps[c + i] = at[n - Len(stamps) + (c + i)]
        BY <2>2 DEF Holds
    <2>4. QED BY <1>3, <2>2, <2>3
<1>6. \A i \in 1..(n - Len(f)) : now - at[i] >= w
    <2>1. SUFFICES ASSUME NEW i \in 1..(n - Len(f)) PROVE now - at[i] >= w
        OBVIOUS
    <2>2. CASE i <= n - Len(stamps)
        BY <1>4, <2>2 DEF Holds
    <2>3. CASE i > n - Len(stamps)
        <3>1. PICK k \in 1..c : k = i - (n - Len(stamps))
            <4>1. i - (n - Len(stamps)) \in 1..c
                BY <1>4, <1>8, <2>3
            <4>2. QED BY <4>1
        <3>2. now - stamps[k] >= w
            BY <1>1, <3>1, Trimmed
        <3>3. k \in 1..Len(stamps) /\ n - Len(stamps) + k = i
            BY <1>1, <1>4, <3>1
        <3>4. stamps[k] = at[n - Len(stamps) + k]
            BY <3>3 DEF Holds
        <3>5. QED BY <3>2, <3>3, <3>4
    <2>4. QED BY <1>4, <2>2, <2>3
<1>7. QED BY <1>1, <1>2, <1>3, <1>4, <1>5, <1>6 DEF Holds

\* A stamp joins both the deque and the row of times.
LEMMA AppendHolds ==
    ASSUME NEW stamps \in Seq(Nat), NEW n \in Nat, NEW at \in [1..n -> Nat],
           NEW now \in Nat, NEW w \in Nat, Holds(stamps, at, n, now, w),
           NEW next \in [1..(n + 1) -> Nat], next[n + 1] = now,
           \A i \in 1..n : next[i] = at[i]
    PROVE  Holds(Append(stamps, now), next, n + 1, now, w)
<1>1. Len(stamps) \in Nat /\ Len(stamps) <= n
    BY LenProperties DEF Holds
<1>2. PICK q : q = Append(stamps, now)
    OBVIOUS
<1>3. Len(q) = Len(stamps) + 1 /\ q[Len(stamps) + 1] = now
      /\ \A i \in 1..Len(stamps) : q[i] = stamps[i]
    BY <1>2, AppendProperties
<1>4. ASSUME NEW i \in 1..Len(q) PROVE q[i] = next[n + 1 - Len(q) + i]
    <2>1. CASE i = Len(stamps) + 1
        BY <1>1, <1>3, <2>1
    <2>2. CASE i \in 1..Len(stamps)
        <3>1. n - Len(stamps) + i \in 1..n /\ n + 1 - Len(q) + i = n - Len(stamps) + i
            BY <1>1, <1>3, <2>2
        <3>2. stamps[i] = at[n - Len(stamps) + i]
            BY <2>2 DEF Holds
        <3>3. QED BY <1>3, <2>2, <3>1, <3>2
    <2>3. QED BY <1>1, <1>3, <2>1, <2>2
<1>5. ASSUME NEW i \in 1..(n + 1 - Len(q)) PROVE now - next[i] >= w
    <2>1. i \in 1..(n - Len(stamps)) /\ i \in 1..n
        BY <1>1, <1>3
    <2>2. QED BY <2>1 DEF Holds
<1>6. Len(q) <= n + 1
    BY <1>1, <1>3
<1>7. Holds(q, next, n + 1, now, w)
    BY <1>4, <1>5, <1>6 DEF Holds
<1>8. QED BY <1>2, <1>7

\* What is old gets older.
LEMMA LaterHolds ==
    ASSUME NEW stamps \in Seq(Nat), NEW n \in Nat, NEW at \in [1..n -> Nat],
           NEW now \in Nat, NEW w \in Nat, NEW later \in Nat, now <= later,
           Holds(stamps, at, n, now, w)
    PROVE  Holds(stamps, at, n, later, w)
<1>1. Len(stamps) \in Nat
    BY LenProperties
<1>2. QED BY <1>1 DEF Holds

\* The young times of the row.
Young(at, n, now, w) == {i \in 1..n : now - at[i] < w}

\* The deque counts no fewer than are young.
LEMMA YoungAreHeld ==
    ASSUME NEW stamps \in Seq(Nat), NEW n \in Nat, NEW at \in [1..n -> Nat],
           NEW now \in Nat, NEW w \in Nat, Holds(stamps, at, n, now, w)
    PROVE  /\ Cardinality(Young(at, n, now, w)) \in Nat
           /\ Cardinality(Young(at, n, now, w)) <= Len(stamps)
<1>1. Len(stamps) \in Nat /\ Len(stamps) <= n
    BY LenProperties DEF Holds
<1>2. PICK k \in 0..n : k = n - Len(stamps)
    <2>1. n - Len(stamps) \in 0..n
        BY <1>1
    <2>2. QED BY <2>1
<1>3. IsFiniteSet((k + 1)..n) /\ Cardinality((k + 1)..n) = Len(stamps)
    <2>1. k + 1 \in Int /\ n \in Int
        OBVIOUS
    <2>2. /\ IsFiniteSet((k + 1)..n)
          /\ Cardinality((k + 1)..n) = IF k + 1 > n THEN 0 ELSE n - (k + 1) + 1
        BY <2>1, FS_Interval
    <2>3. QED BY <1>1, <1>2, <2>2
<1>4. Young(at, n, now, w) \in SUBSET ((k + 1)..n)
    <2>1. ASSUME NEW i \in 1..n, i <= k PROVE now - at[i] >= w
        BY <1>2, <2>1 DEF Holds
    <2>2. ASSUME NEW i \in Young(at, n, now, w) PROVE i \in (k + 1)..n
        <3>1. i \in 1..n /\ now - at[i] < w
            BY DEF Young
        <3>2. at[i] \in Nat
            BY <3>1
        <3>3. ~(i <= k)
            BY <2>1, <3>1, <3>2
        <3>4. QED BY <3>1, <3>3
    <2>3. QED BY <2>2
<1>5. QED BY <1>3, <1>4, FS_Subset, FS_CardinalityType

\* The young are counted.
LEMMA YoungAreCounted ==
    ASSUME NEW n \in Nat, NEW at, NEW now, NEW w
    PROVE  /\ IsFiniteSet(Young(at, n, now, w))
           /\ Cardinality(Young(at, n, now, w)) \in Nat
<1>1. Young(at, n, now, w) \in SUBSET (1..n) /\ IsFiniteSet(1..n)
    BY FS_Interval DEF Young
<1>2. QED BY <1>1, FS_Subset, FS_CardinalityType

\* The young only get fewer.
LEMMA YoungGetFewer ==
    ASSUME NEW n \in Nat, NEW at \in [1..n -> Nat], NEW now \in Nat, NEW w \in Nat,
           NEW later \in Nat, now <= later
    PROVE  /\ Cardinality(Young(at, n, now, w)) \in Nat
           /\ Cardinality(Young(at, n, later, w)) \in Nat
           /\ Cardinality(Young(at, n, later, w)) <= Cardinality(Young(at, n, now, w))
<1>1. Young(at, n, later, w) \in SUBSET Young(at, n, now, w)
    BY DEF Young
<1>2. IsFiniteSet(Young(at, n, now, w)) /\ Cardinality(Young(at, n, now, w)) \in Nat
    BY YoungAreCounted
<1>3. QED BY <1>1, <1>2, FS_Subset, FS_CardinalityType

\* One more time, and at most one more young.
LEMMA YoungAndOne ==
    ASSUME NEW n \in Nat, NEW at \in [1..n -> Nat], NEW now \in Nat, NEW w \in Nat,
           NEW next, \A i \in 1..n : next[i] = at[i]
    PROVE  Cardinality(Young(next, n + 1, now, w)) <= Cardinality(Young(at, n, now, w)) + 1
<1>1. Young(at, n, now, w) \in SUBSET (1..n)
    BY DEF Young
<1>2. IsFiniteSet(Young(at, n, now, w))
    BY YoungAreCounted
<1>3. Young(next, n + 1, now, w) \in SUBSET (Young(at, n, now, w) \cup {n + 1})
    BY DEF Young
<1>4. n + 1 \notin Young(at, n, now, w)
    BY <1>1
<1>5. /\ IsFiniteSet(Young(at, n, now, w) \cup {n + 1})
      /\ Cardinality(Young(at, n, now, w) \cup {n + 1}) = Cardinality(Young(at, n, now, w)) + 1
    BY <1>2, <1>4, FS_AddElement
<1>6. QED BY <1>3, <1>5, FS_Subset
-----------------------------------------------------------------------------
(* BotPeerBudget.  Two invariants: one on counts and one on the hour.      *)

\* A bot was posted or promised no more than was counted since a person wrote,
\* on top of what it was owed before; a turn in progress still has room.
RowOK ==
    \A b \in Bots :
        /\ row[b] + owed[b] <= inRow[b] + stale[b]
        /\ MaxInRow > 0 => inRow[b] <= MaxInRow
        /\ MaxInRow > 0 /\ talk = b => inRow[b] < MaxInRow

\* The stamp of a bot is that of its last answer, and a turn in progress began a
\* cooldown after it.
StampOK ==
    /\ \A b \in Bots : last[b] # NoTime => last[b] <= clock
    /\ \A i \in DOMAIN said : last[said[i].to] # NoTime /\ said[i].at <= last[said[i].to]
    /\ \A b \in Bots : talk = b => ~Cooling(b)

PeerInv == PeerTypeOK /\ RowOK /\ StampOK /\ AnswersAreSpaced

\* The times of the answers that were counted.
CountedAt == [i \in DOMAIN said |-> said[i].at]

\* The deque holds the last of them, and a turn in progress has room in its hour.
HourOK ==
    /\ Holds(hourly, CountedAt, Len(said), clock, Hour)
    /\ MaxPerHour > 0 /\ talk # NoBot =>
          Cardinality(Young(CountedAt, Len(said), clock, Hour)) < MaxPerHour

HourInv == PeerTypeOK /\ HourOK /\ HourHolds

\* Trimming the deque of the hour is trimming a deque.
LEMMA RecentIsFresh == Recent(hourly) = Fresh(hourly, clock, Hour)
BY DEF Recent, Gone, Fresh, Aged

\* What the counted answers are, as a row of records.
LEMMA SaidIs ==
    ASSUME PeerTypeOK
    PROVE  /\ Len(said) \in Nat /\ DOMAIN said = 1..Len(said)
           /\ \A i \in 1..Len(said) : said[i].to \in Bots /\ said[i].at \in Nat
           /\ CountedAt \in [1..Len(said) -> Nat]
           /\ \A i \in 1..Len(said) : CountedAt[i] = said[i].at
           /\ Len(hourly) \in Nat /\ clock \in Nat /\ hourly \in Seq(Nat)
<1>1. said \in Seq([to : Bots, at : Nat]) /\ hourly \in Seq(Nat) /\ clock \in Nat
    BY DEF PeerTypeOK
<1>2. /\ Len(said) \in Nat /\ DOMAIN said = 1..Len(said)
      /\ said \in [1..Len(said) -> [to : Bots, at : Nat]]
    BY <1>1, LenProperties
<1>3. Len(hourly) \in Nat
    BY <1>1, LenProperties
<1>4. \A i \in 1..Len(said) : said[i].to \in Bots /\ said[i].at \in Nat
    BY <1>2
<1>5. QED BY <1>1, <1>2, <1>3, <1>4 DEF CountedAt

\* An answer that is counted is the next in the row.
LEMMA RecordedIs ==
    ASSUME PeerTypeOK, NEW b \in Bots, RecordReply(b)
    PROVE  /\ said' \in Seq([to : Bots, at : Nat]) /\ hourly' \in Seq(Nat)
           /\ Len(said') = Len(said) + 1
           /\ \A i \in 1..Len(said) : said'[i] = said[i]
           /\ said'[Len(said) + 1] = [to |-> b, at |-> clock]
<1>1. [to |-> b, at |-> clock] \in [to : Bots, at : Nat] /\ clock \in Nat
    BY DEF PeerTypeOK
<1>2. said \in Seq([to : Bots, at : Nat]) /\ hourly \in Seq(Nat)
    BY DEF PeerTypeOK
<1>3. said' = Append(said, [to |-> b, at |-> clock]) /\ hourly' = Append(hourly, clock)
    BY DEF RecordReply
<1>4. hourly' \in Seq(Nat)
    BY <1>1, <1>2, <1>3, AppendProperties
<1>5. /\ said' \in Seq([to : Bots, at : Nat])
      /\ Len(said') = Len(said) + 1
      /\ \A i \in 1..Len(said) : said'[i] = said[i]
      /\ said'[Len(said) + 1] = [to |-> b, at |-> clock]
    BY <1>1, <1>2, <1>3, AppendProperties
<1>6. QED BY <1>4, <1>5

\* At the start nothing was said.
LEMMA InitPeers == PeerInit => PeerInv
BY PeerAssumption
   DEF PeerInit, PeerInv, PeerTypeOK, RowOK, StampOK, AnswersAreSpaced, Cooling

\* The types after an answer was counted and a promise made, kept or not.
LEMMA RecordTypes ==
    ASSUME PeerTypeOK, NEW b \in Bots, RecordReply(b), talk' = NoBot,
           UNCHANGED <<clock, stale>>, row' \in [Bots -> Nat], owed' \in [Bots -> Nat]
    PROVE  PeerTypeOK'
<1>1. inRow' = [inRow EXCEPT ![b] = @ + 1] /\ last' = [last EXCEPT ![b] = clock]
    BY DEF RecordReply
<1>2. inRow' \in [Bots -> Nat] /\ last' \in [Bots -> Nat \cup {NoTime}]
    <2>1. /\ inRow \in [Bots -> Nat] /\ last \in [Bots -> Nat \cup {NoTime}]
          /\ clock \in Nat
        BY DEF PeerTypeOK
    <2>2. QED BY <1>1, <2>1
<1>3. QED BY <1>2, RecordedIs DEF PeerTypeOK

\* An answer is counted for the bot whose turn was let through.
LEMMA RecordStep ==
    ASSUME PeerInv, NEW b \in Bots, talk = b, RecordReply(b), talk' = NoBot,
           UNCHANGED <<clock, stale>>,
           row' \in [Bots -> Nat], owed' \in [Bots -> Nat],
           \A c \in Bots : row'[c] + owed'[c] <= row[c] + owed[c] + (IF c = b THEN 1 ELSE 0)
    PROVE  PeerInv'
<1> USE PeerAssumption DEF PeerInv
<1>1. PeerTypeOK'
    BY RecordTypes
<1>2. RowOK'
    <2>1. /\ inRow \in [Bots -> Nat] /\ row \in [Bots -> Nat]
          /\ owed \in [Bots -> Nat] /\ stale \in [Bots -> Nat]
        BY DEF PeerTypeOK
    <2>2. inRow' = [inRow EXCEPT ![b] = @ + 1] /\ stale' = stale
        BY DEF RecordReply
    <2>3. ASSUME NEW c \in Bots
          PROVE  row'[c] + owed'[c] <= inRow'[c] + stale'[c]
        <3>1. /\ row[c] \in Nat /\ owed[c] \in Nat /\ inRow[c] \in Nat /\ stale[c] \in Nat
              /\ row'[c] \in Nat /\ owed'[c] \in Nat
            BY <2>1
        <3>2. row[c] + owed[c] <= inRow[c] + stale[c]
            BY DEF RowOK
        <3>3. inRow'[c] = inRow[c] + (IF c = b THEN 1 ELSE 0)
            BY <2>1, <2>2
        <3>4. QED BY <2>2, <3>1, <3>2, <3>3
    <2>4. ASSUME NEW c \in Bots, MaxInRow > 0 PROVE inRow'[c] <= MaxInRow
        BY <2>1, <2>2, <2>4 DEF RowOK
    <2>5. ASSUME NEW c \in Bots PROVE talk' # c
        OBVIOUS
    <2>6. QED BY <2>3, <2>4, <2>5 DEF RowOK
<1>3. /\ DOMAIN said = 1..Len(said) /\ Len(said) \in Nat
      /\ Len(said') = Len(said) + 1 /\ DOMAIN said' = 1..(Len(said) + 1)
      /\ \A i \in 1..Len(said) : said'[i] = said[i]
      /\ said'[Len(said) + 1] = [to |-> b, at |-> clock]
    <2>1. said' \in Seq([to : Bots, at : Nat]) /\ Len(said') = Len(said) + 1
        BY RecordedIs
    <2>2. DOMAIN said' = 1..(Len(said) + 1)
        BY <2>1, LenProperties
    <2>3. QED BY <2>2, RecordedIs, SaidIs
<1>4. last' = [last EXCEPT ![b] = clock] /\ last \in [Bots -> Nat \cup {NoTime}]
    BY DEF RecordReply, PeerTypeOK
<1>5. \A i \in 1..Len(said) : said[i].to \in Bots /\ said[i].at \in Nat
    BY SaidIs
<1>6. clock \in Nat /\ clock' = clock
    BY DEF PeerTypeOK
<1>7. StampOK'
    <2>1. \A c \in Bots : last'[c] # NoTime => last'[c] <= clock'
        BY <1>4, <1>6 DEF StampOK
    <2>2. ASSUME NEW i \in 1..Len(said)
          PROVE  last'[said[i].to] # NoTime /\ said[i].at <= last'[said[i].to]
        <3>1. said[i].to \in Bots /\ said[i].at \in Nat /\ i \in DOMAIN said
            BY <1>3, <1>5
        <3>2. /\ last[said[i].to] # NoTime /\ said[i].at <= last[said[i].to]
              /\ last[said[i].to] \in Nat /\ last[said[i].to] <= clock
            BY <1>4, <3>1 DEF StampOK
        <3>3. last'[said[i].to] = IF said[i].to = b THEN clock ELSE last[said[i].to]
            BY <1>4, <3>1
        <3>4. QED BY <1>6, <3>1, <3>2, <3>3, SMTT(20)
    <2>3. last'[b] # NoTime /\ clock <= last'[b]
        BY <1>4, <1>6
    <2>4. \A i \in DOMAIN said' : last'[said'[i].to] # NoTime /\ said'[i].at <= last'[said'[i].to]
        <3>1. ASSUME NEW i \in DOMAIN said', i # Len(said) + 1 PROVE i \in 1..Len(said)
            BY <1>3, <3>1
        <3>2. QED BY <1>3, <2>2, <2>3, <3>1
    <2>5. QED BY <2>1, <2>4 DEF StampOK
<1>8. AnswersAreSpaced'
    <2>1. ASSUME NEW i \in 1..Len(said), said[i].to = b PROVE clock - said[i].at >= Cooldown
        <3>1. /\ last[b] # NoTime /\ last[b] \in Nat /\ said[i].at <= last[b]
              /\ last[b] <= clock /\ said[i].at \in Nat
            <4>1. i \in DOMAIN said /\ last[b] \in Nat \cup {NoTime} /\ said[i].at \in Nat
                BY <1>3, <1>4, <1>5
            <4>2. last[b] # NoTime /\ said[i].at <= last[b]
                BY <2>1, <4>1 DEF StampOK
            <4>3. last[b] # NoTime => last[b] <= clock
                BY DEF StampOK
            <4>4. QED BY <4>1, <4>2, <4>3
        <3>2. ~(Cooldown > 0 /\ clock - last[b] < Cooldown)
            BY <3>1 DEF StampOK, Cooling
        <3>3. Cooldown \in Nat
            OBVIOUS
        <3>4. clock - last[b] >= Cooldown
            BY <1>6, <3>1, <3>2, <3>3
        <3>5. QED BY <1>6, <3>1, <3>3, <3>4
    <2>2. ASSUME NEW i \in DOMAIN said', NEW j \in DOMAIN said',
                 i < j, said'[i].to = said'[j].to
          PROVE  said'[j].at - said'[i].at >= Cooldown
        <3>1. i \in 1..Len(said)
            BY <1>3, <2>2
        <3>2. CASE j \in 1..Len(said)
            BY <3>1, <3>2, <1>3, <2>2 DEF AnswersAreSpaced
        <3>3. CASE j = Len(said) + 1
            BY <3>1, <3>3, <1>3, <2>1, <2>2
        <3>4. QED BY <3>2, <3>3, <1>3
    <2>3. QED BY <2>2 DEF AnswersAreSpaced
<1>9. QED BY <1>1, <1>2, <1>7, <1>8

\* Each step of the gate, of a turn and of the worker keeps the invariant.
LEMMA PeerStep == PeerInv /\ [PeerNext]_peerVars => PeerInv'
<1> SUFFICES ASSUME PeerInv, [PeerNext]_peerVars PROVE PeerInv'
    OBVIOUS
<1> USE PeerAssumption DEF PeerInv
<1>1. CASE PersonWrites
    BY <1>1 DEF PersonWrites, PeerTypeOK, RowOK, StampOK, AnswersAreSpaced, Cooling
<1>2. CASE Drop
    BY <1>2 DEF Drop, budget, PeerTypeOK, RowOK, StampOK, AnswersAreSpaced, Cooling
<1>3. CASE TimePasses
    <2>1. PeerTypeOK' /\ RowOK' /\ AnswersAreSpaced'
        BY <1>3 DEF TimePasses, budget, PeerTypeOK, RowOK, AnswersAreSpaced
    <2>2. clock \in Nat /\ clock' = clock + 1 /\ last' = last /\ last \in [Bots -> Nat \cup {NoTime}]
        BY <1>3 DEF TimePasses, budget, PeerTypeOK
    <2>3. \A b \in Bots : last'[b] # NoTime => last'[b] <= clock'
        BY <2>2 DEF StampOK
    <2>4. \A b \in Bots : talk' = b => ~Cooling(b)'
        <3>1. SUFFICES ASSUME NEW b \in Bots, talk = b PROVE ~Cooling(b)'
            BY <1>3 DEF TimePasses
        <3>2. ~Cooling(b)
            BY <3>1 DEF StampOK
        <3>3. last[b] # NoTime => last[b] \in Nat
            BY <2>2
        <3>4. QED BY <2>2, <3>2, <3>3 DEF Cooling
    <2>5. StampOK'
        BY <1>3, <2>3, <2>4 DEF TimePasses, budget, StampOK
    <2>6. QED BY <2>1, <2>5
<1>4. CASE AgentRestarts
    <2> USE <1>4 DEF AgentRestarts
    <2>1. PeerTypeOK'
        BY DEF PeerTypeOK
    <2>2. owed \in [Bots -> Nat] /\ NoBot \notin Bots
        BY DEF PeerTypeOK
    <2>3. RowOK'
        BY <2>2 DEF RowOK
    <2>4. StampOK' /\ AnswersAreSpaced'
        BY <2>2 DEF StampOK, AnswersAreSpaced
    <2>5. QED BY <2>1, <2>3, <2>4
<1>5. ASSUME NEW b \in Bots, BotWrites(b) PROVE PeerInv'
    <2>1. Recent(hourly) \in Seq(Nat)
        BY RecentIsFresh, FreshIs, SaidIs
    <2>2. PeerTypeOK' /\ AnswersAreSpaced'
        BY <1>5, <2>1 DEF BotWrites, PeerTypeOK, AnswersAreSpaced
    <2>3. RowOK'
        BY <1>5 DEF BotWrites, PeerTypeOK, RowOK, Blocked, TooDeep
    <2>4. StampOK'
        BY <1>5 DEF BotWrites, StampOK, Blocked, Cooling
    <2>5. QED BY <2>2, <2>3, <2>4
<1>6. ASSUME NEW b \in Bots, Promise(b) PROVE PeerInv'
    <2>1. row \in [Bots -> Nat] /\ owed \in [Bots -> Nat]
        BY DEF PeerTypeOK
    <2>2. row' = row /\ owed' = [owed EXCEPT ![b] = @ + 1]
        BY <1>6 DEF Promise
    <2>3. \A c \in Bots : row'[c] + owed'[c] <= row[c] + owed[c] + (IF c = b THEN 1 ELSE 0)
        BY <2>1, <2>2
    <2>4. talk = b /\ RecordReply(b) /\ talk' = NoBot /\ UNCHANGED <<clock, stale>>
        BY <1>6 DEF Promise
    <2>5. row' \in [Bots -> Nat] /\ owed' \in [Bots -> Nat]
        BY <2>1, <2>2
    <2>6. QED BY <2>3, <2>4, <2>5, RecordStep
<1>7. ASSUME NEW b \in Bots, NEW shown \in BOOLEAN, Say(b, shown) PROVE PeerInv'
    <2>1. row \in [Bots -> Nat] /\ owed \in [Bots -> Nat]
        BY DEF PeerTypeOK
    <2>2. owed' = owed /\ row' = IF shown THEN [row EXCEPT ![b] = @ + 1] ELSE row
        BY <1>7 DEF Say
    <2>3. \A c \in Bots : row'[c] + owed'[c] <= row[c] + owed[c] + (IF c = b THEN 1 ELSE 0)
        BY <2>1, <2>2
    <2>4. talk = b /\ RecordReply(b) /\ talk' = NoBot /\ UNCHANGED <<clock, stale>>
        BY <1>7 DEF Say
    <2>5. row' \in [Bots -> Nat] /\ owed' \in [Bots -> Nat]
        BY <2>1, <2>2
    <2>6. QED BY <2>3, <2>4, <2>5, RecordStep
<1>8. ASSUME NEW b \in Bots, PostLate(b) \/ LoseLate(b) PROVE PeerInv'
    <2>1. /\ row \in [Bots -> Nat] /\ owed \in [Bots -> Nat]
          /\ inRow \in [Bots -> Nat] /\ stale \in [Bots -> Nat]
        BY DEF PeerTypeOK
    <2>2. /\ owed[b] > 0 /\ owed' = [owed EXCEPT ![b] = @ - 1]
          /\ row' = [row EXCEPT ![b] = @ + 1] \/ row' = row
          /\ UNCHANGED <<clock, inRow, last, hourly, talk, said, stale>>
        BY <1>8 DEF PostLate, LoseLate, budget
    <2>3. owed' \in [Bots -> Nat] /\ row' \in [Bots -> Nat]
        BY <2>1, <2>2
    <2>4. PeerTypeOK'
        BY <2>2, <2>3 DEF PeerTypeOK
    <2>5. ASSUME NEW c \in Bots PROVE row'[c] + owed'[c] <= inRow'[c] + stale'[c]
        <3>1. row'[c] + owed'[c] <= row[c] + owed[c]
            BY <2>1, <2>2
        <3>2. row[c] + owed[c] <= inRow[c] + stale[c]
            BY DEF RowOK
        <3>3. QED BY <2>1, <2>2, <2>3, <3>1, <3>2
    <2>6. RowOK'
        BY <2>2, <2>5 DEF RowOK
    <2>7. StampOK' /\ AnswersAreSpaced'
        BY <2>2 DEF StampOK, AnswersAreSpaced, Cooling
    <2>8. QED BY <2>4, <2>6, <2>7
<1>9. ASSUME NEW b \in Bots, FailAsking(b) PROVE PeerInv'
    <2>1. /\ row \in [Bots -> Nat] /\ owed \in [Bots -> Nat]
          /\ inRow \in [Bots -> Nat] /\ stale \in [Bots -> Nat]
        BY DEF PeerTypeOK
    <2>2. /\ owed' = [owed EXCEPT ![b] = @ + 1] /\ stale' = [stale EXCEPT ![b] = @ + 1]
          /\ talk' = NoBot
          /\ UNCHANGED <<clock, inRow, last, hourly, said, row>>
        BY <1>9 DEF FailAsking, budget
    <2>3. owed' \in [Bots -> Nat] /\ stale' \in [Bots -> Nat]
        BY <2>1, <2>2
    <2>4. PeerTypeOK'
        BY <2>2, <2>3 DEF PeerTypeOK
    <2>5. ASSUME NEW c \in Bots PROVE row'[c] + owed'[c] <= inRow'[c] + stale'[c]
        <3>1. row[c] + owed[c] <= inRow[c] + stale[c]
            BY DEF RowOK
        <3>2. CASE c = b
            BY <2>1, <2>2, <3>1, <3>2
        <3>3. CASE c # b
            BY <2>1, <2>2, <3>1, <3>3
        <3>4. QED BY <3>2, <3>3
    <2>6. RowOK'
        BY <2>2, <2>5 DEF RowOK
    <2>7. StampOK' /\ AnswersAreSpaced'
        BY <2>2 DEF StampOK, AnswersAreSpaced, Cooling
    <2>8. QED BY <2>4, <2>6, <2>7
<1>10. CASE UNCHANGED peerVars
    BY <1>10 DEF peerVars, PeerTypeOK, RowOK, StampOK, AnswersAreSpaced, Cooling
<1>11. QED
    BY <1>1, <1>2, <1>3, <1>4, <1>5, <1>6, <1>7, <1>8, <1>9, <1>10 DEF PeerNext

\* Whatever the limits and the number of bots, every reachable state satisfies
\* the invariant.
THEOREM PeerInvariant == PeerSpec => []PeerInv
BY InitPeers, PeerStep, PTL DEF PeerSpec

\* Two bots cannot talk to each other forever: counted when promised, an answer
\* that is found late is not one more.
THEOREM BotLoopsEnd == PeerSpec => []LoopEnds
<1>1. PeerInv => LoopEnds
    <2>1. SUFFICES ASSUME PeerInv, MaxInRow > 0, NEW b \in Bots
                   PROVE  row[b] + owed[b] <= MaxInRow + stale[b]
        BY DEF LoopEnds
    <2>2. row[b] + owed[b] <= inRow[b] + stale[b] /\ inRow[b] <= MaxInRow
        BY <2>1 DEF PeerInv, RowOK
    <2>3. row[b] \in Nat /\ owed[b] \in Nat /\ inRow[b] \in Nat /\ stale[b] \in Nat
        BY <2>1 DEF PeerInv, PeerTypeOK
    <2>4. QED BY <2>2, <2>3, PeerAssumption
<1>2. QED BY <1>1, PeerInvariant, PTL

\* The turn that the cooldown let through is counted before the next is let
\* through, so that the counts keep the distance the gate asked for.
THEOREM CountsAreSpaced == PeerSpec => []AnswersAreSpaced
<1>1. PeerInv => AnswersAreSpaced
    BY DEF PeerInv
<1>2. QED BY <1>1, PeerInvariant, PTL

\* At the start the hour is empty.
LEMMA InitHour == PeerInit => HourInv
<1> SUFFICES ASSUME PeerInit PROVE HourInv
    OBVIOUS
<1>1. PeerTypeOK
    BY InitPeers DEF PeerInv
<1>2. said = <<>> /\ hourly = <<>> /\ talk = NoBot
    BY DEF PeerInit
<1>3. HourHolds
    BY <1>2 DEF HourHolds
<1>4. Len(said) = 0 /\ Len(hourly) = 0
    BY <1>2
<1>5. Holds(hourly, CountedAt, Len(said), clock, Hour)
    BY <1>4 DEF Holds
<1>6. QED BY <1>1, <1>2, <1>3, <1>5 DEF HourInv, HourOK

\* Counting an answer fills the hour by one.
LEMMA RecordHour ==
    ASSUME HourInv, PeerTypeOK', NEW b \in Bots, talk = b, RecordReply(b),
           clock' = clock, talk' = NoBot
    PROVE  HourInv'
<1> USE PeerAssumption
<1> DEFINE n == Len(said)
<1>1. PeerTypeOK /\ HourOK /\ HourHolds
    BY DEF HourInv
<1>2. /\ n \in Nat /\ CountedAt \in [1..n -> Nat] /\ DOMAIN said = 1..n
      /\ \A i \in 1..n : CountedAt[i] = said[i].at
      /\ hourly \in Seq(Nat) /\ clock \in Nat
    BY <1>1, SaidIs
<1>3. Len(said') = n + 1
    BY <1>1, RecordedIs
<1>4. /\ CountedAt' \in [1..(n + 1) -> Nat] /\ DOMAIN said' = 1..(n + 1)
      /\ \A i \in 1..(n + 1) : CountedAt'[i] = said'[i].at
    <2>1. /\ Len(said') \in Nat /\ CountedAt' \in [1..Len(said') -> Nat]
          /\ DOMAIN said' = 1..Len(said')
          /\ \A i \in 1..Len(said') : CountedAt'[i] = said'[i].at
        <3>1. said' \in Seq([to : Bots, at : Nat])
            BY DEF PeerTypeOK
        <3>2. /\ Len(said') \in Nat /\ DOMAIN said' = 1..Len(said')
              /\ said' \in [1..Len(said') -> [to : Bots, at : Nat]]
            BY <3>1, LenProperties
        <3>3. QED BY <3>2 DEF CountedAt
    <2>2. QED BY <1>3, <2>1
<1>5. CountedAt'[n + 1] = clock /\ \A i \in 1..n : CountedAt'[i] = CountedAt[i]
    <2>1. said'[n + 1] = [to |-> b, at |-> clock] /\ \A i \in 1..n : said'[i] = said[i]
        BY <1>1, RecordedIs
    <2>2. n + 1 \in 1..(n + 1) /\ \A i \in 1..n : i \in 1..(n + 1)
        BY <1>2
    <2>3. QED BY <1>2, <1>4, <2>1, <2>2
<1> HIDE DEF n
<1>6. Holds(hourly', CountedAt', Len(said'), clock', Hour)
    <2>1. Holds(hourly, CountedAt, n, clock, Hour)
        BY <1>1 DEF HourOK, n
    <2>2. hourly' = Append(hourly, clock)
        BY DEF RecordReply
    <2>3. PICK next \in [1..(n + 1) -> Nat] : next = CountedAt'
        BY <1>4
    <2>4. next[n + 1] = clock /\ \A i \in 1..n : next[i] = CountedAt[i]
        BY <1>5, <2>3
    <2>5. Holds(Append(hourly, clock), next, n + 1, clock, Hour)
        BY <1>2, <2>1, <2>3, <2>4, AppendHolds
    <2>6. QED BY <1>3, <2>2, <2>3, <2>5
<1>7. HourHolds'
    <2>1. SUFFICES ASSUME MaxPerHour > 0, NEW j \in DOMAIN said'
                   PROVE  Cardinality({i \in 1..j : said'[j].at - said'[i].at < Hour}) <= MaxPerHour
        BY DEF HourHolds
    <2>2. CASE j \in 1..n
        <3>1. Cardinality({i \in 1..j : said[j].at - said[i].at < Hour}) <= MaxPerHour
            BY <1>1, <1>2, <2>1, <2>2 DEF HourHolds
        <3>2. \A i \in 1..j : said'[i].at = said[i].at /\ said'[j].at = said[j].at
            <4>1. \A i \in 1..n : said'[i] = said[i]
                BY <1>1, RecordedIs DEF n
            <4>2. \A i \in 1..j : i \in 1..n
                BY <1>2, <2>2
            <4>3. QED BY <2>2, <4>1, <4>2
        <3>3. {i \in 1..j : said'[j].at - said'[i].at < Hour}
                 = {i \in 1..j : said[j].at - said[i].at < Hour}
            BY <3>2
        <3>4. QED BY <3>1, <3>3
    <2>3. CASE j = n + 1
        <3>1. PICK next : next = CountedAt'
            OBVIOUS
        <3>2. {i \in 1..j : said'[j].at - said'[i].at < Hour} = Young(next, n + 1, clock, Hour)
            BY <1>4, <1>5, <2>3, <3>1 DEF Young
        <3>3. Cardinality(Young(next, n + 1, clock, Hour))
                 <= Cardinality(Young(CountedAt, n, clock, Hour)) + 1
            BY <1>2, <1>5, <3>1, YoungAndOne
        <3>4. Cardinality(Young(CountedAt, n, clock, Hour)) < MaxPerHour
            BY <1>1, <2>1 DEF HourOK, n
        <3>5. Cardinality(Young(CountedAt, n, clock, Hour)) \in Nat
            BY <1>2, YoungAreCounted
        <3>6. Cardinality(Young(next, n + 1, clock, Hour)) \in Nat
            BY <1>2, YoungAreCounted, n + 1 \in Nat
        <3>7. Cardinality(Young(next, n + 1, clock, Hour)) <= MaxPerHour
            BY <3>3, <3>4, <3>5, <3>6
        <3>8. QED BY <3>2, <3>7
    <2>4. j \in 1..n \/ j = n + 1
        BY <1>2, <1>4, <2>1
    <2>5. QED BY <2>2, <2>3, <2>4
<1>8. QED BY <1>6, <1>7 DEF HourInv, HourOK

\* Each step keeps the hour.
LEMMA HourStep == HourInv /\ PeerTypeOK' /\ [PeerNext]_peerVars => HourInv'
<1> SUFFICES ASSUME HourInv, PeerTypeOK', [PeerNext]_peerVars PROVE HourInv'
    OBVIOUS
<1> USE PeerAssumption
<1>1. PeerTypeOK /\ HourOK /\ HourHolds
    BY DEF HourInv
<1>2. /\ Len(said) \in Nat /\ CountedAt \in [1..Len(said) -> Nat] /\ Len(hourly) \in Nat
      /\ hourly \in Seq(Nat) /\ clock \in Nat
    BY <1>1, SaidIs
<1>3. ASSUME UNCHANGED <<clock, hourly, said>>, talk' = talk \/ talk' = NoBot PROVE HourInv'
    BY <1>1, <1>3 DEF HourInv, HourOK, HourHolds, CountedAt
<1>4. CASE PersonWrites
    BY <1>3, <1>4 DEF PersonWrites
<1>5. CASE Drop
    BY <1>3, <1>5 DEF Drop, budget
<1>6. CASE TimePasses
    <2>1. /\ clock' = clock + 1 /\ UNCHANGED <<hourly, said, talk>>
          /\ clock + 1 \in Nat /\ clock <= clock + 1
        BY <1>2, <1>6 DEF TimePasses, budget
    <2>2. Holds(hourly, CountedAt, Len(said), clock + 1, Hour)
        BY <1>1, <1>2, <2>1, LaterHolds DEF HourOK
    <2>3. /\ Cardinality(Young(CountedAt, Len(said), clock, Hour)) \in Nat
          /\ Cardinality(Young(CountedAt, Len(said), clock + 1, Hour)) \in Nat
          /\ Cardinality(Young(CountedAt, Len(said), clock + 1, Hour))
                <= Cardinality(Young(CountedAt, Len(said), clock, Hour))
        BY <1>2, <2>1, YoungGetFewer
    <2>4. MaxPerHour > 0 /\ talk # NoBot =>
              Cardinality(Young(CountedAt, Len(said), clock + 1, Hour)) < MaxPerHour
        BY <1>1, <2>3 DEF HourOK
    <2>5. HourOK' /\ HourHolds'
        BY <1>1, <2>1, <2>2, <2>4 DEF HourOK, HourHolds, CountedAt
    <2>6. QED BY <2>5 DEF HourInv
<1>7. CASE AgentRestarts
    <2>1. said' = <<>> /\ hourly' = <<>> /\ talk' = NoBot
        BY <1>7 DEF AgentRestarts
    <2>2. Len(said') = 0 /\ Len(hourly') = 0 /\ DOMAIN said' = {}
        BY <2>1
    <2>3. Holds(hourly', CountedAt', Len(said'), clock', Hour)
        BY <2>2 DEF Holds
    <2>4. QED BY <2>1, <2>2, <2>3 DEF HourInv, HourOK, HourHolds
<1>8. ASSUME NEW b \in Bots, BotWrites(b) PROVE HourInv'
    <2>1. /\ hourly' = Fresh(hourly, clock, Hour) /\ UNCHANGED <<clock, said>>
          /\ ~HourIsFull
        BY <1>8, RecentIsFresh DEF BotWrites, Blocked
    <2>2. Holds(Fresh(hourly, clock, Hour), CountedAt, Len(said), clock, Hour)
        BY <1>1, <1>2, TrimHolds DEF HourOK
    <2>3. PICK held \in Seq(Nat) : held = Fresh(hourly, clock, Hour)
        BY <1>2, FreshIs
    <2>4. /\ Cardinality(Young(CountedAt, Len(said), clock, Hour)) \in Nat
          /\ Cardinality(Young(CountedAt, Len(said), clock, Hour)) <= Len(held)
        BY <1>2, <2>2, <2>3, YoungAreHeld
    <2>5. MaxPerHour > 0 => Len(held) < MaxPerHour /\ Len(held) \in Nat
        BY <2>1, <2>3, RecentIsFresh, LenProperties DEF HourIsFull
    <2>6. MaxPerHour > 0 => Cardinality(Young(CountedAt, Len(said), clock, Hour)) < MaxPerHour
        BY <2>4, <2>5
    <2>7. HourOK' /\ HourHolds'
        BY <1>1, <2>1, <2>2, <2>6 DEF HourOK, HourHolds, CountedAt
    <2>8. QED BY <2>7 DEF HourInv
<1>9. ASSUME NEW b \in Bots, Promise(b) PROVE HourInv'
    BY <1>9, RecordHour DEF Promise
<1>10. ASSUME NEW b \in Bots, NEW shown \in BOOLEAN, Say(b, shown) PROVE HourInv'
    BY <1>10, RecordHour DEF Say
<1>11. ASSUME NEW b \in Bots, PostLate(b) \/ LoseLate(b) PROVE HourInv'
    BY <1>3, <1>11 DEF PostLate, LoseLate, budget
<1>12. ASSUME NEW b \in Bots, FailAsking(b) PROVE HourInv'
    BY <1>3, <1>12 DEF FailAsking, budget
<1>13. CASE UNCHANGED peerVars
    BY <1>3, <1>13 DEF peerVars
<1>14. QED
    BY <1>4, <1>5, <1>6, <1>7, <1>8, <1>9, <1>10, <1>11, <1>12, <1>13 DEF PeerNext

\* No hour holds too many answers to bots, wherever it begins: what a turn was
\* let through by stays true until it is counted.
THEOREM HourStaysWhole == PeerSpec => []HourHolds
<1>1. HourInv => HourHolds
    BY DEF HourInv
<1>2. PeerInv => PeerTypeOK
    BY DEF PeerInv
<1>3. QED BY <1>1, <1>2, InitHour, HourStep, PeerInvariant, PTL DEF PeerSpec

-----------------------------------------------------------------------------
(* MemeDecider and RateLimiter.                                            *)

\* The gap counts at most the answers since the last one with a meme, and begins
\* with the turn that is offered one, which is far enough from that answer.
MemeOK ==
    /\ \A i \in DOMAIN sent : sent[i].meme => sinceMeme <= Len(sent) + 1 - i
    /\ reply # NoReply /\ reply.meme =>
          /\ sinceMeme = 0
          /\ \A i \in DOMAIN sent : sent[i].meme => MemeGap <= Len(sent) + 1 - i

PaceInv == PaceTypeOK /\ MemeOK /\ MemesAreSpaced

\* The times of the answers that were sent.
SentAt == [i \in DOMAIN sent |-> sent[i].at]

\* The deque holds the last of them, and a turn that the rules allowed has room.
RateOK ==
    MaxReplies > 0 =>
        /\ Holds(bucket, SentAt, Len(sent), second, Window + 1)
        /\ reply # NoReply /\ ~reply.exempt =>
              Cardinality(Young(SentAt, Len(sent), second, Window + 1)) < MaxReplies

RateInv == PaceTypeOK /\ RateOK /\ RateHolds

\* What the answers that were sent are, as a row of records.
LEMMA SentIs ==
    ASSUME PaceTypeOK
    PROVE  /\ Len(sent) \in Nat /\ DOMAIN sent = 1..Len(sent)
           /\ \A i \in 1..Len(sent) :
                 sent[i].at \in Nat /\ sent[i].meme \in BOOLEAN /\ sent[i].exempt \in BOOLEAN
           /\ SentAt \in [1..Len(sent) -> Nat]
           /\ \A i \in 1..Len(sent) : SentAt[i] = sent[i].at
           /\ bucket \in Seq(Nat) /\ second \in Nat /\ sinceMeme \in Nat
<1>1. /\ sent \in Seq([at : Nat, exempt : BOOLEAN, meme : BOOLEAN]) /\ bucket \in Seq(Nat)
      /\ second \in Nat /\ sinceMeme \in Nat
    BY DEF PaceTypeOK
<1>2. /\ Len(sent) \in Nat /\ DOMAIN sent = 1..Len(sent)
      /\ sent \in [1..Len(sent) -> [at : Nat, exempt : BOOLEAN, meme : BOOLEAN]]
    BY <1>1, LenProperties
<1>3. \A i \in 1..Len(sent) :
          sent[i].at \in Nat /\ sent[i].meme \in BOOLEAN /\ sent[i].exempt \in BOOLEAN
    BY <1>2
<1>4. QED BY <1>1, <1>2, <1>3 DEF SentAt

\* Trimming the bucket is trimming a deque.
LEMMA InWindowIsFresh ==
    ASSUME PaceTypeOK
    PROVE  InWindow(bucket) = Fresh(bucket, second, Window + 1)
<1>1. bucket \in Seq(Nat) /\ second \in Nat /\ Window \in Nat
    BY PaceAssumption DEF PaceTypeOK
<1>2. \A i \in DOMAIN bucket : i \in Nat /\ \A h \in 1..i : h \in DOMAIN bucket /\ bucket[h] \in Nat
    BY <1>1, LenProperties
<1>3. Outdated(bucket) = Aged(bucket, second, Window + 1)
    <2>1. ASSUME NEW i \in DOMAIN bucket, NEW h \in 1..i
          PROVE  second - bucket[h] > Window <=> second - bucket[h] >= Window + 1
        BY <1>1, <1>2
    <2>2. QED BY <2>1 DEF Outdated, Aged
<1>4. QED BY <1>3 DEF InWindow, Fresh

\* An answer that is final is the next in the row.
LEMMA FinalIs ==
    ASSUME PaceTypeOK, Finalize
    PROVE  /\ sent' \in Seq([at : Nat, exempt : BOOLEAN, meme : BOOLEAN]) /\ bucket' \in Seq(Nat)
           /\ Len(sent') = Len(sent) + 1 /\ DOMAIN sent' = 1..(Len(sent) + 1)
           /\ \A i \in 1..Len(sent) : sent'[i] = sent[i]
           /\ sent'[Len(sent) + 1] = [at |-> second, exempt |-> reply.exempt, meme |-> reply.meme]
<1> DEFINE next == [at |-> second, exempt |-> reply.exempt, meme |-> reply.meme]
<1>1. reply \in Reply /\ second \in Nat
    BY DEF PaceTypeOK, Finalize
<1>2. next \in [at : Nat, exempt : BOOLEAN, meme : BOOLEAN]
    BY <1>1 DEF Reply
<1>3. sent' = Append(sent, next) /\ bucket' \in {bucket, Append(bucket, second)}
    BY DEF Finalize
<1>4. sent \in Seq([at : Nat, exempt : BOOLEAN, meme : BOOLEAN]) /\ bucket \in Seq(Nat)
    BY DEF PaceTypeOK
<1> HIDE DEF next
<1>5. bucket' \in Seq(Nat)
    <2>1. Append(bucket, second) \in Seq(Nat)
        BY <1>1, <1>4, AppendProperties
    <2>2. QED BY <1>3, <1>4, <2>1
<1>6. /\ sent' \in Seq([at : Nat, exempt : BOOLEAN, meme : BOOLEAN])
      /\ Len(sent') = Len(sent) + 1
      /\ \A i \in 1..Len(sent) : sent'[i] = sent[i]
      /\ sent'[Len(sent) + 1] = next
    BY <1>2, <1>3, <1>4, AppendProperties
<1>7. DOMAIN sent' = 1..(Len(sent) + 1)
    BY <1>6, LenProperties
<1>8. QED BY <1>5, <1>6, <1>7 DEF next

\* At the start nothing was answered.
LEMMA InitPace == PaceInit => PaceInv
BY PaceAssumption DEF PaceInit, PaceInv, PaceTypeOK, MemeOK, MemesAreSpaced

\* An answer that is final keeps the memes apart.
LEMMA FinalizeMemes == PaceInv /\ Finalize => PaceInv'
<1> SUFFICES ASSUME PaceInv, Finalize PROVE PaceInv'
    OBVIOUS
<1> USE PaceAssumption
<1>1. PaceTypeOK /\ MemeOK /\ MemesAreSpaced /\ reply \in Reply /\ reply # NoReply
    BY DEF PaceInv, PaceTypeOK, Finalize
<1>2. PICK n \in Nat : n = Len(sent) /\ DOMAIN sent = 1..n
    BY <1>1, SentIs
<1>3. DOMAIN sent' = 1..(n + 1) /\ Len(sent') = n + 1 /\ (\A i \in 1..n : sent'[i] = sent[i])
      /\ sent'[n + 1].meme = reply.meme
    BY <1>1, <1>2, FinalIs
<1>4. sinceMeme \in Nat /\ sinceMeme' = sinceMeme + 1 /\ reply' = NoReply
    BY <1>1 DEF Finalize, PaceTypeOK
<1>5. PaceTypeOK'
    BY <1>1, <1>4, FinalIs DEF PaceTypeOK, Finalize
<1>6. MemeOK'
    <2>1. ASSUME NEW i \in 1..n, sent'[i].meme PROVE sinceMeme' <= n + 2 - i
        <3>1. sinceMeme <= n + 1 - i
            BY <1>1, <1>2, <1>3, <2>1 DEF MemeOK
        <3>2. QED BY <1>4, <3>1
    <2>2. ASSUME reply.meme PROVE sinceMeme' <= n + 2 - (n + 1)
        BY <1>1, <1>4, <2>2 DEF MemeOK
    <2>3. ASSUME NEW i \in 1..(n + 1), sent'[i].meme PROVE sinceMeme' <= n + 1 + 1 - i
        BY <1>3, <1>4, <2>1, <2>2, <2>3
    <2>4. QED BY <1>3, <1>4, <2>3 DEF MemeOK
<1>7. MemesAreSpaced'
    <2>1. ASSUME NEW i \in 1..(n + 1), NEW j \in 1..(n + 1), i < j, sent'[i].meme, sent'[j].meme
          PROVE  j - i >= MemeGap
        <3>1. i \in 1..n /\ sent[i].meme
            BY <1>3, <2>1
        <3>2. CASE j \in 1..n
            BY <1>1, <1>2, <1>3, <2>1, <3>1, <3>2 DEF MemesAreSpaced
        <3>3. CASE j = n + 1
            <4>1. MemeGap <= n + 1 - i
                BY <1>1, <1>2, <1>3, <2>1, <3>1, <3>3 DEF MemeOK
            <4>2. QED BY <3>3, <4>1
        <3>4. QED BY <3>2, <3>3
    <2>2. QED BY <1>3, <2>1 DEF MemesAreSpaced
<1>8. QED BY <1>5, <1>6, <1>7 DEF PaceInv

\* Each step of a turn keeps the memes apart.
LEMMA PaceStep == PaceInv /\ [PaceNext]_paceVars => PaceInv'
<1> SUFFICES ASSUME PaceInv, [PaceNext]_paceVars PROVE PaceInv'
    OBVIOUS
<1> USE PaceAssumption DEF PaceInv
<1>1. CASE PassRules
    <2>1. InWindow(bucket) \in Seq(Nat)
        BY InWindowIsFresh, FreshIs, SentIs, Window + 1 \in Nat
    <2>2. reply' \in Reply /\ ~reply'.meme
        BY <1>1 DEF PassRules, Reply
    <2>3. PaceTypeOK'
        BY <1>1, <2>1, <2>2 DEF PassRules, PaceTypeOK
    <2>4. QED BY <1>1, <2>2, <2>3 DEF PassRules, MemeOK, MemesAreSpaced
<1>2. CASE PassPhoto
    <2>1. reply' \in Reply /\ ~reply'.meme
        BY <1>2 DEF PassPhoto, Reply
    <2>2. PaceTypeOK'
        BY <1>2, <2>1 DEF PassPhoto, PaceTypeOK
    <2>3. QED BY <1>2, <2>1, <2>2 DEF PassPhoto, MemeOK, MemesAreSpaced
<1>3. CASE OfferMeme
    <2>1. reply \in Reply /\ reply' = [reply EXCEPT !.meme = TRUE] /\ sinceMeme' = 0
          /\ sinceMeme >= MemeGap /\ UNCHANGED <<second, bucket, sent>>
        BY <1>3 DEF OfferMeme, PaceTypeOK
    <2>2. reply' \in Reply
        BY <2>1 DEF Reply
    <2>3. PaceTypeOK'
        BY <2>1, <2>2 DEF PaceTypeOK
    <2>4. PICK n \in Nat : n = Len(sent) /\ DOMAIN sent = 1..n
        BY SentIs
    <2>5. ASSUME NEW i \in 1..n, sent[i].meme PROVE MemeGap <= n + 1 - i /\ 0 <= n + 1 - i
        <3>1. sinceMeme \in Nat /\ sinceMeme <= n + 1 - i
            BY <2>4, <2>5, SentIs DEF MemeOK
        <3>2. QED BY <2>1, <3>1
    <2>6. MemeOK'
        BY <2>1, <2>4, <2>5 DEF MemeOK
    <2>7. QED BY <2>1, <2>3, <2>6 DEF MemesAreSpaced
<1>4. CASE Finalize
    BY <1>4, FinalizeMemes
<1>5. CASE Refuse
    BY <1>5 DEF Refuse, PaceTypeOK, MemeOK, MemesAreSpaced
<1>6. CASE SecondPasses
    BY <1>6 DEF SecondPasses, PaceTypeOK, MemeOK, MemesAreSpaced
<1>7. CASE PaceRestarts
    BY <1>7 DEF PaceRestarts, PaceTypeOK, MemeOK, MemesAreSpaced
<1>8. CASE UNCHANGED paceVars
    BY <1>8 DEF paceVars, PaceTypeOK, MemeOK, MemesAreSpaced
<1>9. QED BY <1>1, <1>2, <1>3, <1>4, <1>5, <1>6, <1>7, <1>8 DEF PaceNext

\* The types and the memes of every reachable state.
THEOREM PaceInvariant == PaceSpec => []PaceInv
BY InitPace, PaceStep, PTL DEF PaceSpec

\* At the start the window is empty.
LEMMA InitRate == PaceInit => RateInv
<1> SUFFICES ASSUME PaceInit PROVE RateInv
    OBVIOUS
<1>1. PaceTypeOK
    BY InitPace DEF PaceInv
<1>2. sent = <<>> /\ bucket = <<>> /\ reply = NoReply
    BY DEF PaceInit
<1>3. Len(sent) = 0 /\ Len(bucket) = 0
    BY <1>2
<1>4. Holds(bucket, SentAt, Len(sent), second, Window + 1)
    BY <1>3 DEF Holds
<1>5. QED BY <1>1, <1>2, <1>4 DEF RateInv, RateOK, RateHolds

\* An answer that is final fills the window by one.
LEMMA FinalizeRate ==
    ASSUME RateInv, PaceTypeOK', Finalize PROVE RateInv'
<1> USE PaceAssumption
<1>1. PaceTypeOK /\ RateOK /\ RateHolds /\ reply # NoReply
    BY DEF RateInv, Finalize
<1>2. PICK n \in Nat : n = Len(sent)
    BY <1>1, SentIs
<1>3. PICK w \in Nat : w = Window + 1
    OBVIOUS
<1>4. /\ SentAt \in [1..n -> Nat] /\ DOMAIN sent = 1..n /\ bucket \in Seq(Nat) /\ second \in Nat
      /\ \A i \in 1..n : SentAt[i] = sent[i].at /\ sent[i].at \in Nat
    BY <1>1, <1>2, SentIs
<1>5. /\ DOMAIN sent' = 1..(n + 1) /\ Len(sent') = n + 1
      /\ \A i \in 1..n : sent'[i] = sent[i]
      /\ sent'[n + 1] = [at |-> second, exempt |-> reply.exempt, meme |-> reply.meme]
    BY <1>1, <1>2, FinalIs
<1>6. PICK next : next = SentAt'
    OBVIOUS
<1>7. \A i \in 1..(n + 1) : next[i] = sent'[i].at
    BY <1>5, <1>6 DEF SentAt
<1>8. next[n + 1] = second /\ \A i \in 1..n : next[i] = SentAt[i]
    <2>1. n + 1 \in 1..(n + 1) /\ \A i \in 1..n : i \in 1..(n + 1)
        OBVIOUS
    <2>2. QED BY <1>4, <1>5, <1>7, <2>1
<1>9. next \in [1..(n + 1) -> Nat]
    <2>1. next = [i \in 1..(n + 1) |-> sent'[i].at]
        BY <1>5, <1>6 DEF SentAt
    <2>2. \A i \in 1..(n + 1) : next[i] \in Nat
        BY <1>4, <1>8, SMTT(20)
    <2>3. QED BY <2>1, <2>2
<1>10. UNCHANGED second /\ reply' = NoReply
    BY DEF Finalize
<1>11. ASSUME MaxReplies > 0 PROVE Holds(bucket', SentAt', Len(sent'), second', Window + 1)
    <2>1. Holds(bucket, SentAt, n, second, w)
        BY <1>1, <1>2, <1>3, <1>11 DEF RateOK
    <2>2. Holds(Append(bucket, second), next, n + 1, second, w)
        BY <1>4, <1>8, <1>9, <2>1, AppendHolds
    <2>3. bucket' = Append(bucket, second)
        BY <1>11 DEF Finalize
    <2>4. QED BY <1>3, <1>5, <1>6, <1>10, <2>2, <2>3
<1>12. RateHolds'
    <2>1. SUFFICES ASSUME MaxReplies > 0, NEW j \in DOMAIN sent', ~sent'[j].exempt
                   PROVE  Cardinality({i \in 1..j : sent'[j].at - sent'[i].at <= Window}) <= MaxReplies
        BY DEF RateHolds
    <2>2. CASE j \in 1..n
        <3>1. \A i \in 1..j : sent'[i].at = sent[i].at /\ sent'[j].at = sent[j].at
            <4>1. \A i \in 1..j : i \in 1..n
                BY <2>2
            <4>2. QED BY <1>5, <2>2, <4>1
        <3>2. {i \in 1..j : sent'[j].at - sent'[i].at <= Window}
                 = {i \in 1..j : sent[j].at - sent[i].at <= Window}
            BY <3>1
        <3>3. ~sent[j].exempt
            BY <1>5, <2>1, <2>2
        <3>4. Cardinality({i \in 1..j : sent[j].at - sent[i].at <= Window}) <= MaxReplies
            BY <1>1, <1>4, <2>1, <2>2, <3>3 DEF RateHolds
        <3>5. QED BY <3>2, <3>4
    <2>3. CASE j = n + 1
        <3>1. ~reply.exempt
            BY <1>5, <2>1, <2>3
        <3>2. Cardinality(Young(SentAt, n, second, w)) < MaxReplies
            BY <1>1, <1>2, <1>3, <2>1, <3>1 DEF RateOK
        <3>3. {i \in 1..j : sent'[j].at - sent'[i].at <= Window} = Young(next, n + 1, second, w)
            <4>1. \A i \in 1..(n + 1) :
                      /\ sent'[i].at = next[i] /\ next[i] \in Nat
                      /\ sent'[j].at = second
                BY <1>5, <1>7, <1>9, <2>3
            <4>2. \A i \in 1..(n + 1) : second - next[i] <= Window <=> second - next[i] < w
                BY <1>3, <1>4, <4>1
            <4>3. QED BY <2>3, <4>1, <4>2 DEF Young
        <3>4. Cardinality(Young(next, n + 1, second, w))
                 <= Cardinality(Young(SentAt, n, second, w)) + 1
            BY <1>4, <1>8, YoungAndOne
        <3>5. Cardinality(Young(SentAt, n, second, w)) \in Nat
            BY YoungAreCounted
        <3>6. Cardinality(Young(next, n + 1, second, w)) \in Nat
            BY YoungAreCounted, n + 1 \in Nat
        <3>7. Cardinality(Young(next, n + 1, second, w)) <= MaxReplies
            BY <3>2, <3>4, <3>5, <3>6
        <3>8. QED BY <3>3, <3>7
    <2>4. QED BY <1>5, <2>1, <2>2, <2>3
<1>13. RateOK'
    BY <1>10, <1>11 DEF RateOK
<1>14. QED BY <1>12, <1>13 DEF RateInv

\* Each step keeps the rate.
LEMMA RateStep == RateInv /\ PaceTypeOK' /\ [PaceNext]_paceVars => RateInv'
<1> SUFFICES ASSUME RateInv, PaceTypeOK', [PaceNext]_paceVars PROVE RateInv'
    OBVIOUS
<1> USE PaceAssumption
<1>1. PaceTypeOK /\ RateOK /\ RateHolds
    BY DEF RateInv
<1>2. /\ Len(sent) \in Nat /\ SentAt \in [1..Len(sent) -> Nat]
      /\ bucket \in Seq(Nat) /\ second \in Nat /\ Window + 1 \in Nat
    BY <1>1, SentIs
<1>3. CASE PassRules
    <2>1. /\ bucket' = Fresh(bucket, second, Window + 1) /\ UNCHANGED <<second, sent>>
          /\ ~IsLimited /\ InWindow(bucket) = Fresh(bucket, second, Window + 1)
        BY <1>1, <1>3, InWindowIsFresh DEF PassRules
    <2>2. PICK held \in Seq(Nat) : held = Fresh(bucket, second, Window + 1)
        BY <1>2, FreshIs
    <2>3. ASSUME MaxReplies > 0
          PROVE  /\ Holds(held, SentAt, Len(sent), second, Window + 1)
                 /\ Cardinality(Young(SentAt, Len(sent), second, Window + 1)) < MaxReplies
        <3>1. Holds(held, SentAt, Len(sent), second, Window + 1)
            BY <1>1, <1>2, <2>2, <2>3, TrimHolds DEF RateOK
        <3>2. /\ Cardinality(Young(SentAt, Len(sent), second, Window + 1)) \in Nat
              /\ Cardinality(Young(SentAt, Len(sent), second, Window + 1)) <= Len(held)
            BY <1>2, <2>2, <3>1, YoungAreHeld
        <3>3. Len(held) \in Nat /\ Len(held) < MaxReplies
            BY <2>1, <2>2, <2>3, LenProperties DEF IsLimited
        <3>4. QED BY <3>1, <3>2, <3>3
    <2>4. RateOK' /\ RateHolds'
        BY <1>1, <2>1, <2>2, <2>3 DEF RateOK, RateHolds, SentAt
    <2>5. QED BY <2>4 DEF RateInv
<1>4. CASE PassPhoto
    <2>1. UNCHANGED <<second, bucket, sent>> /\ reply'.exempt
        BY <1>4 DEF PassPhoto
    <2>2. QED BY <1>1, <2>1 DEF RateInv, RateOK, RateHolds, SentAt
<1>5. CASE OfferMeme
    <2>1. UNCHANGED <<second, bucket, sent>> /\ reply \in Reply /\ reply # NoReply
          /\ reply' = [reply EXCEPT !.meme = TRUE]
        BY <1>1, <1>5 DEF OfferMeme, PaceTypeOK
    <2>2. reply'.exempt = reply.exempt
        BY <2>1 DEF Reply
    <2>3. QED BY <1>1, <2>1, <2>2 DEF RateInv, RateOK, RateHolds, SentAt
<1>6. CASE Finalize
    BY <1>6, FinalizeRate
<1>7. CASE Refuse
    BY <1>1, <1>7 DEF Refuse, RateInv, RateOK, RateHolds, SentAt
<1>8. CASE SecondPasses
    <2>1. PICK later \in Nat : later = second + 1 /\ second <= later
        BY <1>2
    <2>2. second' = later /\ UNCHANGED <<bucket, sent, reply>>
        BY <1>8, <2>1 DEF SecondPasses
    <2>3. ASSUME MaxReplies > 0
          PROVE  /\ Holds(bucket, SentAt, Len(sent), later, Window + 1)
                 /\ reply # NoReply /\ ~reply.exempt =>
                      Cardinality(Young(SentAt, Len(sent), later, Window + 1)) < MaxReplies
        <3>1. Holds(bucket, SentAt, Len(sent), later, Window + 1)
            BY <1>1, <1>2, <2>1, <2>3, LaterHolds DEF RateOK
        <3>2. /\ Cardinality(Young(SentAt, Len(sent), second, Window + 1)) \in Nat
              /\ Cardinality(Young(SentAt, Len(sent), later, Window + 1)) \in Nat
              /\ Cardinality(Young(SentAt, Len(sent), later, Window + 1))
                    <= Cardinality(Young(SentAt, Len(sent), second, Window + 1))
            BY <1>2, <2>1, YoungGetFewer
        <3>3. QED BY <1>1, <2>3, <3>1, <3>2 DEF RateOK
    <2>4. RateOK' /\ RateHolds'
        BY <1>1, <2>2, <2>3 DEF RateOK, RateHolds, SentAt
    <2>5. QED BY <2>4 DEF RateInv
<1>9. CASE PaceRestarts
    <2>1. sent' = <<>> /\ bucket' = <<>> /\ reply' = NoReply
        BY <1>9 DEF PaceRestarts
    <2>2. Len(sent') = 0 /\ Len(bucket') = 0 /\ DOMAIN sent' = {}
        BY <2>1
    <2>3. Holds(bucket', SentAt', Len(sent'), second', Window + 1)
        BY <2>2 DEF Holds
    <2>4. QED BY <2>1, <2>2, <2>3 DEF RateInv, RateOK, RateHolds
<1>10. CASE UNCHANGED paceVars
    BY <1>1, <1>10 DEF paceVars, RateInv, RateOK, RateHolds, SentAt
<1>11. QED BY <1>3, <1>4, <1>5, <1>6, <1>7, <1>8, <1>9, <1>10 DEF PaceNext

\* The window is not overrun, nor do two memes come close, whatever fails on the
\* way.
THEOREM PaceStaysWhole == PaceSpec => []PaceHolds
<1>1. PaceInv => PaceTypeOK /\ MemesAreSpaced
    BY DEF PaceInv
<1>2. RateInv => RateHolds
    BY DEF RateInv
<1>3. RateHolds /\ MemesAreSpaced => PaceHolds
    BY DEF PaceHolds
<1>4. QED BY <1>1, <1>2, <1>3, InitRate, RateStep, PaceInvariant, PTL DEF PaceSpec

\* The limits on her answers, all at once.
THEOREM LimitsStayWhole == PeerSpec /\ PaceSpec => []LimitsHold
<1>1. LoopEnds /\ HourHolds /\ AnswersAreSpaced /\ PaceHolds => LimitsHold
    BY DEF LimitsHold, PeerLimitsHold
<1>2. QED BY <1>1, BotLoopsEnd, HourStaysWhole, CountsAreSpaced, PaceStaysWhole, PTL
-----------------------------------------------------------------------------
(* CircuitBreaker.                                                         *)

BreakerTypes ==
    /\ tick \in Nat /\ failures \in Nat /\ streak \in Nat /\ trip \in Nat
    /\ openSince \in Nat \cup {NotOpen}
    /\ trip <= tick /\ (openSince # NotOpen => openSince <= tick)

\* The breaker is open exactly during a long streak, and counts the streak until
\* then; it was opened no earlier than the streak was last a reason to, and later
\* only when it had counted to the threshold again.
BreakerInv ==
    /\ BreakerTypes
    /\ streak >= Threshold <=> openSince # NotOpen
    /\ openSince = NotOpen => failures = streak
    /\ streak >= Threshold =>
          trip <= openSince /\ (trip = openSince \/ failures >= Threshold)

\* At the start nothing failed.
LEMMA InitBreaker == BreakerInit => BreakerInv
BY BreakerAssumption DEF BreakerInit, BreakerInv, BreakerTypes

\* Each step keeps the invariant.
LEMMA BreakerStep == BreakerInv /\ [BreakerNext]_breakerVars => BreakerInv'
<1> SUFFICES ASSUME BreakerInv, [BreakerNext]_breakerVars PROVE BreakerInv'
    OBVIOUS
<1> USE BreakerAssumption DEF BreakerInv, BreakerTypes
<1>1. CASE TickPasses
    BY <1>1 DEF TickPasses
<1>2. ASSUME NEW c \in Callers, CallTool(c) PROVE BreakerInv'
    BY <1>2 DEF CallTool
<1>3. ASSUME NEW c \in Callers, RecordSuccess(c) PROVE BreakerInv'
    BY <1>3 DEF RecordSuccess
<1>4. ASSUME NEW c \in Callers, RecordFailure(c) PROVE BreakerInv'
    <2>1. CASE State = "half_open"
        BY <1>4, <2>1 DEF RecordFailure, Observe, State
    <2>2. CASE State # "half_open"
        <3>1. /\ failures' = failures + 1 /\ streak' = streak + 1 /\ tick' = tick
              /\ openSince' = IF failures + 1 >= Threshold THEN tick ELSE openSince
              /\ trip' = IF \/ streak + 1 = Threshold
                            \/ streak >= Threshold /\ tick - trip >= ResetTimeout
                         THEN tick ELSE trip
            BY <1>4, <2>2 DEF RecordFailure, Observe
        <3>2. CASE openSince = NotOpen
            BY <3>1, <3>2
        <3>3. CASE openSince # NotOpen
            <4>1. tick - openSince < ResetTimeout
                BY <2>2, <3>3 DEF State
            <4>2. CASE failures >= Threshold
                BY <3>1, <3>3, <4>2
            <4>3. CASE trip = openSince
                BY <3>1, <3>3, <4>1, <4>3
            <4>4. QED BY <3>3, <4>2, <4>3
        <3>4. QED BY <3>2, <3>3
    <2>3. QED BY <2>1, <2>2
<1>5. CASE UNCHANGED breakerVars
    BY <1>5 DEF breakerVars
<1>6. QED BY <1>1, <1>2, <1>3, <1>4, <1>5 DEF BreakerNext

\* The invariant of the breaker.
THEOREM BreakerInvariant == BreakerSpec => []BreakerInv
BY InitBreaker, BreakerStep, PTL DEF BreakerSpec

\* A server that only fails is left alone, in whatever order its calls come back.
THEOREM StreaksOpen == BreakerSpec => []StreakOpens
<1>1. BreakerInv => StreakOpens
    BY DEF BreakerInv, StreakOpens
<1>2. QED BY <1>1, BreakerInvariant, PTL

\* And it is left alone for the whole pause each time.
THEOREM PausesStayWhole == BreakerSpec => PausesAreWhole
<1>1. BreakerInv /\ [BreakerNext]_breakerVars =>
          [\A c \in Callers :
              CallTool(c) /\ streak >= Threshold => tick - trip >= ResetTimeout]_breakerVars
    <2>1. SUFFICES ASSUME BreakerInv, NEW c \in Callers, CallTool(c), streak >= Threshold
                   PROVE  tick - trip >= ResetTimeout
        OBVIOUS
    <2>2. openSince \in Nat /\ trip <= openSince /\ tick - openSince >= ResetTimeout
        BY <2>1, BreakerAssumption DEF BreakerInv, BreakerTypes, CallTool, State
    <2>3. QED BY <2>1, <2>2, BreakerAssumption DEF BreakerInv, BreakerTypes
<1>2. QED BY <1>1, BreakerInvariant, PTL DEF BreakerSpec, PausesAreWhole
-----------------------------------------------------------------------------
(* Albums: typing, the two invariants of the buffer, and that a flush      *)
(* never sees its photos change.                                           *)

\* The photos that were added are split among the entries, each of one album and
\* named for a photo of its own.
EntriesOK ==
    /\ \A p \in Photos : photo[p] = "added" <=> \E e \in Photos : p \in images[e]
    /\ \A d, e \in Photos : images[d] \cap images[e] # {} => d = e
    /\ \A e \in Photos : images[e] # {} => e \in images[e]
    /\ \A e \in Photos : \A p \in images[e] : Album[p] = Album[e]
    /\ \A e \in Photos : IsFiniteSet(images[e])

\* An entry is buffered, with room for a photo, or its flush has begun.
BufferOK ==
    /\ \A a \in Albums : groups[a] # None =>
          /\ Album[groups[a]] = a
          /\ images[groups[a]] # {}
          /\ Cardinality(images[groups[a]]) < MaxPhotos
    /\ \A e \in Photos :
          /\ flush[e] = "none" <=> images[e] = {} \/ groups[Album[e]] = e
          /\ flush[e] # "killed"

\* A timer to run is the one of a buffered entry, and each of these has one.
TimersOK ==
    /\ \A t \in Photos : timer[t] # "none" => photo[t] = "added"
    /\ \A e \in Photos : task[e] # None => task[e] \in images[e]
    /\ \A a \in Albums : groups[a] # None =>
          task[groups[a]] # None /\ Pending(task[groups[a]])
    /\ \A t \in Photos : Pending(t) =>
          groups[Album[t]] # None /\ t = task[groups[Album[t]]]

AlbumInv == TypeOK /\ EntriesOK /\ BufferOK /\ TimersOK

-----------------------------------------------------------------------------
\* The buffer is empty at the start.
LEMMA InitAlbums == Init => AlbumInv
<1> SUFFICES ASSUME Init PROVE AlbumInv
    OBVIOUS
<1>1. IsFiniteSet({}) /\ Cardinality({}) = 0
    BY FS_EmptySet
<1>2. TypeOK
    BY <1>1, MediaGroupsAssumption DEF Init, TypeOK
<1>3. EntriesOK
    BY <1>1 DEF Init, EntriesOK
<1>4. BufferOK /\ TimersOK
    BY MediaGroupsAssumption DEF Init, BufferOK, TimersOK, Pending
<1>5. QED BY <1>2, <1>3, <1>4 DEF AlbumInv

\* The entry a photo goes to: still unflushed, without the photo, of its album,
\* with room; empty if it is new.
LEMMA EntryHasRoom ==
    ASSUME AlbumInv, NEW p \in Photos, photo[p] = "loading", NEW e, e = EntryFor(p)
    PROVE  /\ e \in Photos /\ Album[e] = Album[p] /\ flush[e] = "none"
           /\ p \notin images[e]
           /\ groups[Album[p]] = None => e = p /\ images[p] = {}
           /\ groups[Album[p]] # None => groups[Album[p]] = e /\ images[e] # {}
           /\ IsFiniteSet(images[e])
           /\ Cardinality(images[e]) \in Nat
           /\ Cardinality(images[e]) < MaxPhotos
<1> USE MediaGroupsAssumption DEF AlbumInv
<1>1. \A d \in Photos : p \notin images[d]
    BY DEF EntriesOK
<1>2. CASE groups[Album[p]] = None
    <2>1. e = p /\ images[p] = {}
        BY <1>1, <1>2 DEF EntryFor, EntriesOK
    <2>2. Cardinality(images[e]) = 0 /\ IsFiniteSet(images[e])
        BY <2>1, FS_EmptySet
    <2>3. flush[e] = "none"
        BY <2>1 DEF BufferOK
    <2>4. QED BY <1>1, <1>2, <2>1, <2>2, <2>3
<1>3. CASE groups[Album[p]] # None
    <2>1. e = groups[Album[p]] /\ e \in Photos /\ Album[p] \in Albums
        BY <1>3 DEF EntryFor, TypeOK
    <2>2. /\ Album[e] = Album[p] /\ images[e] # {} /\ flush[e] = "none"
          /\ Cardinality(images[e]) < MaxPhotos
        BY <1>3, <2>1 DEF BufferOK
    <2>3. IsFiniteSet(images[e]) /\ Cardinality(images[e]) \in Nat
        BY <2>1, FS_CardinalityType DEF EntriesOK
    <2>4. QED BY <1>1, <1>3, <2>1, <2>2, <2>3
<1>4. QED BY <1>2, <1>3

\* Adding a photo to its entry keeps the entries as they should be.
LEMMA BufferEntries ==
    ASSUME AlbumInv, NEW p \in Photos, Buffer(p), NEW e, e = EntryFor(p)
    PROVE  /\ EntriesOK'
           /\ images'[e] = images[e] \cup {p}
           /\ \A d \in Photos : d # e => images'[d] = images[d]
           /\ photo' \in [Photos -> {"new", "loading", "added", "alone", "dropped"}]
           /\ images' \in [Photos -> SUBSET Photos]
           /\ Cardinality(images'[e]) = Cardinality(images[e]) + 1
           /\ photo'[p] = "added"
           /\ \A q \in Photos : q # p => photo'[q] = photo[q]
<1> USE DEF AlbumInv
<1>0. photo[p] = "loading"
    BY DEF Buffer
<1>1. /\ e \in Photos /\ Album[e] = Album[p] /\ p \notin images[e]
      /\ images[e] = {} => e = p
      /\ IsFiniteSet(images[e]) /\ Cardinality(images[e]) \in Nat
    BY <1>0, EntryHasRoom
<1>2. images'[e] = images[e] \cup {p} /\ \A d \in Photos : d # e => images'[d] = images[d]
    BY <1>1 DEF Buffer, TypeOK
<1>3. photo'[p] = "added" /\ \A q \in Photos : q # p => photo'[q] = photo[q]
    BY DEF Buffer, TypeOK
<1>4. /\ photo' \in [Photos -> {"new", "loading", "added", "alone", "dropped"}]
      /\ images' \in [Photos -> SUBSET Photos]
    BY <1>1 DEF Buffer, TypeOK
<1>5. IsFiniteSet(images'[e]) /\ Cardinality(images'[e]) = Cardinality(images[e]) + 1
    BY <1>1, <1>2, FS_AddElement
<1>6. \A d \in Photos : p \notin images[d]
    BY <1>0 DEF EntriesOK
<1>7. EntriesOK'
    <2>1. \A q \in Photos : photo'[q] = "added" <=> \E d \in Photos : q \in images'[d]
        <3>1. ASSUME NEW q \in Photos, q # p
              PROVE  \A d \in Photos : q \in images'[d] <=> q \in images[d]
            BY <1>1, <1>2, <3>1
        <3>2. QED BY <1>1, <1>2, <1>3, <3>1 DEF EntriesOK
    <2>2. \A d, f \in Photos : images'[d] \cap images'[f] # {} => d = f
        BY <1>1, <1>2, <1>6 DEF EntriesOK
    <2>3. \A d \in Photos : images'[d] # {} => d \in images'[d]
        BY <1>1, <1>2 DEF EntriesOK
    <2>4. \A d \in Photos : \A q \in images'[d] : Album[q] = Album[d]
        BY <1>1, <1>2 DEF EntriesOK
    <2>5. \A d \in Photos : IsFiniteSet(images'[d])
        BY <1>2, <1>5 DEF EntriesOK
    <2>6. QED BY <2>1, <2>2, <2>3, <2>4, <2>5 DEF EntriesOK
<1>8. QED BY <1>2, <1>3, <1>4, <1>5, <1>7

\* The timers of entry e, cancelled: the others go on, none of e's is to run.
LEMMA CancelledTimers ==
    ASSUME AlbumInv, NEW e \in Photos, NEW a \in Albums, Album[e] = a,
           groups[a] \in {e, None}
    PROVE  /\ Cancelled(e) \in [Photos -> {"none", "asleep", "awake", "cancelled",
                                          "flushing", "done"}]
           /\ \A t \in Photos : Cancelled(e)[t] # "none" => photo[t] = "added"
           /\ \A t \in Photos : Album[t] # a => Cancelled(e)[t] = timer[t]
           /\ \A t \in Photos : Album[t] = a => Cancelled(e)[t] \notin {"asleep", "awake"}
<1> USE DEF AlbumInv
<1>1. Cancelled(e) \in [Photos -> {"none", "asleep", "awake", "cancelled",
                                   "flushing", "done"}]
    BY DEF Cancelled, TypeOK
<1>2. \A t \in Photos : Cancelled(e)[t] =
                            IF t = task[e] /\ Pending(t) THEN "cancelled" ELSE timer[t]
    BY DEF Cancelled
<1>3. \A t \in Photos : Pending(t) => timer[t] # "none"
    BY DEF Pending
<1>4. \A t \in Photos : Pending(t) /\ t = task[e] => Album[t] = a
    BY MediaGroupsAssumption DEF TimersOK, EntriesOK
<1>5. \A t \in Photos : Album[t] = a /\ Pending(t) => t = task[e]
    BY MediaGroupsAssumption DEF TimersOK
<1>6. QED BY <1>1, <1>2, <1>3, <1>4, <1>5 DEF TimersOK, Pending

\* A photo that leaves room starts the timer of its entry again.
LEMMA AddStep ==
    ASSUME AlbumInv, NEW p \in Photos, Add(p)
    PROVE  AlbumInv'
<1> USE MediaGroupsAssumption DEF AlbumInv
<1>1. PICK e : e = EntryFor(p)
    OBVIOUS
<1>2. Buffer(p) /\ photo[p] = "loading" /\ ~Fills(e)
    BY <1>1 DEF Add, Buffer
<1>3. /\ e \in Photos /\ Album[e] = Album[p] /\ flush[e] = "none" /\ p \notin images[e]
      /\ groups[Album[p]] \in {e, None}
      /\ Cardinality(images[e]) \in Nat
    BY <1>1, <1>2, EntryHasRoom
<1>4. /\ EntriesOK'
      /\ images'[e] = images[e] \cup {p}
      /\ \A d \in Photos : d # e => images'[d] = images[d]
      /\ photo' \in [Photos -> {"new", "loading", "added", "alone", "dropped"}]
      /\ images' \in [Photos -> SUBSET Photos]
      /\ Cardinality(images'[e]) = Cardinality(images[e]) + 1
      /\ photo'[p] = "added"
      /\ \A q \in Photos : q # p => photo'[q] = photo[q]
    BY <1>1, <1>2, BufferEntries
<1>5. /\ groups' = [groups EXCEPT ![Album[p]] = e]
      /\ timer' = [Cancelled(e) EXCEPT ![p] = "asleep"]
      /\ task' = [task EXCEPT ![e] = p]
      /\ flush' = flush
    BY <1>1 DEF Add
<1>6. /\ Cancelled(e) \in [Photos -> {"none", "asleep", "awake", "cancelled",
                                       "flushing", "done"}]
      /\ \A t \in Photos : Cancelled(e)[t] # "none" => photo[t] = "added"
      /\ \A t \in Photos : Album[t] # Album[p] => Cancelled(e)[t] = timer[t]
      /\ \A t \in Photos : Album[t] = Album[p] => Cancelled(e)[t] \notin {"asleep", "awake"}
    BY <1>3, CancelledTimers
<1>7. /\ timer'[p] = "asleep" /\ \A t \in Photos : t # p => timer'[t] = Cancelled(e)[t]
      /\ task'[e] = p /\ \A d \in Photos : d # e => task'[d] = task[d]
      /\ groups'[Album[p]] = e
      /\ \A a \in Albums : a # Album[p] => groups'[a] = groups[a]
    BY <1>3, <1>5, <1>6 DEF TypeOK
<1>8. Cardinality(images'[e]) < MaxPhotos
    BY <1>2, <1>3, <1>4 DEF Fills
<1>9. TypeOK'
    <2>1. \A d \in Photos : Cardinality(images'[d]) <= MaxPhotos
        <3>1. Cardinality(images'[e]) <= MaxPhotos
            BY <1>3, <1>4, <1>8
        <3>2. \A d \in Photos : Cardinality(images[d]) <= MaxPhotos
            BY DEF TypeOK
        <3>3. QED BY <1>4, <3>1, <3>2
    <2>2. groups' \in [Albums -> Photos \cup {None}] /\ task' \in [Photos -> Photos \cup {None}]
        BY <1>3, <1>5 DEF TypeOK
    <2>3. timer' \in [Photos -> {"none", "asleep", "awake", "cancelled", "flushing", "done"}]
        BY <1>5, <1>6
    <2>4. QED BY <1>4, <1>5, <2>1, <2>2, <2>3 DEF TypeOK
<1>10. BufferOK'
    <2>1. \A a \in Albums : groups'[a] # None =>
             /\ Album[groups'[a]] = a
             /\ images'[groups'[a]] # {}
             /\ Cardinality(images'[groups'[a]]) < MaxPhotos
        <3>1. ASSUME NEW a \in Albums, a # Album[p], groups[a] # None
              PROVE  groups[a] \in Photos /\ groups[a] # e /\ groups'[a] = groups[a]
            BY <1>3, <1>7, <3>1 DEF BufferOK, TypeOK
        <3>2. ASSUME NEW a \in Albums, a # Album[p], groups[a] # None
              PROVE  /\ Album[groups'[a]] = a
                     /\ images'[groups'[a]] # {}
                     /\ Cardinality(images'[groups'[a]]) < MaxPhotos
            BY <1>4, <3>1, <3>2 DEF BufferOK
        <3>3. QED BY <1>3, <1>4, <1>7, <1>8, <3>2
    <2>2. \A d \in Photos :
             /\ flush'[d] = "none" <=> images'[d] = {} \/ groups'[Album[d]] = d
             /\ flush'[d] # "killed"
        <3>1. flush'[e] = "none" /\ groups'[Album[e]] = e
            BY <1>3, <1>5, <1>7
        <3>2. ASSUME NEW d \in Photos, d # e
              PROVE  groups'[Album[d]] = d <=> groups[Album[d]] = d
            BY <1>3, <1>7, <3>2, EntryHasRoom
        <3>3. QED BY <1>4, <1>5, <3>1, <3>2 DEF BufferOK
    <2>3. QED BY <2>1, <2>2 DEF BufferOK
<1>11. TimersOK'
    <2>1. \A t \in Photos : timer'[t] # "none" => photo'[t] = "added"
        BY <1>4, <1>6, <1>7 DEF TimersOK
    <2>2. \A d \in Photos : task'[d] # None => task'[d] \in images'[d]
        BY <1>3, <1>4, <1>7 DEF TimersOK
    <2>3. \A a \in Albums : groups'[a] # None =>
             task'[groups'[a]] # None /\ timer'[task'[groups'[a]]] \in {"asleep", "awake"}
        <3>1. ASSUME NEW a \in Albums, a # Album[p], groups[a] # None
              PROVE  /\ task'[groups[a]] # None
                     /\ timer'[task'[groups[a]]] \in {"asleep", "awake"}
            <4>1. groups[a] \in Photos /\ Album[groups[a]] = a /\ groups[a] # e
                BY <1>3, <3>1 DEF BufferOK, TypeOK
            <4>2. task'[groups[a]] = task[groups[a]] /\ task[groups[a]] # None
                BY <1>7, <3>1, <4>1 DEF TimersOK
            <4>3. task[groups[a]] \in Photos /\ Album[task[groups[a]]] = a
                BY <4>1, <4>2 DEF TimersOK, EntriesOK, TypeOK
            <4>4. Pending(task[groups[a]])
                BY <3>1 DEF TimersOK
            <4>5. QED BY <1>6, <1>7, <3>1, <4>2, <4>3, <4>4 DEF Pending
        <3>2. QED BY <1>7, <3>1
    <2>4. \A t \in Photos : timer'[t] \in {"asleep", "awake"} =>
             groups'[Album[t]] # None /\ t = task'[groups'[Album[t]]]
        <3>1. ASSUME NEW t \in Photos, Album[t] = Album[p],
                     timer'[t] \in {"asleep", "awake"}
              PROVE  t = p
            BY <1>6, <1>7, <3>1
        <3>2. ASSUME NEW t \in Photos, Album[t] # Album[p],
                     timer'[t] \in {"asleep", "awake"}
              PROVE  groups'[Album[t]] # None /\ t = task'[groups'[Album[t]]]
            <4>1. Pending(t)
                BY <1>6, <1>7, <3>2 DEF Pending
            <4>2. groups[Album[t]] # None /\ t = task[groups[Album[t]]]
                BY <4>1 DEF TimersOK
            <4>3. Album[groups[Album[t]]] = Album[t] /\ groups[Album[t]] \in Photos
                BY <4>2 DEF BufferOK, TypeOK
            <4>4. QED BY <1>3, <1>7, <3>2, <4>2, <4>3
        <3>3. QED BY <1>3, <1>7, <3>1, <3>2
    <2>5. QED BY <2>1, <2>2, <2>3, <2>4 DEF TimersOK, Pending
<1>12. QED BY <1>4, <1>9, <1>10, <1>11

\* The photo that fills its entry takes it from the buffer, with its timer.
LEMMA AddLastStep ==
    ASSUME AlbumInv, NEW p \in Photos, AddLast(p)
    PROVE  AlbumInv'
<1> USE MediaGroupsAssumption DEF AlbumInv
<1>1. PICK e : e = EntryFor(p)
    OBVIOUS
<1>2. Buffer(p) /\ photo[p] = "loading"
    BY <1>1 DEF AddLast, Buffer
<1>3. /\ e \in Photos /\ Album[e] = Album[p] /\ flush[e] = "none" /\ p \notin images[e]
      /\ groups[Album[p]] \in {e, None}
      /\ Cardinality(images[e]) \in Nat /\ Cardinality(images[e]) < MaxPhotos
    BY <1>1, <1>2, EntryHasRoom
<1>4. /\ EntriesOK'
      /\ images'[e] = images[e] \cup {p}
      /\ \A d \in Photos : d # e => images'[d] = images[d]
      /\ photo' \in [Photos -> {"new", "loading", "added", "alone", "dropped"}]
      /\ images' \in [Photos -> SUBSET Photos]
      /\ Cardinality(images'[e]) = Cardinality(images[e]) + 1
      /\ photo'[p] = "added"
      /\ \A q \in Photos : q # p => photo'[q] = photo[q]
    BY <1>1, <1>2, BufferEntries
<1>5. /\ groups' = [groups EXCEPT ![Album[p]] = None]
      /\ timer' = Cancelled(e)
      /\ task' = task
      /\ flush' = [flush EXCEPT ![e] = "running"]
    BY <1>1 DEF AddLast
<1>6. /\ timer' \in [Photos -> {"none", "asleep", "awake", "cancelled", "flushing", "done"}]
      /\ \A t \in Photos : timer'[t] # "none" => photo[t] = "added"
      /\ \A t \in Photos : Album[t] # Album[p] => timer'[t] = timer[t]
      /\ \A t \in Photos : Album[t] = Album[p] => timer'[t] \notin {"asleep", "awake"}
    BY <1>3, <1>5, CancelledTimers
<1>7. /\ groups'[Album[p]] = None
      /\ \A a \in Albums : a # Album[p] => groups'[a] = groups[a]
      /\ flush'[e] = "running" /\ \A d \in Photos : d # e => flush'[d] = flush[d]
    BY <1>3, <1>5 DEF TypeOK
<1>8. ASSUME NEW a \in Albums, groups'[a] # None
      PROVE  /\ a # Album[p] /\ groups[a] # None /\ groups'[a] = groups[a]
             /\ groups[a] \in Photos /\ groups[a] # e /\ Album[groups[a]] = a
             /\ images'[groups[a]] = images[groups[a]]
    <2>1. a # Album[p] /\ groups'[a] = groups[a]
        BY <1>7, <1>8
    <2>2. groups[a] \in Photos /\ Album[groups[a]] = a
        BY <1>8, <2>1 DEF BufferOK, TypeOK
    <2>3. QED BY <1>3, <1>4, <1>8, <2>1, <2>2
<1>9. TypeOK'
    <2>1. \A d \in Photos : Cardinality(images'[d]) <= MaxPhotos
        <3>1. Cardinality(images'[e]) <= MaxPhotos
            BY <1>3, <1>4
        <3>2. \A d \in Photos : Cardinality(images[d]) <= MaxPhotos
            BY DEF TypeOK
        <3>3. QED BY <1>4, <3>1, <3>2
    <2>2. groups' \in [Albums -> Photos \cup {None}]
        BY <1>5 DEF TypeOK
    <2>3. flush' \in [Photos -> {"none", "running", "done", "killed"}]
        BY <1>5 DEF TypeOK
    <2>4. QED BY <1>4, <1>5, <1>6, <2>1, <2>2, <2>3 DEF TypeOK
<1>10. BufferOK'
    <2>1. \A a \in Albums : groups'[a] # None =>
             /\ Album[groups'[a]] = a
             /\ images'[groups'[a]] # {}
             /\ Cardinality(images'[groups'[a]]) < MaxPhotos
        BY <1>8 DEF BufferOK
    <2>2. \A d \in Photos :
             /\ flush'[d] = "none" <=> images'[d] = {} \/ groups'[Album[d]] = d
             /\ flush'[d] # "killed"
        <3>1. flush'[e] = "running" /\ images'[e] # {} /\ groups'[Album[e]] # e
            BY <1>3, <1>4, <1>7
        <3>2. ASSUME NEW d \in Photos, d # e
              PROVE  groups'[Album[d]] = d <=> groups[Album[d]] = d
            BY <1>3, <1>7, <3>2
        <3>3. QED BY <1>4, <1>7, <3>1, <3>2 DEF BufferOK
    <2>3. QED BY <2>1, <2>2 DEF BufferOK
<1>11. TimersOK'
    <2>1. \A t \in Photos : timer'[t] # "none" => photo'[t] = "added"
        BY <1>4, <1>6
    <2>2. \A d \in Photos : task'[d] # None => task'[d] \in images'[d]
        BY <1>4, <1>5 DEF TimersOK
    <2>3. \A a \in Albums : groups'[a] # None =>
             task'[groups'[a]] # None /\ timer'[task'[groups'[a]]] \in {"asleep", "awake"}
        <3>1. ASSUME NEW a \in Albums, groups'[a] # None
              PROVE  /\ task[groups[a]] # None
                     /\ timer'[task[groups[a]]] \in {"asleep", "awake"}
            <4>1. Pending(task[groups[a]]) /\ task[groups[a]] # None
                BY <1>8, <3>1 DEF TimersOK
            <4>2. task[groups[a]] \in Photos /\ Album[task[groups[a]]] = a
                BY <1>8, <3>1, <4>1 DEF TimersOK, EntriesOK, TypeOK
            <4>3. QED BY <1>6, <1>8, <3>1, <4>1, <4>2 DEF Pending
        <3>2. QED BY <1>5, <1>8, <3>1
    <2>4. \A t \in Photos : timer'[t] \in {"asleep", "awake"} =>
             groups'[Album[t]] # None /\ t = task'[groups'[Album[t]]]
        <3>1. ASSUME NEW t \in Photos, timer'[t] \in {"asleep", "awake"}
              PROVE  groups'[Album[t]] # None /\ t = task'[groups'[Album[t]]]
            <4>1. Album[t] # Album[p] /\ Pending(t)
                BY <1>6, <3>1 DEF Pending
            <4>2. groups[Album[t]] # None /\ t = task[groups[Album[t]]]
                BY <4>1 DEF TimersOK
            <4>3. QED BY <1>5, <1>7, <4>1, <4>2
        <3>2. QED BY <3>1
    <2>5. QED BY <2>1, <2>2, <2>3, <2>4 DEF TimersOK, Pending
<1>12. QED BY <1>4, <1>9, <1>10, <1>11

\* A timer that runs takes its own entry, and leaves no timer in the album.
LEMMA FlushStep ==
    ASSUME AlbumInv, NEW t \in Photos, Flush(t)
    PROVE  AlbumInv'
<1> USE MediaGroupsAssumption DEF AlbumInv
<1>1. PICK e : e = EntryOf(t)
    OBVIOUS
<1>2. timer[t] = "awake" /\ groups[Album[t]] = e
    BY <1>1 DEF Flush
<1>3. groups[Album[t]] # None /\ t = task[groups[Album[t]]] /\ photo[t] = "added"
    BY <1>2 DEF TimersOK, Pending
<1>4. e \in Photos /\ Album[e] = Album[t] /\ images[e] # {}
    BY <1>2, <1>3 DEF BufferOK, TypeOK
<1>5. /\ groups' = [groups EXCEPT ![Album[t]] = None]
      /\ timer' = [timer EXCEPT ![t] = "flushing"]
      /\ flush' = [flush EXCEPT ![e] = "running"]
      /\ UNCHANGED <<photo, images, task>>
    BY <1>1 DEF Flush
<1>6. /\ groups'[Album[t]] = None
      /\ \A a \in Albums : a # Album[t] => groups'[a] = groups[a]
      /\ flush'[e] = "running" /\ \A d \in Photos : d # e => flush'[d] = flush[d]
      /\ timer'[t] = "flushing" /\ \A u \in Photos : u # t => timer'[u] = timer[u]
    BY <1>4, <1>5 DEF TypeOK
<1>7. TypeOK' /\ EntriesOK'
    BY <1>5 DEF TypeOK, EntriesOK
<1>8. BufferOK'
    BY <1>2, <1>4, <1>5, <1>6 DEF BufferOK
<1>9. TimersOK'
    <2>1. \A u \in Photos : timer'[u] # "none" => photo'[u] = "added"
        BY <1>3, <1>5, <1>6 DEF TimersOK
    <2>2. \A d \in Photos : task'[d] # None => task'[d] \in images'[d]
        BY <1>5 DEF TimersOK
    <2>3. ASSUME NEW a \in Albums, groups'[a] # None
          PROVE  /\ task'[groups'[a]] # None
                 /\ timer'[task'[groups'[a]]] \in {"asleep", "awake"}
        <3>1. a # Album[t] /\ groups'[a] = groups[a] /\ groups[a] # None
            BY <1>6, <2>3
        <3>2. groups[a] \in Photos /\ Album[groups[a]] = a
            BY <3>1 DEF BufferOK, TypeOK
        <3>3. task[groups[a]] # None /\ Pending(task[groups[a]])
            BY <3>1 DEF TimersOK
        <3>4. task[groups[a]] \in Photos /\ Album[task[groups[a]]] = a
            BY <3>2, <3>3 DEF TimersOK, EntriesOK, TypeOK
        <3>5. QED BY <1>5, <1>6, <3>1, <3>3, <3>4 DEF Pending
    <2>4. ASSUME NEW u \in Photos, timer'[u] \in {"asleep", "awake"}
          PROVE  groups'[Album[u]] # None /\ u = task'[groups'[Album[u]]]
        <3>1. u # t /\ Pending(u)
            BY <1>6, <2>4 DEF Pending
        <3>2. groups[Album[u]] # None /\ u = task[groups[Album[u]]]
            BY <3>1 DEF TimersOK
        <3>3. Album[u] # Album[t]
            BY <1>3, <3>1, <3>2
        <3>4. QED BY <1>5, <1>6, <3>2, <3>3
    <2>5. QED BY <2>1, <2>2, <2>3, <2>4 DEF TimersOK, Pending
<1>10. QED BY <1>7, <1>8, <1>9

\* Every step keeps the buffer as it should be.
LEMMA StepAlbums == AlbumInv /\ [Next]_vars => AlbumInv'
<1> SUFFICES ASSUME AlbumInv, [Next]_vars PROVE AlbumInv'
    OBVIOUS
<1> USE DEF AlbumInv
<1>1. ASSUME NEW p \in Photos, Arrive(p) \/ LoadFails(p) PROVE AlbumInv'
    <2>1. photo' \in [Photos -> {"new", "loading", "added", "alone", "dropped"}]
        BY <1>1 DEF Arrive, LoadFails, TypeOK
    <2>2. UNCHANGED <<groups, images, task, timer, flush>>
        BY <1>1 DEF Arrive, LoadFails
    <2>3. \A q \in Photos : photo'[q] = "added" <=> photo[q] = "added"
        BY <1>1 DEF Arrive, LoadFails, TypeOK
    <2>4. TypeOK' /\ EntriesOK'
        BY <2>1, <2>2, <2>3 DEF TypeOK, EntriesOK
    <2>5. BufferOK' /\ TimersOK'
        BY <2>2, <2>3 DEF BufferOK, TimersOK, Pending
    <2>6. QED BY <2>4, <2>5
<1>2. ASSUME NEW t \in Photos, Wake(t) PROVE AlbumInv'
    <2>1. /\ timer' \in [Photos -> {"none", "asleep", "awake", "cancelled", "flushing", "done"}]
          /\ UNCHANGED <<photo, groups, images, task, flush>>
        BY <1>2 DEF Wake, TypeOK
    <2>2. \A u \in Photos : /\ timer'[u] \in {"asleep", "awake"} <=> Pending(u)
                            /\ timer'[u] # "none" <=> timer[u] # "none"
        BY <1>2 DEF Wake, Pending, TypeOK
    <2>3. TypeOK' /\ EntriesOK' /\ BufferOK'
        BY <2>1 DEF TypeOK, EntriesOK, BufferOK
    <2>4. \A a \in Albums : groups[a] # None => task[groups[a]] \in Photos
        BY DEF TimersOK, TypeOK
    <2>5. TimersOK'
        BY <2>1, <2>2, <2>4 DEF TimersOK, Pending
    <2>6. QED BY <2>3, <2>5
<1>3. ASSUME NEW e \in Photos, FlushEnds(e) PROVE AlbumInv'
    <2>1. /\ timer' \in [Photos -> {"none", "asleep", "awake", "cancelled", "flushing", "done"}]
          /\ flush' = [flush EXCEPT ![e] = "done"] /\ flush[e] = "running"
          /\ UNCHANGED <<photo, groups, images, task>>
        BY <1>3 DEF FlushEnds, TypeOK
    <2>2. \A u \in Photos : /\ timer'[u] \in {"asleep", "awake"} <=> Pending(u)
                            /\ timer'[u] # "none" <=> timer[u] # "none"
        BY <1>3 DEF FlushEnds, Pending
    <2>3. TypeOK' /\ EntriesOK'
        BY <2>1 DEF TypeOK, EntriesOK
    <2>4. \A d \in Photos : flush'[d] = IF d = e THEN "done" ELSE flush[d]
        BY <2>1 DEF TypeOK
    <2>5. BufferOK'
        BY <2>1, <2>4 DEF BufferOK
    <2>6. \A a \in Albums : groups[a] # None => task[groups[a]] \in Photos
        BY DEF TimersOK, TypeOK
    <2>7. TimersOK'
        BY <2>1, <2>2, <2>6 DEF TimersOK, Pending
    <2>8. QED BY <2>3, <2>5, <2>7
<1>4. CASE UNCHANGED vars
    BY <1>4 DEF vars, TypeOK, EntriesOK, BufferOK, TimersOK, Pending
<1>5. QED
    BY <1>1, <1>2, <1>3, <1>4, AddStep, AddLastStep, FlushStep DEF Next

-----------------------------------------------------------------------------
(* The theorems *)

\* The entries split the added photos, each entry is buffered or flushed, and the
\* timers to run are those of the buffered entries.
THEOREM AlbumInvariant == Spec => []AlbumInv
BY InitAlbums, StepAlbums, PTL DEF Spec

\* Every photo that was added is in one entry, which is buffered or has its one
\* flush, for albums of any size and any cap.
THEOREM PhotosArePlaced == Spec => []PhotosHaveOnePlace
<1>1. AlbumInv => PhotosHaveOnePlace
    <2> SUFFICES ASSUME AlbumInv, NEW p \in Photos, photo[p] = "added"
                 PROVE  \E e \in Photos :
                           /\ {d \in Photos : p \in images[d]} = {e}
                           /\ groups[Album[p]] = e <=> flush[e] = "none"
                           /\ flush[e] # "killed"
        BY DEF PhotosHaveOnePlace
    <2>1. PICK e \in Photos : p \in images[e]
        BY DEF AlbumInv, EntriesOK
    <2>2. {d \in Photos : p \in images[d]} = {e} /\ Album[p] = Album[e]
        BY <2>1 DEF AlbumInv, EntriesOK
    <2>3. QED BY <2>1, <2>2 DEF AlbumInv, BufferOK
<1>2. QED BY <1>1, AlbumInvariant, PTL

\* A buffered entry has one timer to run, its own, and there is no other.
THEOREM TimersAreOwned == Spec => []BufferedHasItsTimer
<1>1. AlbumInv => BufferedHasItsTimer
    <2> SUFFICES ASSUME AlbumInv, NEW a \in Albums
                 PROVE  {t \in Photos : Album[t] = a /\ Pending(t)}
                            = IF groups[a] = None THEN {} ELSE {task[groups[a]]}
        BY DEF BufferedHasItsTimer
    <2> USE MediaGroupsAssumption DEF AlbumInv
    <2>1. CASE groups[a] = None
        BY <2>1 DEF TimersOK
    <2>2. CASE groups[a] # None
        <3>1. groups[a] \in Photos /\ Album[groups[a]] = a
            BY <2>2 DEF BufferOK, TypeOK
        <3>2. task[groups[a]] \in images[groups[a]] /\ Pending(task[groups[a]])
            BY <2>2, <3>1 DEF TimersOK
        <3>3. task[groups[a]] \in Photos /\ Album[task[groups[a]]] = a
            BY <3>1, <3>2 DEF EntriesOK, TypeOK
        <3>4. \A t \in Photos : Album[t] = a /\ Pending(t) => t = task[groups[a]]
            BY DEF TimersOK
        <3>5. QED BY <2>2, <3>2, <3>3, <3>4
    <2>3. QED BY <2>1, <2>2
<1>2. QED BY <1>1, AlbumInvariant, PTL

\* The photos of a turn do not change once its flush began.
THEOREM FlushesAreWhole == Spec => FlushedStaysWhole
<1>1. AlbumInv /\ [Next]_vars =>
         \A e \in Photos : flush[e] # "none" => images'[e] = images[e]
    <2> SUFFICES ASSUME AlbumInv, [Next]_vars, NEW e \in Photos, flush[e] # "none"
                 PROVE  images'[e] = images[e]
        OBVIOUS
    <2>1. ASSUME NEW p \in Photos, Buffer(p) PROVE images'[e] = images[e]
        <3>1. PICK d : d = EntryFor(p)
            OBVIOUS
        <3>2. d # e
            BY <2>1, <3>1, EntryHasRoom DEF Buffer
        <3>3. QED BY <2>1, <3>1, <3>2, BufferEntries
    <2>2. QED
        BY <2>1 DEF Next, Arrive, LoadFails, Add, AddLast, Wake, Flush, FlushEnds, vars
<1>2. AlbumInv /\ [Next]_vars =>
         [\A e \in Photos : flush[e] # "none" => images'[e] = images[e]]_vars
    BY <1>1
<1>3. QED BY <1>2, AlbumInvariant, PTL DEF Spec, FlushedStaysWhole
\* Photos, entries and timers belong together at every moment.
THEOREM AlbumsStayOwned == Spec => []AlbumsAreOwned
<1>1. AlbumsAreOwned <=> PhotosHaveOnePlace /\ BufferedHasItsTimer
    BY DEF AlbumsAreOwned
<1>2. QED BY <1>1, PhotosArePlaced, TimersAreOwned, PTL

-----------------------------------------------------------------------------
(* The requests of a reply                                                 *)

\* What the attempts of a generation, and those of the one before, may cost.
Spent(s, n, twice) == (IF twice THEN 2 * (MaxRetries + 1) ELSE 0) + 2 * n + (IF s THEN 1 ELSE 0)
Unasked == attempt = 0 /\ strict = FALSE /\ again = FALSE /\ calls = 0
Asking == phase = "calling"
CallsInv ==
    /\ attempt \in 0..MaxRetries /\ strict \in BOOLEAN /\ again \in BOOLEAN /\ calls \in Nat
    /\ Asking => calls <= Spent(strict, attempt, again)
    /\ ~Asking => Unasked

\* Once the asking is over, nothing is counted.
LEMMA UnaskedIsFine ==
    ASSUME ~Asking', Unasked'
    PROVE  CallsInv'
<1>1. attempt' \in 0..MaxRetries /\ calls' \in Nat
    BY ComposeAssumption DEF Unasked
<1>2. strict' \in BOOLEAN /\ again' \in BOOLEAN
    BY Zenon DEF Unasked
<1>3. QED
    BY <1>1, <1>2, Zenon DEF CallsInv

\* A reply that is settled ends the asking.
LEMMA SettledIsUnasked ==
    ASSUME CallsInv, NEW r, NEW t, Settle(r, t)
    PROVE  CallsInv'
<1>1. ~Asking'
    BY DEF Settle, Asking
<1>2. Unasked'
    BY DEF Settle, Generated, Unasked
<1>3. QED
    BY <1>1, <1>2, UnaskedIsFine

\* An answer of the model costs a strict request, a second generation, or none.
LEMMA RespondCosts ==
    ASSUME CallsInv, NEW o \in Outputs, Respond(o)
    PROVE  CallsInv'
<1>1. MaxRetries \in Nat
    BY ComposeAssumption
<1>2. /\ Asking /\ calls \in Nat /\ calls <= Spent(strict, attempt, again)
      /\ attempt \in 0..MaxRetries /\ strict \in BOOLEAN /\ again \in BOOLEAN
    BY DEF CallsInv, Respond, Asking
<1>3. CASE /\ ~strict /\ strict' = TRUE /\ calls' = calls + 1
           /\ UNCHANGED <<phase, attempt, again, draft, output, result>>
    <2>1. calls' <= Spent(strict', attempt', again')
        BY <1>1, <1>2, <1>3 DEF Spent
    <2>2. Asking' /\ attempt' \in 0..MaxRetries /\ calls' \in Nat
        BY <1>2, <1>3 DEF Asking
    <2>3. strict' \in BOOLEAN /\ again' \in BOOLEAN
        BY <1>2, <1>3, Zenon
    <2>4. QED
        BY <2>1, <2>2, <2>3, Zenon DEF CallsInv
<1>4. CASE \E r, t : Settle(r, t)
    BY <1>4, SettledIsUnasked
<1>5. CASE Untagged
    <2>1. CASE turn.direct
        BY <1>5, <2>1, SettledIsUnasked DEF Untagged
    <2>2. CASE ~turn.direct
        <3>1. ~Asking' /\ Unasked'
            BY <1>5, <2>2 DEF Asking, Untagged, Generated, Unasked
        <3>2. QED
            BY <3>1, UnaskedIsFine
    <2>3. QED
        BY <2>1, <2>2
<1>6. CASE /\ ~again /\ again' = TRUE /\ attempt' = 0 /\ strict' = FALSE /\ calls' = calls + 1
           /\ UNCHANGED phase
    <2>1. calls' <= Spent(strict', attempt', again')
        BY <1>1, <1>2, <1>6 DEF Spent
    <2>2. Asking'
        BY <1>2, <1>6 DEF Asking
    <2>3. attempt' \in 0..MaxRetries /\ calls' \in Nat
        BY <1>1, <1>2, <1>6
    <2>4. strict' \in BOOLEAN /\ again' \in BOOLEAN
        BY <1>6, Zenon
    <2>5. QED
        BY <2>1, <2>2, <2>3, <2>4, Zenon DEF CallsInv
<1>7. QED
    BY <1>3, <1>4, <1>5, <1>6 DEF Respond

\* An error costs the attempt that follows it, or ends the asking.
LEMMA FailureCosts ==
    ASSUME CallsInv, NEW retryable \in BOOLEAN, CallFails(retryable)
    PROVE  CallsInv'
<1>1. MaxRetries \in Nat
    BY ComposeAssumption
<1>2. /\ Asking /\ calls \in Nat /\ calls <= Spent(strict, attempt, again)
      /\ attempt \in 0..MaxRetries /\ strict \in BOOLEAN /\ again \in BOOLEAN
    BY DEF CallsInv, CallFails, Asking
<1>3. CASE attempt < MaxRetries /\ Retry
    <2>1. /\ attempt' = attempt + 1 /\ strict' = FALSE /\ calls' = calls + 1
          /\ UNCHANGED <<phase, again>>
        BY <1>3 DEF Retry
    <2>2. calls' <= Spent(strict', attempt', again')
        BY <1>1, <1>2, <2>1 DEF Spent
    <2>3. attempt' \in 0..MaxRetries
        BY <1>1, <1>2, <1>3, <2>1
    <2>4. Asking'
        BY <1>2, <2>1 DEF Asking
    <2>5. strict' \in BOOLEAN /\ again' \in BOOLEAN
        BY <1>2, <2>1, Zenon
    <2>6. calls' \in Nat
        BY <1>2, <2>1
    <2>7. QED
        BY <2>2, <2>3, <2>4, <2>5, <2>6, Zenon DEF CallsInv
<1>4. CASE GiveUpCalling
    <2>1. CASE again
        BY <1>4, <2>1, SettledIsUnasked DEF GiveUpCalling
    <2>2. CASE ~again
        <3>1. ~Asking' /\ Unasked'
            BY <1>4, <2>2 DEF Asking, GiveUpCalling, Generated, Unasked
        <3>2. QED
            BY <3>1, UnaskedIsFine
    <2>3. QED
        BY <2>1, <2>2
<1>5. QED
    BY <1>3, <1>4 DEF CallFails

\* What was asked for so far is what the attempts may have cost.
THEOREM CallsInvariant == ComposeSpec => []CallsInv
<1>1. ComposeInit => CallsInv
    <2> SUFFICES ASSUME ComposeInit PROVE CallsInv
        OBVIOUS
    <2>1. ~Asking
        BY DEF ComposeInit, Asking
    <2>2. Unasked
        BY DEF ComposeInit, Unasked
    <2>3. attempt \in 0..MaxRetries /\ calls \in Nat
        BY <2>2, ComposeAssumption DEF Unasked
    <2>4. strict \in BOOLEAN /\ again \in BOOLEAN
        BY <2>2, Zenon DEF Unasked
    <2>5. QED
        BY <2>1, <2>2, <2>3, <2>4, Zenon DEF CallsInv
<1>2. CallsInv /\ [ComposeNext]_composeVars => CallsInv'
    <2> SUFFICES ASSUME CallsInv, [ComposeNext]_composeVars PROVE CallsInv'
        OBVIOUS
    <2>1. CASE Begin
        <3>1. MaxRetries \in Nat
            BY ComposeAssumption
        <3>2. Unasked /\ Unasked'
            BY <2>1 DEF Begin, CallsInv, Unasked, Asking
        <3>3. CASE ~Asking'
            BY <3>2, <3>3, UnaskedIsFine
        <3>4. calls' <= Spent(strict', attempt', again') /\ attempt' \in 0..MaxRetries
              /\ calls' \in Nat
            BY <3>1, <3>2 DEF Unasked, Spent
        <3>5. strict' \in BOOLEAN /\ again' \in BOOLEAN
            BY <3>2, Zenon DEF Unasked
        <3>6. QED
            BY <3>2, <3>3, <3>4, <3>5, Zenon DEF CallsInv
    <2>2. CASE Deliver
        <3>1. Unasked /\ Unasked' /\ ~Asking'
            BY <2>2 DEF Deliver, CallsInv, Unasked, Asking
        <3>2. QED
            BY <3>1, UnaskedIsFine
    <2>3. CASE UNCHANGED composeVars
        BY <2>3 DEF composeVars, CallsInv, Unasked, Asking, Spent
    <2>4. QED
        BY <2>1, <2>2, <2>3, RespondCosts, FailureCosts DEF ComposeNext
<1>3. QED
    BY <1>1, <1>2, PTL DEF ComposeSpec

\* However the strict requests, the provider's retries and the second
\* generation of compose nest, the model is asked a bounded number of times.
THEOREM CallsStayBounded == ComposeSpec => []CallsAreBounded
<1>1. CallsInv => CallsAreBounded
    <2> SUFFICES ASSUME CallsInv, Asking
                 PROVE  calls < (IF again THEN 4 ELSE 2) * (MaxRetries + 1)
        BY DEF CallsAreBounded, Asking
    <2>1. MaxRetries \in Nat
        BY ComposeAssumption
    <2>2. /\ attempt \in 0..MaxRetries /\ strict \in BOOLEAN /\ again \in BOOLEAN
          /\ calls \in Nat /\ calls <= Spent(strict, attempt, again)
        BY DEF CallsInv
    <2>3. QED
        BY <2>1, <2>2 DEF Spent
<1>2. QED
    BY <1>1, CallsInvariant, PTL

-----------------------------------------------------------------------------
(* The text of a reply: lines in their order                               *)

\* A line has a place.
LEMMA PlacesAreNumbers == \A x \in Lines : x.at \in Nat
    BY DEF Lines

\* Of some lines one is the first.
LEMMA FirstIs ==
    ASSUME NEW S \in SUBSET Lines, S # {}
    PROVE  First(S) \in S /\ \A y \in S : First(S).at <= y.at
<1> DEFINE places == {x.at : x \in S}
<1>1. places \in SUBSET Nat /\ places # {}
    BY PlacesAreNumbers
<1>2. Min(places) \in places /\ \A n \in places : Min(places) <= n
    BY <1>1, LeastOfNaturals
<1>3. \E x \in S : \A y \in S : x.at <= y.at
    BY <1>2
<1>4. QED
    BY <1>3, Zenon DEF First

\* Of some lines before another one is the last.
LEMMA LastIs ==
    ASSUME NEW S \in SUBSET Lines, S # {}, NEW n \in Nat, \A x \in S : x.at <= n
    PROVE  \E x \in S : \A y \in S : y.at <= x.at
<1> DEFINE places == {x.at : x \in S}
<1>1. places \in SUBSET Nat /\ places # {} /\ \A p \in places : p <= n
    BY PlacesAreNumbers
<1>2. Max(places) \in places /\ \A p \in places : p <= Max(places)
    BY <1>1, GreatestOfNaturals
<1>3. QED
    BY <1>2

\* A part of a text is one.
LEMMA PartIsText ==
    ASSUME NEW t, IsText(t), NEW s \in SUBSET t
    PROVE  IsText(s)
    BY FS_Subset DEF IsText
-----------------------------------------------------------------------------
FencesTo(t, x) == {y \in t : y.kind = "fence" /\ y.at <= x.at}

\* Fences are counted.
LEMMA FencesAreFew ==
    ASSUME NEW t, IsText(t), NEW x
    PROVE  IsFiniteSet(FencesTo(t, x)) /\ FencesUpTo(t, x) \in Nat
<1>1. FencesTo(t, x) \in SUBSET t /\ IsFiniteSet(t)
    BY DEF FencesTo, IsText
<1>2. IsFiniteSet(FencesTo(t, x)) /\ Cardinality(FencesTo(t, x)) \in Nat
    BY <1>1, FS_Subset, FS_CardinalityType
<1>3. QED
    BY <1>2, Zenon DEF FencesUpTo, FencesTo

\* What keeps the fences keeps the code.
LEMMA CodeStays ==
    ASSUME NEW t, NEW s \in SUBSET t, \A x \in t : x.kind = "fence" => x \in s
    PROVE  /\ \A x : FencesUpTo(s, x) = FencesUpTo(t, x)
           /\ Code(s) = Code(t) \cap s
<1>1. ASSUME NEW x PROVE FencesUpTo(s, x) = FencesUpTo(t, x)
    <2>1. {y \in s : y.kind = "fence" /\ y.at <= x.at} = {y \in t : y.kind = "fence" /\ y.at <= x.at}
        OBVIOUS
    <2>2. QED BY <2>1, Zenon DEF FencesUpTo
<1>2. ASSUME NEW x \in s PROVE x \in Code(s) <=> x \in Code(t)
    <2>1. /\ FencesUpTo(s, x) = FencesUpTo(t, x)
          /\ (\E y \in s : y.kind = "fence" /\ x.at < y.at)
             <=> (\E y \in t : y.kind = "fence" /\ x.at < y.at)
        BY <1>1
    <2>2. QED BY <2>1, Zenon DEF Code
<1>3. Code(s) \subseteq s
    BY DEF Code
<1>4. QED
    BY <1>1, <1>2, <1>3, Zenon

\* What is taken out is outside the code, which stays.
LEMMA WithoutIs ==
    ASSUME NEW t, NEW K, "fence" \notin K
    PROVE  /\ Without(t, K) \in SUBSET t
           /\ \A x \in t : x.kind \notin K => x \in Without(t, K)
           /\ \A x \in Without(t, K) : x.kind \in K => x \in Code(t)
           /\ Code(Without(t, K)) = Code(t)
           /\ \A x : FencesUpTo(Without(t, K), x) = FencesUpTo(t, x)
<1>1. /\ Without(t, K) \in SUBSET t
      /\ \A x \in t : x.kind \notin K => x \in Without(t, K)
      /\ \A x \in Without(t, K) : x.kind \in K => x \in Code(t)
      /\ \A x \in t : x \in Code(t) => x \in Without(t, K)
    BY Zenon DEF Without
<1>2. \A x \in t : x.kind = "fence" => x \in Without(t, K)
    BY <1>1
<1>3. Code(t) \subseteq t
    BY DEF Code
<1>4. /\ \A x : FencesUpTo(Without(t, K), x) = FencesUpTo(t, x)
      /\ Code(Without(t, K)) = Code(t) \cap Without(t, K)
    BY <1>1, <1>2, CodeStays
<1>5. QED
    BY <1>1, <1>3, <1>4, Zenon
-----------------------------------------------------------------------------
(* Texts cut before some lines                                             *)

InOnePart(b, x, y) == ~Parted(b, x, y)

\* To be in one part is an equivalence, and whole stretches of lines are.
LEMMA PartsAreIntervals ==
    ASSUME NEW b \in Lines, NEW x \in Lines, NEW y \in Lines, NEW z \in Lines
    PROVE  /\ InOnePart(b, x, x)
           /\ InOnePart(b, x, y) => InOnePart(b, y, x)
           /\ InOnePart(b, x, y) /\ InOnePart(b, y, z) => InOnePart(b, x, z)
           /\ InOnePart(b, x, y) /\ x.at <= z.at /\ z.at <= y.at => InOnePart(b, x, z)
<1>1. b.at \in Nat /\ x.at \in Nat /\ y.at \in Nat /\ z.at \in Nat
    BY PlacesAreNumbers
<1>2. QED
    BY <1>1 DEF InOnePart, Parted

\* The parts are the text, and in the order of the text.
InOrderOf(blocks) == \A a, b \in blocks : a = b \/ Before(a, b) \/ Before(b, a)
CutsAt(parts, t, B) ==
    /\ UNION parts = t
    /\ \A m \in parts : m \in SUBSET t /\ m # {}
    /\ \A m \in parts : \A x, y \in m : \A b \in B : InOnePart(b, x, y)
    /\ \A m \in parts : \A x, y \in m : \A z \in t : x.at <= z.at /\ z.at <= y.at => z \in m
    /\ InOrderOf(parts)
    /\ \A m \in parts : \A x \in m, y \in t \ m : \E b \in B : Parted(b, x, y)

\* CutBefore cuts a text into parts.
LEMMA CutsAre ==
    ASSUME NEW t \in SUBSET Lines, NEW B \in SUBSET Lines
    PROVE  CutsAt(CutBefore(t, B), t, B)
<1> DEFINE Part(x) == {y \in t : \A b \in B : InOnePart(b, x, y)}
<1>1. CutBefore(t, B) = {Part(x) : x \in t}
    BY Zenon DEF CutBefore, InOnePart
<1>2. \A x \in t : x \in Part(x)
    BY PartsAreIntervals
<1>3. ASSUME NEW x \in t, NEW y \in Part(x), NEW z \in Part(x), NEW b \in B
      PROVE  InOnePart(b, y, z)
    BY PartsAreIntervals
<1>4. ASSUME NEW x \in t, NEW y \in Part(x), NEW z \in Part(x), NEW w \in t,
             y.at <= w.at, w.at <= z.at
      PROVE  w \in Part(x)
    <2> SUFFICES ASSUME NEW b \in B PROVE InOnePart(b, x, w)
        OBVIOUS
    <2>1. InOnePart(b, x, y) /\ InOnePart(b, y, z)
        BY <1>3
    <2>2. InOnePart(b, y, w)
        BY <2>1, <1>4, PartsAreIntervals
    <2>3. QED
        BY <2>1, <2>2, PartsAreIntervals
<1>5. ASSUME NEW v \in t, NEW w \in t, NEW y \in Part(v), NEW z \in Part(w), NEW d \in Part(v),
             NEW e \in Part(w), y.at <= z.at, e.at <= d.at
      PROVE  Part(v) = Part(w)
    \* No line parts v from w: what parts them parts y from z or d from e.
    <2>1. ASSUME NEW b \in B PROVE InOnePart(b, v, w)
        <3>1. InOnePart(b, v, y) /\ InOnePart(b, v, d) /\ InOnePart(b, w, z) /\ InOnePart(b, w, e)
            BY <2>1
        <3>2. /\ b.at \in Nat /\ v.at \in Nat /\ w.at \in Nat /\ y.at \in Nat /\ z.at \in Nat
              /\ d.at \in Nat /\ e.at \in Nat
            BY PlacesAreNumbers
        <3>3. QED
            BY <3>1, <3>2, <1>5 DEF InOnePart, Parted
    <2>2. ASSUME NEW u \in t PROVE u \in Part(v) <=> u \in Part(w)
        BY <2>1, PartsAreIntervals
    <2>3. QED BY <2>2
<1>6. ASSUME NEW v \in t, NEW w \in t, ~Before(Part(v), Part(w)), ~Before(Part(w), Part(v))
      PROVE  Part(v) = Part(w)
    <2>1. PICK y \in Part(v), z \in Part(w) : ~(y.at < z.at)
        BY <1>6 DEF Before
    <2>2. PICK e \in Part(w), d \in Part(v) : ~(e.at < d.at)
        BY <1>6 DEF Before
    <2>3. z.at <= y.at /\ d.at <= e.at
        BY <2>1, <2>2, PlacesAreNumbers
    <2>4. QED
        BY <2>3, <1>5
<1>7. ASSUME NEW v \in t, NEW x \in Part(v), NEW y \in t \ Part(v)
      PROVE  \E b \in B : Parted(b, x, y)
    <2>1. PICK b \in B : ~InOnePart(b, v, y)
        OBVIOUS
    <2>2. InOnePart(b, v, x)
        OBVIOUS
    <2>3. ~InOnePart(b, x, y)
        BY <2>1, <2>2, PartsAreIntervals
    <2>4. QED BY <2>3 DEF InOnePart
<1> HIDE DEF Part
<1>8. \A x \in t : Part(x) \in SUBSET t
    BY DEF Part
<1>9. QED
    BY <1>1, <1>2, <1>3, <1>4, <1>6, <1>7, <1>8 DEF CutsAt, InOrderOf
-----------------------------------------------------------------------------
(* The code of a part                                                      *)

IsInterval(m, t) == \A x, y \in m : \A z \in t : x.at <= z.at /\ z.at <= y.at => z \in m
Encloses(t, o, c) ==
    /\ o.kind = "fence" /\ c.kind = "fence" /\ o.at < c.at
    /\ FencesUpTo(t, o) % 2 = 1 /\ FencesUpTo(t, c) = FencesUpTo(t, o) + 1
\* No block of code begins before the part and ends in it.
CutsNoCode(m, t) == \A o \in t \ m, c \in m : ~Encloses(t, o, c)

\* Two sets without a common member.
LEMMA CountOfTwo ==
    ASSUME NEW S, IsFiniteSet(S), NEW T, IsFiniteSet(T), S \cap T = {}
    PROVE  Cardinality(S \cup T) = Cardinality(S) + Cardinality(T)
<1>1. Cardinality(S \cap T) = 0
    BY FS_EmptySet
<1>2. /\ Cardinality(S \cup T) = Cardinality(S) + Cardinality(T) - Cardinality(S \cap T)
      /\ Cardinality(S) \in Nat /\ Cardinality(T) \in Nat
    BY FS_Union, FS_CardinalityType
<1>3. QED
    BY <1>1, <1>2

\* Then it has an even number of fences before it, if it has code at all.
LEMMA EvenBefore ==
    ASSUME NEW t, IsText(t), NEW m \in SUBSET t, IsInterval(m, t), CutsNoCode(m, t),
           Code(m) # {}
    PROVE  \E k \in Nat : \A x \in m : FencesUpTo(t, x) = 2 * k + FencesUpTo(m, x)
<1> DEFINE B == {y \in t \ m : y.kind = "fence" /\ \E x \in m : y.at <= x.at}
<1>0. /\ IsText(m) /\ IsFiniteSet(B) /\ t \in SUBSET Lines
      /\ \A x, y \in t : x.at = y.at => x = y
    <2>1. B \in SUBSET t
        OBVIOUS
    <2>2. QED BY <2>1, PartIsText, FS_Subset DEF IsText
<1>1. ASSUME NEW y \in B, NEW x \in m PROVE y.at < x.at
    <2>1. PICK v \in m : y.at <= v.at
        OBVIOUS
    <2>2. ~(x.at <= y.at)
        BY <2>1 DEF IsInterval
    <2>3. QED
        BY <2>2, <1>0, PlacesAreNumbers
<1>2. ASSUME NEW x \in m
      PROVE  FencesUpTo(t, x) = Cardinality(B) + FencesUpTo(m, x)
    <2>1. FencesTo(t, x) = B \cup FencesTo(m, x) /\ B \cap FencesTo(m, x) = {}
        BY <1>1, <1>0, PlacesAreNumbers DEF FencesTo
    <2>2. IsFiniteSet(FencesTo(m, x))
        BY <1>0, FencesAreFew
    <2>3. Cardinality(FencesTo(t, x)) = Cardinality(B) + Cardinality(FencesTo(m, x))
        BY <2>1, <2>2, <1>0, CountOfTwo
    <2>4. QED
        BY <2>3, Zenon DEF FencesUpTo, FencesTo
<1>3. Cardinality(B) \in Nat
    BY <1>0, FS_CardinalityType
<1>4. Cardinality(B) % 2 = 0
    <2> SUFFICES ASSUME Cardinality(B) % 2 = 1 PROVE FALSE
        BY <1>3
    <2>1. B # {}
        BY FS_EmptySet
    <2> DEFINE F == {y \in m : y.kind = "fence"}
    <2>2. F # {}
        BY DEF Code
    <2>3. First(F) \in F /\ \A y \in F : First(F).at <= y.at
        BY <2>2, <1>0, FirstIs
    <2>4. PICK c \in F : \A y \in F : c.at <= y.at
        BY <2>3
    <2>5. PICK o \in B : \A y \in B : y.at <= o.at
        <3>1. B \in SUBSET Lines /\ c.at \in Nat /\ \A y \in B : y.at <= c.at
            BY <1>0, <1>1, PlacesAreNumbers
        <3> HIDE DEF B
        <3>2. QED BY <2>1, <3>1, LastIs
    <2>6. FencesTo(t, o) = B
        <3>1. ASSUME NEW y \in FencesTo(t, o) PROVE y \in B
            <4>1. y \in t /\ y.kind = "fence" /\ y.at <= o.at
                BY DEF FencesTo
            <4>2. o.at < c.at
                BY <1>1
            <4>3. y \notin m
                BY <1>1, <4>1, <1>0, PlacesAreNumbers
            <4>4. y.at <= c.at
                BY <4>1, <4>2, <1>0, PlacesAreNumbers
            <4>5. QED BY <4>1, <4>3, <4>4
        <3>2. QED BY <3>1, <2>5 DEF FencesTo
    <2>7. FencesUpTo(t, o) = Cardinality(B)
        BY <2>6, Zenon DEF FencesUpTo, FencesTo
    <2>8. FencesTo(m, c) = {c}
        BY <2>4, <1>0, PlacesAreNumbers DEF FencesTo
    <2>9. FencesUpTo(m, c) = 1
        BY <2>8, FS_Singleton, Zenon DEF FencesUpTo, FencesTo
    <2>10. FencesUpTo(t, c) = Cardinality(B) + 1
        BY <1>2, <2>9
    <2>11. Encloses(t, o, c)
        BY <1>1, <2>7, <2>10 DEF Encloses
    <2>12. QED
        BY <2>11 DEF CutsNoCode
<1>5. PICK k \in Nat : Cardinality(B) = 2 * k
    <2>1. Cardinality(B) \div 2 \in Nat /\ Cardinality(B) = 2 * (Cardinality(B) \div 2)
        BY <1>3, <1>4
    <2>2. QED BY <2>1
<1>6. QED
    BY <1>2, <1>5

\* Its code is code of the whole, and its units are within those of the whole.
LEMMA CodeOfPart ==
    ASSUME NEW t, IsText(t), NEW m \in SUBSET t, IsInterval(m, t), CutsNoCode(m, t)
    PROVE  /\ Code(m) \subseteq Code(t)
           /\ \A x \in Code(m) : Unit(m, x) \subseteq Unit(t, x)
<1>1. CASE Code(m) = {}
    BY <1>1
<1>2. CASE Code(m) # {}
    <2>1. PICK k \in Nat : \A x \in m : FencesUpTo(t, x) = 2 * k + FencesUpTo(m, x)
        BY <1>2, EvenBefore
    <2>2. \A x \in m : FencesUpTo(m, x) \in Nat
        BY PartIsText, FencesAreFew
    <2>3. \A x \in m : FencesUpTo(t, x) % 2 = FencesUpTo(m, x) % 2
        BY <2>1, <2>2
    <2>4. \A x \in m : NthCode(t, x) = k + NthCode(m, x) /\ NthCode(m, x) \in Nat
        BY <2>1, <2>2 DEF NthCode
    <2>5. ASSUME NEW x \in Code(m) PROVE x \in Code(t)
        <3>1. /\ x \in m /\ x \in t
              /\ \/ FencesUpTo(m, x) % 2 = 1 /\ \E y \in m : y.kind = "fence" /\ x.at < y.at
                 \/ FencesUpTo(m, x) % 2 = 0 /\ x.kind = "fence"
            BY DEF Code
        <3>2. \/ FencesUpTo(t, x) % 2 = 1 /\ \E y \in t : y.kind = "fence" /\ x.at < y.at
              \/ FencesUpTo(t, x) % 2 = 0 /\ x.kind = "fence"
            BY <3>1, <2>3
        <3>3. QED BY <3>1, <3>2, Zenon DEF Code
    <2>6. ASSUME NEW x \in Code(m), NEW y \in Unit(m, x) PROVE y \in Unit(t, x)
        <3>1. x \in m /\ y \in m /\ y \in Code(m) /\ NthCode(m, y) = NthCode(m, x)
            BY DEF Unit, Code
        <3>2. NthCode(t, y) = NthCode(t, x)
            BY <3>1, <2>4
        <3>3. QED BY <3>1, <3>2, <2>5, Zenon DEF Unit
    <2>7. QED BY <2>5, <2>6
<1>3. QED BY <1>1, <1>2
-----------------------------------------------------------------------------
(* Blocks of the markers, blocks of the fallback                           *)

LEMMA InsideOfCode ==
    ASSUME NEW t, IsText(t), NEW o \in t, NEW c \in t, Encloses(t, o, c), NEW n \in t,
           o.at <= n.at, n.at <= c.at
    PROVE  n \in Code(t) /\ NthCode(t, n) = NthCode(t, o)
<1>0. o.at \in Nat /\ n.at \in Nat /\ c.at \in Nat
    BY PlacesAreNumbers DEF IsText
<1>1. /\ o.kind = "fence" /\ c.kind = "fence" /\ o.at < c.at
      /\ FencesUpTo(t, o) % 2 = 1 /\ FencesUpTo(t, c) = FencesUpTo(t, o) + 1
      /\ FencesUpTo(t, o) \in Nat
    BY FencesAreFew DEF Encloses
<1>2. CASE n = c
    <2>1. FencesUpTo(t, n) % 2 = 0 /\ NthCode(t, n) = NthCode(t, o)
        BY <1>1, <1>2 DEF NthCode
    <2>2. QED BY <2>1, <1>1, <1>2, Zenon DEF Code
<1>3. CASE n # c
    <2>1. n.at < c.at
        BY <1>0, <1>3 DEF IsText
    <2> DEFINE rest == FencesTo(t, c) \ {c}
    <2>2. /\ FencesTo(t, o) \in SUBSET FencesTo(t, n) /\ FencesTo(t, n) \in SUBSET rest
          /\ c \in FencesTo(t, c)
        BY <2>1, <1>0, <1>1, PlacesAreNumbers DEF FencesTo, IsText
    <2>3. /\ IsFiniteSet(rest) /\ IsFiniteSet(FencesTo(t, n)) /\ IsFiniteSet(FencesTo(t, c))
          /\ Cardinality(rest) = Cardinality(FencesTo(t, c)) - 1
        BY <2>2, FencesAreFew, FS_RemoveElement
    <2>4. /\ Cardinality(FencesTo(t, o)) <= Cardinality(FencesTo(t, n))
          /\ Cardinality(FencesTo(t, n)) <= Cardinality(FencesTo(t, c)) - 1
        BY <2>2, <2>3, FS_Subset
    <2>5. \A x : FencesUpTo(t, x) = Cardinality(FencesTo(t, x))
        BY Zenon DEF FencesUpTo, FencesTo
    <2>6. FencesUpTo(t, n) = FencesUpTo(t, o)
        BY <2>4, <2>5, <1>1, FencesAreFew
    <2>7. n \in Code(t)
        BY <2>6, <2>1, <1>1, Zenon DEF Code
    <2>8. QED BY <2>6, <2>7 DEF NthCode
<1>4. QED BY <1>2, <1>3

Breaks(t) == {x \in t : x.kind = "next"} \ Code(t)

\* What is between two markers is a stretch which cuts no block of code.
LEMMA MarkedBlocks ==
    ASSUME NEW t, IsText(t), NEW m \in SplitOnMarkers(t)
    PROVE  m \in SUBSET t /\ IsInterval(m, t) /\ CutsNoCode(m, t)
<1> DEFINE kept == t \ Breaks(t)
<1>0. /\ t \in SUBSET Lines /\ kept \in SUBSET Lines /\ Breaks(t) \in SUBSET Lines
      /\ m \in CutBefore(kept, Breaks(t)) /\ \A x, y \in t : x.at = y.at => x = y
    BY DEF SplitOnMarkers, Breaks, IsText
<1>a. CutsAt(CutBefore(kept, Breaks(t)), kept, Breaks(t))
    <2> HIDE DEF kept
    <2> QED BY <1>0, CutsAre
<1>1. m \in SUBSET kept
    BY <1>0, <1>a DEF CutsAt
<1>2. ASSUME NEW x \in m, NEW y \in m, NEW z \in t, x.at <= z.at, z.at <= y.at
      PROVE  z \in m
    <2>1. CASE z \in Breaks(t)
        <3>1. x \in t /\ x # z /\ InOnePart(z, x, y)
            BY <2>1, <1>0, <1>1, <1>a DEF CutsAt
        <3>2. x.at < z.at
            BY <3>1, <1>0, <1>2, PlacesAreNumbers
        <3>3. QED BY <3>1, <3>2, <1>2 DEF InOnePart, Parted
    <2>2. CASE z \in kept
        BY <2>2, <1>0, <1>2, <1>a DEF CutsAt
    <2>3. QED BY <2>1, <2>2
<1>3. ASSUME NEW o \in t \ m, NEW c \in m, Encloses(t, o, c) PROVE FALSE
    <2>1. o \in kept \ m /\ o.at < c.at /\ c \in t
        BY <1>1, <1>3 DEF Encloses, Breaks
    <2>2. PICK n \in Breaks(t) : Parted(n, c, o)
        <3> HIDE DEF kept
        <3>1. \A x \in m, y \in kept \ m : \E b \in Breaks(t) : Parted(b, x, y)
            BY <1>0, <1>a, Zenon DEF CutsAt
        <3>2. QED BY <2>1, <3>1, Zenon
    <2>3. o.at <= n.at /\ n.at <= c.at /\ n \in t
        BY <2>1, <2>2, <1>0, PlacesAreNumbers DEF Parted, Breaks
    <2>4. n \in Code(t)
        BY <2>1, <2>3, <1>3, InsideOfCode
    <2>5. QED BY <2>4 DEF Breaks
<1>4. QED BY <1>1, <1>2, <1>3 DEF IsInterval, CutsNoCode

\* A piece has lines of its text.
LEMMA PiecesAre ==
    ASSUME NEW t, IsText(t), NEW p \in Pieces(t)
    PROVE  p \in SUBSET t /\ p # {}
<1>1. PICK u \in Units(t) : p \in Fit(u)
    BY DEF Pieces
<1>2. u \in SUBSET t
    BY DEF Units, Unit, Code
<1>3. p \in SUBSET u /\ p # {}
    BY <1>1 DEF Fit
<1>4. QED BY <1>2, <1>3

\* A message begins with the first line of a piece.
LEMMA BeginningsAre ==
    ASSUME NEW t, IsText(t)
    PROVE  /\ Beginnings(t) \in SUBSET Lines
           /\ \A f \in Beginnings(t) : \E p \in Pieces(t) : f \in p /\ \A y \in p : f.at <= y.at
<1>1. \A f \in Beginnings(t) : \E p \in Pieces(t) : f = First(p)
    BY Zenon DEF Beginnings
<1>2. ASSUME NEW p \in Pieces(t)
      PROVE  First(p) \in Lines /\ First(p) \in p /\ \A y \in p : First(p).at <= y.at
    <2>1. p \in SUBSET Lines /\ p # {}
        BY PiecesAre DEF IsText
    <2>2. QED BY <2>1, FirstIs
<1>3. QED BY <1>1, <1>2

\* A unit that is not too long is in one piece.
LEMMA ShortFits ==
    ASSUME NEW u, IsText(u), Cardinality(u) <= Target, NEW p \in Fit(u)
    PROVE  p = u
<1>1. IsFiniteSet(u) /\ Cardinality(u) \in Nat /\ Target \in Nat /\ Target > 0
    BY FS_CardinalityType, ReplyTextAssumption DEF IsText
<1>2. ASSUME NEW x \in u PROVE Rank(u, x) \div Target = 0
    <2> DEFINE B == {y \in u : y.at < x.at}
    <2>1. B \in SUBSET u /\ x \notin B
        BY PlacesAreNumbers DEF IsText
    <2>2. /\ IsFiniteSet(B) /\ Cardinality(B) <= Cardinality(u)
          /\ Cardinality(u) # Cardinality(B)
        BY <2>1, <1>1, FS_Subset
    <2>3. Cardinality(B) \in Nat /\ Cardinality(B) < Target
        BY <2>2, <1>1, FS_CardinalityType
    <2>4. Cardinality(B) \div Target = 0
        BY <2>3, <1>1
    <2>5. QED BY <2>4, Zenon DEF Rank
<1>3. PICK x \in u : p = {y \in u : Rank(u, y) \div Target = Rank(u, x) \div Target}
    BY Zenon DEF Fit
<1>4. QED BY <1>2, <1>3

\* Where no code is cut, a message of the fallback has no code of its own.
LEMMA FallbackBlocks ==
    ASSUME NEW t, IsText(t), ~CodeIsCut(t), NEW m \in SentenceFallback(t)
    PROVE  m \in SUBSET t /\ Code(m) \subseteq Code(t)
<1>0. /\ t \in SUBSET Lines /\ \A x, y \in t : x.at = y.at => x = y
      /\ m \in CutBefore(t, Beginnings(t)) /\ Beginnings(t) \in SUBSET Lines
    BY BeginningsAre DEF IsText, SentenceFallback
<1>a. CutsAt(CutBefore(t, Beginnings(t)), t, Beginnings(t))
    BY <1>0, CutsAre
<1>1. m \in SUBSET t /\ IsInterval(m, t)
    BY <1>0, <1>a DEF IsInterval, CutsAt
<1>2. ASSUME NEW o \in t \ m, NEW c \in m, Encloses(t, o, c) PROVE FALSE
    <2>1. PICK f \in Beginnings(t) : Parted(f, c, o)
        BY <1>0, <1>1, <1>a DEF CutsAt
    <2>2. PICK p \in Pieces(t) : f \in p /\ \A y \in p : f.at <= y.at
        BY BeginningsAre
    <2>3. f \in t /\ c \in t /\ o.at < f.at /\ f.at <= c.at /\ o.at \in Nat /\ f.at \in Nat
        <3>1. f \in t /\ c \in t
            BY <2>2, <1>1, PiecesAre
        <3>2. o.at < c.at
            BY <1>2 DEF Encloses
        <3>3. QED BY <3>1, <3>2, <2>1, <1>0, PlacesAreNumbers DEF Parted
    <2>4. /\ f \in Code(t) /\ NthCode(t, f) = NthCode(t, o) /\ o \in Code(t)
        <3>1. Encloses(t, o, c) /\ o.at <= f.at
            BY <2>3, <1>2, <1>0, PlacesAreNumbers
        <3>2. f \in Code(t) /\ NthCode(t, f) = NthCode(t, o)
            BY <3>1, <2>3, InsideOfCode
        <3>3. o \in Code(t)
            BY <3>1, <2>3, <1>0, InsideOfCode, PlacesAreNumbers
        <3>4. QED BY <3>2, <3>3
    <2>5. PICK x \in t : p \in Fit(Unit(t, x))
        BY Zenon DEF Pieces, Units
    <2>6. p = Unit(t, x)
        <3>1. Cardinality(Unit(t, x)) <= Target
            <4>1. Unit(t, x) \in SUBSET t
                BY DEF Unit, Code
            <4>2. Cardinality(Unit(t, x)) \in Nat /\ Target \in Nat
                BY <4>1, FS_Subset, FS_CardinalityType, ReplyTextAssumption DEF IsText
            <4>3. ~(Cardinality(Unit(t, x)) > Target)
                BY Zenon DEF CodeIsCut, Units
            <4>4. QED BY <4>2, <4>3
        <3>2. IsText(Unit(t, x))
            <4>1. Unit(t, x) \in SUBSET t
                BY DEF Unit, Code
            <4>2. QED BY <4>1, PartIsText
        <3>3. QED BY <3>1, <3>2, <2>5, ShortFits
    <2>7. x \in Code(t) /\ o \in Unit(t, x)
        BY <2>2, <2>4, <2>6, Zenon DEF Unit
    <2>8. f.at <= o.at
        BY <2>2, <2>6, <2>7
    <2>9. QED BY <2>3, <2>8
<1>3. CutsNoCode(m, t)
    BY <1>2 DEF CutsNoCode
<1>4. QED BY <1>1, <1>3, CodeOfPart
-----------------------------------------------------------------------------
(* What is delivered of a text                                             *)

LEMMA WordsOfUnion ==
    ASSUME NEW S, NEW T, S \subseteq T, \A x \in T : x \in S \/ x.kind \in Markers
    PROVE  Words(S) = Words(T)
    BY DEF Words, Markers

\* Parts of blocks are in the order of the blocks.
LEMMA BeforeOfParts ==
    ASSUME NEW a, NEW b, Before(a, b), NEW c \in SUBSET a, NEW d \in SUBSET b
    PROVE  Before(c, d)
    BY DEF Before

\* The fallback loses nothing and keeps the order,
LEMMA FallbackIs ==
    ASSUME NEW t, IsText(t)
    PROVE  /\ UNION SentenceFallback(t) = t
           /\ \A m \in SentenceFallback(t) : m \in SUBSET t
           /\ InOrderOf(SentenceFallback(t))
<1>1. t \in SUBSET Lines /\ Beginnings(t) \in SUBSET Lines
    BY BeginningsAre DEF IsText
<1>2. CutsAt(SentenceFallback(t), t, Beginnings(t))
    BY <1>1, CutsAre, Zenon DEF SentenceFallback
<1>3. QED BY <1>2, Zenon DEF CutsAt

\* and so do the markers, but for themselves,
LEMMA MarkedIs ==
    ASSUME NEW t, IsText(t)
    PROVE  /\ UNION SplitOnMarkers(t) = t \ Breaks(t)
           /\ \A m \in SplitOnMarkers(t) : m \in SUBSET t
           /\ InOrderOf(SplitOnMarkers(t))
<1>1. t \ Breaks(t) \in SUBSET Lines /\ Breaks(t) \in SUBSET Lines
    BY DEF IsText, Breaks
<1>2. CutsAt(SplitOnMarkers(t), t \ Breaks(t), Breaks(t))
    BY <1>1, CutsAre, Zenon DEF SplitOnMarkers, Breaks
<1>3. QED BY <1>2 DEF CutsAt

ShortOf(b) == IF Cardinality(b) <= MaxChars THEN {b} ELSE SentenceFallback(b)

\* and the fallback within them.
LEMMA ShortIs ==
    ASSUME NEW b, IsText(b)
    PROVE  /\ UNION ShortOf(b) = b
           /\ \A m \in ShortOf(b) : m \in SUBSET b
           /\ InOrderOf(ShortOf(b))
<1>1. CASE Cardinality(b) <= MaxChars
    <2>1. ShortOf(b) = {b}
        BY <1>1, Zenon DEF ShortOf
    <2>2. QED BY <2>1 DEF InOrderOf
<1>2. CASE ~(Cardinality(b) <= MaxChars)
    <2>1. ShortOf(b) = SentenceFallback(b)
        BY <1>2, Zenon DEF ShortOf
    <2>2. QED BY <2>1, FallbackIs
<1>3. QED BY <1>1, <1>2

\* Together, too.
LEMMA MessagesAre ==
    ASSUME NEW t, IsText(t)
    PROVE  LET blocks == BlocksFromMarkers(SplitOnMarkers(t))
           IN  /\ UNION blocks = t \ Breaks(t)
               /\ \A m \in blocks : \E b \in SplitOnMarkers(t) : m \in ShortOf(b)
               /\ InOrderOf(blocks)
<1> DEFINE blocks == BlocksFromMarkers(SplitOnMarkers(t))
<1>1. blocks = UNION {ShortOf(b) : b \in SplitOnMarkers(t)}
    BY Zenon DEF BlocksFromMarkers, ShortOf
<1>2. \A b \in SplitOnMarkers(t) : IsText(b)
    BY MarkedIs, PartIsText
<1> HIDE DEF blocks
<1>3. \A m \in blocks : \E b \in SplitOnMarkers(t) : m \in ShortOf(b)
    BY <1>1
<1>4. UNION blocks = t \ Breaks(t)
    <2>1. ASSUME NEW x \in UNION blocks PROVE x \in t \ Breaks(t)
        <3>1. PICK m \in blocks : x \in m
            OBVIOUS
        <3>2. PICK b \in SplitOnMarkers(t) : m \in ShortOf(b)
            BY <1>3
        <3>3. x \in b
            BY <3>1, <3>2, <1>2, ShortIs
        <3>4. QED BY <3>3, MarkedIs
    <2>2. ASSUME NEW x \in t \ Breaks(t) PROVE x \in UNION blocks
        <3>1. PICK b \in SplitOnMarkers(t) : x \in b
            BY MarkedIs
        <3>2. PICK m \in ShortOf(b) : x \in m
            BY <3>1, <1>2, ShortIs
        <3>3. QED BY <1>1, <3>2
    <2>3. QED BY <2>1, <2>2
<1>5. ASSUME NEW m \in blocks, NEW n \in blocks PROVE m = n \/ Before(m, n) \/ Before(n, m)
    <2>1. PICK b \in SplitOnMarkers(t) : m \in ShortOf(b)
        BY <1>3
    <2>2. PICK d \in SplitOnMarkers(t) : n \in ShortOf(d)
        BY <1>3
    <2>3. m \in SUBSET b /\ n \in SUBSET d
        BY <2>1, <2>2, <1>2, ShortIs
    <2>4. CASE b = d
        BY <2>1, <2>2, <2>4, <1>2, ShortIs DEF InOrderOf
    <2>5. CASE Before(b, d) \/ Before(d, b)
        BY <2>5, <2>3, BeforeOfParts
    <2>6. QED BY <2>4, <2>5, MarkedIs DEF InOrderOf
<1>6. QED BY <1>3, <1>4, <1>5 DEF InOrderOf, blocks

\* Markers are taken out where they are not code.
LEMMA StripIs ==
    ASSUME NEW t
    PROVE  /\ StripBlockMarkers(t) \in SUBSET t
           /\ \A x \in t : x.kind \notin Markers => x \in StripBlockMarkers(t)
           /\ \A x \in StripBlockMarkers(t) : x.kind \in Markers => x \in Code(t)
           /\ Code(StripBlockMarkers(t)) = Code(t)
           /\ \A x : FencesUpTo(StripBlockMarkers(t), x) = FencesUpTo(t, x)
<1>1. "fence" \notin Markers
    BY DEF Markers
<1>2. QED BY <1>1, WithoutIs, Zenon DEF StripBlockMarkers

\* The last pass over the messages keeps them in order.
LEMMA SanitizedIs ==
    ASSUME NEW R, InOrderOf(R)
    PROVE  /\ \A n \in Sanitize(R) : \E m \in R : n = StripBlockMarkers(m)
           /\ \A x \in UNION R : x.kind \notin Markers => x \in UNION Sanitize(R)
           /\ InOrderOf(Sanitize(R))
<1>1. \A n \in Sanitize(R) : \E m \in R : n = StripBlockMarkers(m)
    BY DEF Sanitize
<1>2. ASSUME NEW x \in UNION R, x.kind \notin Markers PROVE x \in UNION Sanitize(R)
    <2>1. PICK m \in R : x \in m
        OBVIOUS
    <2>2. x \in StripBlockMarkers(m)
        BY <2>1, <1>2, StripIs
    <2>3. StripBlockMarkers(m) \in Sanitize(R)
        BY <2>1, <2>2 DEF Sanitize
    <2>4. QED BY <2>2, <2>3
<1>3. ASSUME NEW n \in Sanitize(R), NEW o \in Sanitize(R)
      PROVE  n = o \/ Before(n, o) \/ Before(o, n)
    <2>1. PICK m \in R : n = StripBlockMarkers(m)
        BY <1>1
    <2>2. PICK l \in R : o = StripBlockMarkers(l)
        BY <1>1
    <2>3. n \in SUBSET m /\ o \in SUBSET l
        BY <2>1, <2>2, StripIs
    <2>4. CASE m = l
        BY <2>1, <2>2, <2>4
    <2>5. CASE Before(m, l) \/ Before(l, m)
        BY <2>3, <2>5, BeforeOfParts
    <2>6. QED BY <2>4, <2>5 DEF InOrderOf
<1>4. QED BY <1>1, <1>2, <1>3 DEF InOrderOf

\* If no unit of a text is cut, none is of what has its units.
LEMMA PartsAreUncut ==
    ASSUME NEW t, IsText(t), ~CodeIsCut(t), NEW s \in SUBSET t,
           \A x \in Code(s) : Unit(s, x) \subseteq Unit(t, x)
    PROVE  ~CodeIsCut(s)
<1>1. ASSUME NEW x \in s PROVE ~(Cardinality(Unit(s, x)) > Target)
    <2>1. CASE x \in Code(s)
        <3>1. Unit(s, x) \in SUBSET Unit(t, x) /\ Unit(t, x) \in SUBSET t
            BY <2>1 DEF Unit, Code
        <3>2. IsFiniteSet(Unit(t, x)) /\ Cardinality(Unit(t, x)) \in Nat
            BY <3>1, FS_Subset, FS_CardinalityType DEF IsText
        <3>3. /\ Cardinality(Unit(s, x)) <= Cardinality(Unit(t, x))
              /\ Cardinality(Unit(s, x)) \in Nat
            BY <3>1, <3>2, FS_Subset, FS_CardinalityType
        <3>4. ~(Cardinality(Unit(t, x)) > Target)
            BY Zenon DEF CodeIsCut, Units
        <3>5. QED BY <3>2, <3>3, <3>4, ReplyTextAssumption
    <2>2. CASE x \notin Code(s)
        <3>1. Unit(s, x) = {x}
            BY <2>2, Zenon DEF Unit
        <3>2. Cardinality(Unit(s, x)) = 1
            BY <3>1, FS_Singleton
        <3>3. QED BY <3>2, ReplyTextAssumption
    <2>3. QED BY <2>1, <2>2
<1>2. QED BY <1>1, Zenon DEF CodeIsCut, Units

\* Where no code is cut, none is between markers.
LEMMA MarkedAreUncut ==
    ASSUME NEW t, IsText(t), ~CodeIsCut(t), NEW b \in SplitOnMarkers(t)
    PROVE  IsText(b) /\ Code(b) \subseteq Code(t) /\ ~CodeIsCut(b)
<1>1. b \in SUBSET t /\ IsText(b)
    BY MarkedIs, PartIsText
<1>2. Code(b) \subseteq Code(t) /\ \A x \in Code(b) : Unit(b, x) \subseteq Unit(t, x)
    BY MarkedBlocks, CodeOfPart
<1>3. QED BY <1>1, <1>2, PartsAreUncut

\* The blocks of a text: its lines in order, and no marker but in its code.
LEMMA SplitIs ==
    ASSUME NEW t, IsText(t)
    PROVE  /\ \A m \in SplitReplyIntoBlocks(t) : m \in SUBSET t
           /\ \A x \in t : x.kind \notin Markers => x \in UNION SplitReplyIntoBlocks(t)
           /\ InOrderOf(SplitReplyIntoBlocks(t))
           /\ ~CodeIsCut(t) => \A x \in UNION SplitReplyIntoBlocks(t) :
                                  x.kind \in Markers => x \in Code(t)
<1>1. CASE Cardinality(SplitOnMarkers(t)) > 1
    <2> DEFINE blocks == BlocksFromMarkers(SplitOnMarkers(t))
    <2>1. SplitReplyIntoBlocks(t) = Sanitize(blocks)
        BY <1>1, Zenon DEF SplitReplyIntoBlocks
    <2>2. /\ UNION blocks = t \ Breaks(t)
          /\ \A m \in blocks : \E b \in SplitOnMarkers(t) : m \in ShortOf(b)
          /\ InOrderOf(blocks)
        BY MessagesAre
    <2> HIDE DEF blocks
    <2>3. /\ \A n \in Sanitize(blocks) : \E m \in blocks : n = StripBlockMarkers(m)
          /\ \A x \in UNION blocks : x.kind \notin Markers => x \in UNION Sanitize(blocks)
          /\ InOrderOf(Sanitize(blocks))
        BY <2>2, SanitizedIs
    <2>4. ASSUME NEW m \in Sanitize(blocks) PROVE m \in SUBSET t
        <3>1. PICK b \in blocks : m = StripBlockMarkers(b)
            BY <2>3
        <3>2. QED BY <3>1, <2>2, StripIs
    <2>5. ASSUME NEW x \in t, x.kind \notin Markers PROVE x \in UNION Sanitize(blocks)
        <3>1. x \notin Breaks(t)
            BY <2>5 DEF Breaks, Markers
        <3>2. QED BY <3>1, <2>2, <2>3, <2>5
    <2>6. ASSUME ~CodeIsCut(t), NEW x \in UNION Sanitize(blocks), x.kind \in Markers
          PROVE  x \in Code(t)
        <3>1. PICK n \in Sanitize(blocks) : x \in n
            OBVIOUS
        <3>2. PICK m \in blocks : n = StripBlockMarkers(m)
            BY <2>3
        <3>3. x \in Code(m)
            BY <3>1, <3>2, <2>6, StripIs
        <3>4. PICK b \in SplitOnMarkers(t) : m \in ShortOf(b)
            BY <2>2
        <3>5. IsText(b) /\ Code(b) \subseteq Code(t) /\ ~CodeIsCut(b)
            BY <2>6, MarkedAreUncut
        <3>6. CASE m = b
            BY <3>3, <3>5, <3>6
        <3>7. CASE m \in SentenceFallback(b)
            BY <3>3, <3>5, <3>7, FallbackBlocks
        <3>8. QED BY <3>4, <3>6, <3>7, Zenon DEF ShortOf
    <2>7. QED BY <2>1, <2>3, <2>4, <2>5, <2>6
<1>2. CASE ~(Cardinality(SplitOnMarkers(t)) > 1)
    <2> DEFINE plain == StripBlockMarkers(t)
               blocks == SentenceFallback(plain)
    <2>1. SplitReplyIntoBlocks(t) = Sanitize(blocks)
        BY <1>2, Zenon DEF SplitReplyIntoBlocks
    <2>2. /\ plain \in SUBSET t
          /\ \A x \in t : x.kind \notin Markers => x \in plain
          /\ \A x \in plain : x.kind \in Markers => x \in Code(t)
        BY StripIs
    <2>3. IsText(plain)
        BY <2>2, PartIsText
    <2> HIDE DEF plain
    <2>4. UNION blocks = plain /\ (\A m \in blocks : m \in SUBSET plain) /\ InOrderOf(blocks)
        BY <2>3, FallbackIs
    <2> HIDE DEF blocks
    <2>5. /\ \A n \in Sanitize(blocks) : \E m \in blocks : n = StripBlockMarkers(m)
          /\ \A x \in UNION blocks : x.kind \notin Markers => x \in UNION Sanitize(blocks)
          /\ InOrderOf(Sanitize(blocks))
        BY <2>4, SanitizedIs
    <2>6. \A m \in Sanitize(blocks) : m \in SUBSET plain
        BY <2>4, <2>5, StripIs
    <2>7. QED BY <2>1, <2>2, <2>4, <2>5, <2>6
<1>3. QED BY <1>1, <1>2

\* What messages are to the text they are made of.
Delivers(messages, t, toBot) ==
    /\ \A m \in messages : m \in SUBSET t
    /\ InOrderOf(messages)
    /\ IF toBot THEN Before(Words(UNION messages), Words(t) \ UNION messages)
       ELSE Words(t) \subseteq UNION messages
    /\ ~CodeIsCut(t) => \A x \in UNION messages : x.kind \in Markers => x \in Code(t)

\* With one message for a bot, and no split where the profile has none.
LEMMA DeliveredIs ==
    ASSUME NEW t, IsText(t), NEW splits, NEW toBot
    PROVE  Delivers(DeliveryMessages(t, splits, toBot), t, toBot)
<1> SUFFICES LET messages == DeliveryMessages(t, splits, toBot)
             IN  /\ \A m \in messages : m \in SUBSET t
                 /\ InOrderOf(messages)
                 /\ IF toBot THEN Before(Words(UNION messages), Words(t) \ UNION messages)
                    ELSE Words(t) \subseteq UNION messages
                 /\ ~CodeIsCut(t) => \A x \in UNION messages : x.kind \in Markers => x \in Code(t)
    BY Zenon DEF Delivers
<1> DEFINE blocks == SplitReplyIntoBlocks(t)
           plain == StripBlockMarkers(t)
           all == UNION blocks
           short == {x \in all : Rank(all, x) < MaxChars - 1}
<1>1. /\ \A m \in blocks : m \in SUBSET t
      /\ \A x \in t : x.kind \notin Markers => x \in all
      /\ InOrderOf(blocks)
      /\ ~CodeIsCut(t) => \A x \in all : x.kind \in Markers => x \in Code(t)
    BY SplitIs, Zenon
<1>2. /\ plain \in SUBSET t
      /\ \A x \in t : x.kind \notin Markers => x \in plain
      /\ \A x \in plain : x.kind \in Markers => x \in Code(t)
    BY StripIs
<1>3. \/ ~splits /\ DeliveryMessages(t, splits, toBot) = {plain} \ {{}}
      \/ DeliveryMessages(t, splits, toBot) = blocks
      \/ toBot /\ DeliveryMessages(t, splits, toBot) = {all}
      \/ toBot /\ DeliveryMessages(t, splits, toBot) = {short}
    BY Zenon DEF DeliveryMessages, OneMessage
<1>4. IsText(all) /\ all \in SUBSET t
    <2>1. all \in SUBSET t
        BY <1>1
    <2> HIDE DEF all
    <2>2. QED BY <2>1, PartIsText
<1>5. \A x \in Words(t) : x \in t /\ x.kind \notin Markers
    BY DEF Words, Markers
<1>6. \A x \in Words(t) : x \in all /\ x \in plain
    BY <1>1, <1>2, <1>5
<1> HIDE DEF blocks, plain
<1>7. Before(short, all \ short)
    <2> HIDE DEF all
    <2> SUFFICES ASSUME NEW x \in short, NEW y \in all \ short, ~(x.at < y.at) PROVE FALSE
        BY DEF Before
    <2> DEFINE under(z) == {w \in all : w.at < z.at}
    <2>1. under(y) \in SUBSET under(x) /\ under(x) \in SUBSET all
        BY <1>4, PlacesAreNumbers DEF IsText
    <2>2. /\ IsFiniteSet(under(x)) /\ Cardinality(under(x)) \in Nat
          /\ Cardinality(under(y)) <= Cardinality(under(x)) /\ Cardinality(under(y)) \in Nat
        BY <2>1, <1>4, FS_Subset, FS_CardinalityType DEF IsText
    <2>3. Rank(all, x) = Cardinality(under(x)) /\ Rank(all, y) = Cardinality(under(y))
        BY Zenon DEF Rank
    <2> HIDE DEF under
    <2>4. QED BY <2>2, <2>3, ReplyTextAssumption
<1> HIDE DEF all
<1>8. CASE DeliveryMessages(t, splits, toBot) = {plain} \ {{}}
    <2>1. UNION ({plain} \ {{}}) = plain
        OBVIOUS
    <2>2. QED BY <1>8, <2>1, <1>2, <1>6 DEF InOrderOf, Before
<1>9. CASE DeliveryMessages(t, splits, toBot) = blocks
    <2>1. UNION blocks = all
        BY DEF all
    <2>2. QED BY <1>9, <2>1, <1>1, <1>6 DEF Before
<1>10. CASE toBot /\ DeliveryMessages(t, splits, toBot) = {all}
    BY <1>10, <1>1, <1>4, <1>6 DEF Before, InOrderOf
<1>11. CASE toBot /\ DeliveryMessages(t, splits, toBot) = {short}
    <2>1. UNION {short} = short /\ short \in SUBSET all
        OBVIOUS
    <2> HIDE DEF short
    <2>2. Before(Words(short), Words(t) \ short)
        <3>1. Words(short) \in SUBSET short
            BY DEF Words
        <3>2. (Words(t) \ short) \in SUBSET (all \ short)
            BY <1>6
        <3>3. QED BY <3>1, <3>2, <1>7, BeforeOfParts
    <2>3. QED BY <1>11, <2>1, <2>2, <1>1, <1>4 DEF InOrderOf
<1>12. QED BY <1>3, <1>8, <1>9, <1>10, <1>11
-----------------------------------------------------------------------------
(* From the output to the draft, from the draft to what is delivered       *)

LEMMA ExtractIs ==
    ASSUME NEW t
    PROVE  /\ SplitReply(t) \in SUBSET t
           /\ \A g \in AnswerTags(t) : \A x \in SplitReply(t) : g.at < x.at
<1> DEFINE after == {x \in t : \A g \in AnswerTags(t) : g.at < x.at}
<1>1. Enclosed(t) \in SUBSET t
    BY DEF Enclosed
<1>2. "fence" \notin Control
    BY DEF Control
<1>3. CASE AnswerTags(t) # {}
    <2>1. ~IsUntagged(t)
        BY <1>3 DEF IsUntagged
    <2>2. SplitReply(t) = Without(after, Control)
        BY <1>3, <2>1, Zenon DEF SplitReply, ExtractAnswer
    <2>3. SplitReply(t) \in SUBSET after
        BY <2>2, <1>2, WithoutIs
    <2>4. QED BY <2>3
<1>4. CASE AnswerTags(t) = {}
    <2>1. \/ SplitReply(t) = {}
          \/ SplitReply(t) = Without(Enclosed(t), Control)
          \/ SplitReply(t) = Without(t, Control)
        BY <1>4, Zenon DEF SplitReply, ExtractAnswer
    <2>2. SplitReply(t) \in SUBSET t
        BY <2>1, <1>1, <1>2, WithoutIs
    <2>3. QED BY <2>2, <1>4
<1>5. QED BY <1>3, <1>4

Drafted(whole) == Without(WithoutAnywhere(whole, {"send", "dm"}), {"photo"})
Cleaned(lines) ==
    Without(Without(Without(Without(lines, {"sticker"}), {"reaction"}), Control), {"stray"})

\* The steps of compose and finalize take out instructions and markers, and
\* leave the words and the code.
LEMMA CleanIs ==
    ASSUME NEW whole, IsText(whole), ~HasIgnore(whole)
    PROVE  LET clean == Cleaned(Drafted(whole))
           IN  /\ clean \in SUBSET whole /\ Code(clean) \subseteq Code(whole)
               /\ \A x \in clean : x.kind \notin {"send", "dm"}
               /\ \A x \in clean : x.kind \notin {"text", "promise", "fence"} \cup Markers
                                   => x \in Code(whole)
               /\ Words(whole) \subseteq clean
               /\ ~CodeIsCut(whole) => ~CodeIsCut(clean)
<1> DEFINE s0 == WithoutAnywhere(whole, {"send", "dm"})
           s1 == Without(s0, {"photo"})
           s2 == Without(s1, {"sticker"})
           s3 == Without(s2, {"reaction"})
           s4 == Without(s3, Control)
           s5 == Without(s4, {"stray"})
<1>0. Cleaned(Drafted(whole)) = s5
    BY Zenon DEF Cleaned, Drafted
<1>1. /\ s0 \in SUBSET whole /\ \A x \in s0 : x.kind \notin {"send", "dm"}
      /\ \A x \in whole : x.kind \notin {"send", "dm"} => x \in s0
    BY DEF WithoutAnywhere
<1> HIDE DEF s0
<1>2. (\A x : FencesUpTo(s0, x) = FencesUpTo(whole, x)) /\ Code(s0) \subseteq Code(whole)
    <2>1. \A x \in whole : x.kind = "fence" => x \in s0
        BY <1>1
    <2>2. QED BY <1>1, <2>1, CodeStays
<1>3. /\ s1 \in SUBSET s0 /\ Code(s1) = Code(s0)
      /\ \A x \in s0 : x.kind \notin {"photo"} => x \in s1
      /\ \A x \in s1 : x.kind \in {"photo"} => x \in Code(s0)
      /\ \A x : FencesUpTo(s1, x) = FencesUpTo(s0, x)
    BY WithoutIs
<1> HIDE DEF s1
<1>4. /\ s2 \in SUBSET s1 /\ Code(s2) = Code(s1)
      /\ \A x \in s1 : x.kind \notin {"sticker"} => x \in s2
      /\ \A x \in s2 : x.kind \in {"sticker"} => x \in Code(s1)
      /\ \A x : FencesUpTo(s2, x) = FencesUpTo(s1, x)
    BY WithoutIs
<1> HIDE DEF s2
<1>5. /\ s3 \in SUBSET s2 /\ Code(s3) = Code(s2)
      /\ \A x \in s2 : x.kind \notin {"reaction"} => x \in s3
      /\ \A x \in s3 : x.kind \in {"reaction"} => x \in Code(s2)
      /\ \A x : FencesUpTo(s3, x) = FencesUpTo(s2, x)
    BY WithoutIs
<1> HIDE DEF s3
<1>6. /\ s4 \in SUBSET s3 /\ Code(s4) = Code(s3)
      /\ \A x \in s3 : x.kind \notin Control => x \in s4
      /\ \A x \in s4 : x.kind \in Control => x \in Code(s3)
      /\ \A x : FencesUpTo(s4, x) = FencesUpTo(s3, x)
    <2>1. "fence" \notin Control
        BY DEF Control
    <2>2. QED BY <2>1, WithoutIs
<1> HIDE DEF s4
<1>7. /\ s5 \in SUBSET s4 /\ Code(s5) = Code(s4)
      /\ \A x \in s4 : x.kind \notin {"stray"} => x \in s5
      /\ \A x \in s5 : x.kind \in {"stray"} => x \in Code(s4)
      /\ \A x : FencesUpTo(s5, x) = FencesUpTo(s4, x)
    BY WithoutIs
<1> HIDE DEF s5
<1>8. s5 \in SUBSET s0 /\ s5 \in SUBSET whole /\ Code(s5) = Code(s0) /\ Code(s5) \subseteq Code(whole)
    BY <1>1, <1>2, <1>3, <1>4, <1>5, <1>6, <1>7
<1>9. \A x : FencesUpTo(s5, x) = FencesUpTo(whole, x)
    BY <1>2, <1>3, <1>4, <1>5, <1>6, <1>7
<1>10. ASSUME NEW x \in s5, x.kind \notin {"text", "promise", "fence"} \cup Markers
       PROVE  x \in Code(whole)
    <2>1. x \in Lines /\ x \in whole /\ x.kind \notin {"send", "dm"}
        BY <1>1, <1>8 DEF IsText
    <2>2. x.kind # "ignore"
        BY <2>1 DEF HasIgnore, Has
    <2>3. x.kind \in {"photo", "sticker", "reaction", "stray"} \cup Control
        BY <2>1, <2>2, <1>10 DEF Lines, Kinds, Markers, Control
    <2>4. x \in s1 /\ x \in s2 /\ x \in s3 /\ x \in s4
        BY <1>4, <1>5, <1>6, <1>7
    <2>5. x \in Code(s5)
        BY <2>3, <2>4, <1>3, <1>4, <1>5, <1>6, <1>7
    <2>6. QED BY <2>5, <1>8
<1>11. ASSUME NEW x \in Words(whole) PROVE x \in s5
    <2>1. x \in whole /\ x.kind \in {"text", "promise", "fence"}
        BY DEF Words
    <2>2. x \in s0 /\ x \in s1 /\ x \in s2 /\ x \in s3
        BY <2>1, <1>1, <1>3, <1>4, <1>5
    <2>3. x.kind \notin Control
        BY <2>1 DEF Control
    <2>4. QED BY <2>1, <2>2, <2>3, <1>6, <1>7
<1>12. ASSUME ~CodeIsCut(whole) PROVE ~CodeIsCut(s5)
    <2>1. ASSUME NEW x \in Code(s5) PROVE Unit(s5, x) \subseteq Unit(whole, x)
        <3>1. \A y : NthCode(s5, y) = NthCode(whole, y)
            BY <1>9 DEF NthCode
        <3>2. QED BY <2>1, <3>1, <1>8 DEF Unit
    <2>2. QED BY <2>1, <1>8, <1>12, PartsAreUncut
<1>13. QED BY <1>0, <1>1, <1>8, <1>10, <1>11, <1>12
-----------------------------------------------------------------------------
(* Drafts and results at every moment                                      *)

IsResult(r) ==
    r = [messages |-> r.messages, row |-> r.row, sticker |-> r.sticker,
         reaction |-> r.reaction, photo |-> r.photo, dm |-> r.dm, send |-> r.send]
\* What the draft was made of: the reply of the output, or the fixed line.
MadeOf(r, text) ==
    \/ r = SplitReply(text)
    \/ /\ r = FallbackLine
       /\ text = {}

ComposeInv ==
    /\ IsText(draft) /\ IsText(output) /\ IsResult(result)
    /\ phase = "done" => /\ \A m \in result.messages : IsText(m)
                         /\ IsText(result.row)
                         /\ RefuseEnabled => ComposeHolds
    /\ phase # "done" => result.messages = {} /\ result.row = {}
    /\ phase = "start" => again = FALSE
    /\ phase = "calling" /\ again => draft = SplitReply(output)
    /\ phase = "composed" /\ RefuseEnabled => draft = Drafted(Said) /\ ~HasIgnore(Said)

\* The model's output is a text.
LEMMA NumberedIsText ==
    ASSUME NEW o \in Outputs
    PROVE  IsText(Numbered(o))
<1>1. o \in Seq(Kinds)
    BY ComposeAssumption
<1>2. PICK n \in Nat : DOMAIN o = 1..n /\ \A i \in 1..n : o[i] \in Kinds
    BY <1>1
<1> DEFINE line(i) == [kind |-> o[i], at |-> i]
<1>3. Numbered(o) = {line(i) : i \in 1..n}
    BY <1>2, Zenon DEF Numbered
<1>4. \A i \in 1..n : line(i) \in Lines /\ line(i).at = i
    BY <1>2 DEF Lines
<1>5. IsFiniteSet({line(i) : i \in 1..n})
    <2>1. IsFiniteSet(1..n)
        BY FS_Interval
    <2> DEFINE f == [i \in 1..n |-> line(i)]
               T == {line(i) : i \in 1..n}
    <2>2. f \in Surjection(1..n, T)
        BY DEF Surjection
    <2> HIDE DEF f, T, line
    <2>3. IsFiniteSet(T)
        BY <2>1, <2>2, FS_Surjection
    <2>4. QED BY <2>3 DEF T
<1>6. QED
    <2> HIDE DEF line
    <2> QED BY <1>3, <1>4, <1>5 DEF IsText

\* So are no text and the fixed line.
LEMMA SmallTexts == IsText({}) /\ IsText(FallbackLine)
<1>1. FallbackLine \in SUBSET Lines
    BY DEF FallbackLine, Lines, Kinds
<1>2. QED
    BY <1>1, FS_EmptySet, FS_Singleton DEF IsText, FallbackLine

\* So is what is taken out of one.
LEMMA DraftIsText ==
    ASSUME NEW t, IsText(t)
    PROVE  IsText(SplitReply(t)) /\ IsText(Drafted(t)) /\ IsText(StripBlockMarkers(t))
<1>1. WithoutAnywhere(t, {"send", "dm"}) \in SUBSET t
    BY DEF WithoutAnywhere
<1>2. Drafted(t) \in SUBSET t
    BY <1>1, WithoutIs DEF Drafted
<1>3. QED
    BY <1>2, ExtractIs, StripIs, PartIsText

\* Whatever reply is settled on, the draft is made of it.
LEMMA SettledIsDrafted ==
    ASSUME IsResult(result), phase = "calling", result.messages = {}, result.row = {},
           NEW r, NEW t, IsText(r), IsText(t), MadeOf(r, t), Settle(r, t)
    PROVE  ComposeInv'
<1>1. CASE phase' = "refused"
    <2>1. draft' = {} /\ output' = t /\ result' = result
        BY <1>1 DEF Settle
    <2>2. IsText(draft') /\ IsText(output')
        BY <2>1, SmallTexts
    <2>3. IsResult(result') /\ result'.messages = {} /\ result'.row = {}
        BY <2>1
    <2>4. QED BY <1>1, <2>2, <2>3 DEF ComposeInv
<1>2. CASE ~(RefuseEnabled /\ (HasIgnore(r) \/ r = {}))
    <2>1. /\ phase' = "composed" /\ output' = t /\ draft' = Drafted(r)
          /\ \E a, b, c : result' = [result EXCEPT !.send = a, !.dm = b, !.photo = c]
        BY <1>2 DEF Settle, Drafted
    <2>2. IsText(draft') /\ IsText(output')
        BY <2>1, DraftIsText
    <2>3. IsResult(result') /\ result'.messages = {} /\ result'.row = {}
        BY <2>1 DEF IsResult
    <2>4. ASSUME RefuseEnabled PROVE draft' = Drafted(Said') /\ ~HasIgnore(Said')
        <3>1. ~HasIgnore(r) /\ r # {}
            BY <1>2, <2>4
        <3>2. SplitReply({}) = {}
            BY ExtractIs
        <3>3. Said' = IF t = {} THEN FallbackLine ELSE SplitReply(t)
            BY <2>1, Zenon DEF Said
        <3>4. Said' = r
            BY <3>1, <3>2, <3>3 DEF MadeOf
        <3>5. QED BY <2>1, <3>1, <3>4
    <2>5. QED BY <2>1, <2>2, <2>3, <2>4 DEF ComposeInv
<1>3. QED BY <1>1, <1>2 DEF Settle

\* A step that ends the asking without a draft.
LEMMA NothingDrafted ==
    ASSUME ComposeInv, phase = "calling", phase' \in {"refused", "failed"},
           result' = result, IsText(draft'), IsText(output')
    PROVE  ComposeInv'
    BY DEF ComposeInv

\* An answer of the model keeps the invariant,
LEMMA RespondDrafts ==
    ASSUME ComposeInv, NEW o \in Outputs, Respond(o)
    PROVE  ComposeInv'
<1> DEFINE text == Numbered(o)
           taken == SplitReply(text)
<1>1. IsText(text) /\ IsText(taken)
    BY NumberedIsText, DraftIsText
<1>2. /\ phase = "calling" /\ IsText(draft) /\ IsText(output) /\ IsResult(result)
      /\ result.messages = {} /\ result.row = {}
      /\ again => draft = SplitReply(output)
    BY DEF ComposeInv, Respond
<1>3. CASE IsUntagged(text) /\ ~strict
    <2>1. UNCHANGED <<phase, again, draft, output, result>>
        BY <1>3 DEF Respond
    <2>2. QED BY <1>2, <2>1 DEF ComposeInv
<1>4. CASE IsUntagged(text) /\ strict /\ again /\ Settle(draft, output)
    <2>1. MadeOf(draft, output)
        BY <1>2, <1>4, Zenon DEF MadeOf
    <2>2. QED BY <1>2, <1>4, <2>1, SettledIsDrafted
<1>5. CASE IsUntagged(text) /\ strict /\ ~again /\ Untagged
    <2>1. CASE Settle(FallbackLine, {})
        BY <1>2, <2>1, SettledIsDrafted, SmallTexts DEF MadeOf
    <2>2. CASE phase' = "refused" /\ draft' = {} /\ output' = {} /\ UNCHANGED result
        <3>1. IsText(draft') /\ IsText(output')
            BY <2>2, SmallTexts
        <3>2. QED BY <1>2, <2>2, <3>1, NothingDrafted
    <2>3. QED BY <1>5, <2>1, <2>2 DEF Untagged
<1>6. CASE again' = TRUE /\ draft' = taken /\ output' = text /\ UNCHANGED <<phase, result>>
    BY <1>1, <1>2, <1>6 DEF ComposeInv
<1>7. CASE Settle(taken, text)
    <2> HIDE DEF text
    <2>1. MadeOf(taken, text)
        BY Zenon DEF MadeOf
    <2> HIDE DEF taken
    <2>2. QED BY <1>1, <1>2, <1>7, <2>1, SettledIsDrafted
<1>8. QED
    BY <1>3, <1>4, <1>5, <1>6, <1>7, Zenon DEF Respond

\* and so does an error,
LEMMA FailureDrafts ==
    ASSUME ComposeInv, NEW retryable \in BOOLEAN, CallFails(retryable)
    PROVE  ComposeInv'
<1>1. /\ phase = "calling" /\ IsText(draft) /\ IsText(output) /\ IsResult(result)
      /\ result.messages = {} /\ result.row = {}
      /\ again => draft = SplitReply(output)
    BY DEF ComposeInv, CallFails
<1>2. CASE Retry
    <2>1. UNCHANGED <<phase, again, draft, output, result>>
        BY <1>2 DEF Retry
    <2>2. QED BY <1>1, <2>1 DEF ComposeInv
<1>3. CASE again /\ Settle(draft, output)
    <2>1. MadeOf(draft, output)
        BY <1>1, <1>3, Zenon DEF MadeOf
    <2>2. QED BY <1>1, <1>3, <2>1, SettledIsDrafted
<1>4. CASE phase' = "failed" /\ UNCHANGED <<draft, output, result>>
    BY <1>1, <1>4, NothingDrafted
<1>5. QED BY <1>2, <1>3, <1>4 DEF CallFails, GiveUpCalling

\* What finalize delivers of a draft is its answer.
LEMMA DeliveredHolds ==
    ASSUME ComposeInv, RefuseEnabled, Deliver
    PROVE  ComposeHolds'
<1> DEFINE whole == Said
           clean == Cleaned(draft)
           messages == DeliveryMessages(clean, turn.splits, turn.bot)
           kept == StripBlockMarkers(clean)
           chat == UNION messages
<1>1. /\ draft = Drafted(whole) /\ ~HasIgnore(whole) /\ IsText(output) /\ IsResult(result)
    BY DEF ComposeInv, Deliver
<1>2. /\ phase' = "done" /\ output' = output /\ turn' = turn
      /\ result'.messages = messages /\ result'.row = kept
    <2>1. /\ phase' = "done" /\ output' = output /\ turn' = turn
          /\ \E a, b, c : result' = [result EXCEPT !.messages = messages, !.row = kept,
                                        !.sticker = a, !.reaction = b, !.photo = c]
        BY Zenon DEF Deliver, Cleaned
    <2> HIDE DEF messages, kept
    <2>2. QED BY <2>1, <1>1 DEF IsResult
<1>3. IsText(whole)
    BY <1>1, SmallTexts, DraftIsText DEF Said
<1> HIDE DEF whole
<1>4. /\ clean \in SUBSET whole /\ Code(clean) \subseteq Code(whole)
      /\ \A x \in clean : x.kind \notin {"send", "dm"}
      /\ \A x \in clean : x.kind \notin {"text", "promise", "fence"} \cup Markers
                          => x \in Code(whole)
      /\ Words(whole) \subseteq clean
      /\ ~CodeIsCut(whole) => ~CodeIsCut(clean)
    BY <1>1, <1>3, CleanIs
<1> HIDE DEF clean
<1>5. /\ \A m \in messages : m \in SUBSET clean
      /\ InOrderOf(messages)
      /\ IF turn.bot THEN Before(Words(chat), Words(clean) \ chat)
         ELSE Words(clean) \subseteq chat
      /\ ~CodeIsCut(clean) => \A x \in chat : x.kind \in Markers => x \in Code(clean)
    <2>1. IsText(clean)
        BY <1>3, <1>4, PartIsText
    <2>2. Delivers(messages, clean, turn.bot)
        BY <2>1, DeliveredIs
    <2>3. QED BY <2>2, Zenon DEF Delivers
<1> HIDE DEF messages
<1>6. /\ kept \in SUBSET clean
      /\ \A x \in clean : x.kind \notin Markers => x \in kept
      /\ \A x \in kept : x.kind \in Markers => x \in Code(clean)
    BY StripIs
<1> HIDE DEF kept
<1>7. chat \in SUBSET clean
    BY <1>5
<1>8. Words(clean) = Words(whole)
    BY <1>4 DEF Words
<1>9. InChat' = chat /\ Said' = whole /\ result'.row = kept
    <2>1. InChat' = chat
        BY <1>2 DEF InChat
    <2>2. Said' = whole
        BY <1>2, Zenon DEF Said, whole
    <2>3. QED BY <2>1, <2>2, <1>2
<1> HIDE DEF chat
\* The fixed line has words only; any other reply is that of the output.
<1>10. \/ whole = SplitReply(output)
       \/ output = {} /\ \A x \in whole : x.kind = "text"
    BY DEF whole, Said, FallbackLine
<1>11. ReasoningStaysInside'
    <2> SUFFICES ASSUME NEW g \in AnswerTags(output), NEW x \in chat \cup kept
                 PROVE  g.at < x.at
        BY <1>2, <1>9 DEF ReasoningStaysInside
    <2>1. x \in whole
        BY <1>4, <1>6, <1>7
    <2>2. output # {}
        BY DEF AnswerTags
    <2>3. QED BY <1>10, <2>1, <2>2, ExtractIs
<1>12. ASSUME NEW x \in chat \cup kept
       PROVE  /\ x.kind \notin {"dm", "send"}
              /\ x.kind \notin {"text", "promise", "fence"} \cup Markers
                 => x \in Code(SplitReply(output))
    BY <1>4, <1>6, <1>7, <1>10
<1>13. ASSUME NEW x \in kept, x.kind \in Markers PROVE x \in Code(SplitReply(output))
    <2>1. x \in Code(whole) /\ x \in whole
        BY <1>4, <1>6, <1>13
    <2>2. x.kind # "text"
        BY <1>13 DEF Markers
    <2>3. QED BY <2>1, <2>2, <1>10
<1>14. ASSUME ~CodeIsCut(SplitReply(output)), NEW x \in chat, x.kind \in Markers
       PROVE  x \in Code(SplitReply(output))
    <2>1. x \in whole /\ x.kind # "text"
        BY <1>4, <1>7, <1>14 DEF Markers
    <2>2. whole = SplitReply(output)
        BY <1>10, <2>1
    <2>3. QED BY <2>2, <1>4, <1>5, <1>14
<1>15. NoControlInChat'
    BY <1>2, <1>9, <1>12, <1>13, <1>14 DEF NoControlInChat, MarkersStayInside
<1>16. AnswerArrivesWhole'
    <2>1. Words(kept) = Words(whole)
        <3>1. Words(kept) = Words(clean)
            BY <1>6, WordsOfUnion
        <3>2. QED BY <3>1, <1>8
    <2>2. Words(chat) \subseteq Words(whole)
        BY <1>7, <1>8 DEF Words
    <2>3. IF turn.bot THEN Before(Words(chat), Words(whole) \ chat)
          ELSE Words(whole) \subseteq chat
        BY <1>5, <1>8
    <2>4. QED BY <1>2, <1>5, <1>9, <2>1, <2>2, <2>3 DEF AnswerArrivesWhole, InOrderOf
<1>17. QED BY <1>11, <1>15, <1>16 DEF ComposeHolds, ReplyIsClean

\* and the delivery.
LEMMA DeliverDrafts ==
    ASSUME ComposeInv, Deliver
    PROVE  ComposeInv'
<1> DEFINE clean == Cleaned(draft)
           messages == DeliveryMessages(clean, turn.splits, turn.bot)
           kept == StripBlockMarkers(clean)
<1>1. /\ phase' = "done" /\ output' = output /\ draft' = kept
      /\ \E a, b, c : result' = [result EXCEPT !.messages = messages, !.row = kept,
                                    !.sticker = a, !.reaction = b, !.photo = c]
    BY Zenon DEF Deliver, Cleaned
<1>2. IsText(draft) /\ IsText(output) /\ IsResult(result)
    BY DEF ComposeInv
<1>3. IsText(clean)
    <2>1. "fence" \notin Control
        BY DEF Control
    <2>2. clean \in SUBSET draft
        BY <2>1, WithoutIs DEF Cleaned
    <2>3. QED BY <1>2, <2>2, PartIsText
<1> HIDE DEF clean
<1>4. IsText(kept)
    BY <1>3, DraftIsText
<1>5. \A m \in messages : IsText(m)
    <2>1. Delivers(messages, clean, turn.bot)
        BY <1>3, DeliveredIs
    <2>2. \A m \in messages : m \in SUBSET clean
        BY <2>1, Zenon DEF Delivers
    <2>3. QED BY <2>2, <1>3, PartIsText
<1> HIDE DEF messages, kept
<1>6. IsResult(result') /\ result'.messages = messages /\ result'.row = kept
    BY <1>1, <1>2 DEF IsResult
<1>7. RefuseEnabled => ComposeHolds'
    BY DeliveredHolds
<1>8. QED BY <1>1, <1>2, <1>4, <1>5, <1>6, <1>7 DEF ComposeInv

\* At every moment the draft is what compose leaves of the reply, the reply is
\* that of the output, and what was delivered is its answer.
THEOREM DraftsInvariant == ComposeSpec => []ComposeInv
<1>1. ComposeInit => ComposeInv
    <2> SUFFICES ASSUME ComposeInit PROVE ComposeInv
        OBVIOUS
    <2>1. phase = "start" /\ again = FALSE /\ draft = {} /\ output = {} /\ result = Nothing
        BY DEF ComposeInit
    <2>2. IsResult(result) /\ result.messages = {} /\ result.row = {}
        BY <2>1 DEF IsResult, Nothing
    <2>3. QED BY <2>1, <2>2, SmallTexts DEF ComposeInv
<1>2. ComposeInv /\ [ComposeNext]_composeVars => ComposeInv'
    <2> SUFFICES ASSUME ComposeInv, [ComposeNext]_composeVars PROVE ComposeInv'
        OBVIOUS
    <2>1. CASE Begin
        <3>1. /\ phase = "start" /\ phase' \in {"refused", "calling"}
              /\ again = FALSE /\ again' = again
              /\ draft' = draft /\ output' = output /\ result' = result
            BY <2>1 DEF Begin, ComposeInv
        <3>2. QED BY <3>1 DEF ComposeInv
    <2>2. CASE UNCHANGED composeVars
        <3>1. UNCHANGED <<turn, phase, again, draft, output, result>>
            BY <2>2 DEF composeVars
        <3>2. Said' = Said
            BY <3>1, Zenon DEF Said
        <3>3. ComposeHolds' <=> ComposeHolds
            BY <3>1, <3>2, Zenon DEF ComposeHolds, ReplyIsClean, ReasoningStaysInside, InChat,
                  NoControlInChat, MarkersStayInside, AnswerArrivesWhole, Said
        <3>4. QED BY <3>1, <3>2, <3>3 DEF ComposeInv
    <2>3. QED
        BY <2>1, <2>2, RespondDrafts, FailureDrafts, DeliverDrafts DEF ComposeNext
<1>3. QED
    BY <1>1, <1>2, PTL DEF ComposeSpec

\* What is delivered of an output is its answer: nothing written before the
\* answer and nothing meant for the code, but every line of words, once and in
\* order, in the messages as in the history.  Where compose may refuse.
THEOREM AnswersStayWhole == RefuseEnabled => (ComposeSpec => []ComposeHolds)
<1> SUFFICES ASSUME RefuseEnabled PROVE ComposeSpec => []ComposeHolds
    OBVIOUS
<1>1. ComposeInv => ComposeHolds
    <2> SUFFICES ASSUME ComposeInv, phase # "done" PROVE ComposeHolds
        BY DEF ComposeInv
    <2>1. result.messages = {} /\ result.row = {}
        BY DEF ComposeInv
    <2>2. InChat = {}
        BY <2>1 DEF InChat
    <2>3. QED
        BY <2>1, <2>2 DEF ComposeHolds, ReplyIsClean, ReasoningStaysInside, NoControlInChat,
              MarkersStayInside, AnswerArrivesWhole
<1>2. QED
    BY <1>1, DraftsInvariant, PTL

\* What an answer passes on its way to the chat are texts, in every phase, and
\* the requests for it are counted.
THEOREM ComposeStaysTyped == ComposeSpec => []ComposeTypeOK
<1> DEFINE Phases == {"start", "calling", "composed", "refused", "failed", "done"}
           TurnInv == turn \in Turns /\ phase \in Phases
<1>1. ComposeInit => TurnInv
    BY DEF ComposeInit
<1>2. TurnInv /\ [ComposeNext]_composeVars => TurnInv'
    <2> SUFFICES ASSUME TurnInv, [ComposeNext]_composeVars PROVE TurnInv'
        OBVIOUS
    <2>1. ASSUME NEW r, NEW t, Settle(r, t) PROVE phase' \in Phases
        BY <2>1 DEF Settle
    <2>2. CASE Begin \/ Deliver
        BY <2>2 DEF Begin, Deliver
    <2>3. ASSUME NEW o \in Outputs, Respond(o) PROVE TurnInv'
        <3>1. turn' = turn
            BY <2>3 DEF Respond
        <3>2. \/ phase' = phase \/ phase' = "refused" \/ \E r, t : Settle(r, t)
            BY <2>3, Zenon DEF Respond, Untagged
        <3>3. QED BY <3>1, <3>2, <2>1
    <2>4. ASSUME NEW retryable \in BOOLEAN, CallFails(retryable) PROVE TurnInv'
        <3>1. turn' = turn
            BY <2>4 DEF CallFails
        <3>2. \/ phase' = phase \/ phase' = "failed" \/ \E r, t : Settle(r, t)
            BY <2>4, Zenon DEF CallFails, Retry, GiveUpCalling
        <3>3. QED BY <3>1, <3>2, <2>1
    <2>5. CASE UNCHANGED composeVars
        BY <2>5 DEF composeVars
    <2>6. QED BY <2>2, <2>3, <2>4, <2>5 DEF ComposeNext
<1>3. ComposeInv => (\A m \in result.messages : IsText(m)) /\ IsText(result.row)
    <2> SUFFICES ASSUME ComposeInv PROVE (\A m \in result.messages : IsText(m)) /\ IsText(result.row)
        OBVIOUS
    <2>1. IsText({})
        BY SmallTexts
    <2>2. QED BY <2>1 DEF ComposeInv
<1>4. TurnInv /\ ComposeInv /\ CallsInv /\ CallsAreBounded => ComposeTypeOK
    BY <1>3 DEF ComposeTypeOK, ComposeInv, CallsInv
<1> HIDE DEF TurnInv
<1>5. QED
    BY <1>1, <1>2, <1>4, DraftsInvariant, CallsInvariant, CallsStayBounded, PTL DEF ComposeSpec
-----------------------------------------------------------------------------
(* The messages of the bot                                                 *)

\* What is appended comes last among what is selected.
LEMMA AppendedItems ==
    ASSUME NEW T, NEW s \in Seq(T), NEW x \in T, NEW P \in SUBSET DOMAIN s
    PROVE  /\ ItemsAt(Append(s, x), P) = ItemsAt(s, P)
           /\ ItemsAt(Append(s, x), P \cup {Len(s) + 1}) = Append(ItemsAt(s, P), x)
<1>1. PICK n \in Nat : n = Len(s)
    BY LenProperties
<1>0. PICK t : t = Append(s, x)
    OBVIOUS
<1>2. /\ DOMAIN s = 1..n /\ t \in Seq(T) /\ Len(t) = n + 1 /\ DOMAIN t = 1..n + 1
      /\ \A i \in 1..n : t[i] = s[i]
      /\ t[n + 1] = x
    BY <1>0, <1>1, LenProperties, AppendProperties
<1>3. PICK m, o : m = Cardinality(P) /\ o = Ascending(P)
    OBVIOUS
<1>4. /\ m \in Nat /\ IsFiniteSet(P) /\ o \in [1..m -> P] /\ Increases(o, m)
      /\ \A p \in P : \E k \in 1..m : o[k] = p
      /\ ItemsAt(s, P) \in Seq(T) /\ Len(ItemsAt(s, P)) = m
      /\ \A k \in 1..m : ItemsAt(s, P)[k] = s[o[k]]
    BY <1>3, ItemsAre
<1>5. ItemsAt(t, P) = ItemsAt(s, P)
    <2>1. \A k \in 1..m : t[o[k]] = s[o[k]]
        BY <1>2, <1>4
    <2>2. QED
        BY <1>3, <2>1 DEF ItemsAt
<1>6. PICK R : R = P \cup {n + 1}
    OBVIOUS
<1>7. R \in SUBSET Int /\ IsFiniteSet(R) /\ R \in SUBSET DOMAIN t
    <2>1. R \in SUBSET Int /\ R \in SUBSET DOMAIN t
        BY <1>0, <1>1, <1>2, <1>6
    <2>2. IsFiniteSet(R)
        BY <1>4, <1>6, FS_AddElement
    <2>3. QED
        BY <2>1, <2>2
<1>8. PICK f : f = [k \in 1..m + 1 |-> IF k <= m THEN o[k] ELSE n + 1]
    OBVIOUS
<1>9. f \in [1..m + 1 -> R]
    BY <1>4, <1>6, <1>8
<1>10. Increases(f, m + 1)
    <2> SUFFICES ASSUME NEW i \in 1..m + 1, NEW j \in 1..m + 1, i < j PROVE f[i] < f[j]
        BY DEF Increases
    <2>1. i <= m /\ f[i] = o[i] /\ i \in 1..m
        BY <1>4, <1>8
    <2>2. CASE j <= m
        BY <1>4, <1>8, <2>1, <2>2 DEF Increases
    <2>3. CASE ~(j <= m)
        <3>1. f[j] = n + 1
            BY <1>8, <2>3
        <3>2. o[i] \in 1..n
            BY <1>2, <1>4, <2>1
        <3>3. QED
            BY <1>0, <1>1, <2>1, <3>1, <3>2
    <2>4. QED
        BY <2>2, <2>3
<1>11. \A p \in R : \E k \in 1..m + 1 : f[k] = p
    <2>1. f[m + 1] = n + 1 /\ m + 1 \in 1..m + 1
        BY <1>4, <1>8
    <2>2. ASSUME NEW p \in P PROVE \E k \in 1..m + 1 : f[k] = p
        <3>1. PICK k \in 1..m : o[k] = p
            BY <1>4
        <3>2. f[k] = p /\ k \in 1..m + 1
            BY <1>4, <1>8, <3>1
        <3>3. QED
            BY <3>2
    <2>3. QED
        BY <1>6, <2>1, <2>2
<1>12. m + 1 = Cardinality(R) /\ f = Ascending(R)
    <2>1. m + 1 \in Nat
        BY <1>4
    <2>2. QED
        BY <1>7, <1>9, <1>10, <1>11, <2>1, AscendingIsThe
<1>13. PICK a, b : a = ItemsAt(t, R) /\ b = Append(ItemsAt(s, P), x)
    OBVIOUS
<1>14. /\ a \in Seq(T) /\ Len(a) = m + 1
       /\ \A k \in 1..m + 1 : a[k] = t[f[k]]
    <2>1. a \in Seq(T) /\ Len(a) = Cardinality(R)
        BY <1>2, <1>7, <1>13, ItemsAre
    <2>2. \A k \in 1..Cardinality(R) : a[k] = t[Ascending(R)[k]]
        BY <1>13 DEF ItemsAt
    <2>3. QED
        BY <1>12, <2>1, <2>2
<1>15. /\ b \in Seq(T) /\ Len(b) = m + 1
       /\ \A k \in 1..m : b[k] = ItemsAt(s, P)[k]
       /\ b[m + 1] = x
    BY <1>4, <1>13, AppendProperties
<1>16. \A k \in 1..m + 1 : a[k] = b[k]
    <2>1. ASSUME NEW k \in 1..m PROVE a[k] = b[k]
        <3>1. f[k] = o[k] /\ o[k] \in 1..n /\ k \in 1..m + 1
            BY <1>2, <1>4, <1>8
        <3>2. QED
            BY <1>2, <1>4, <1>14, <1>15, <3>1
    <2>2. a[m + 1] = b[m + 1]
        <3>1. f[m + 1] = n + 1 /\ m + 1 \in 1..m + 1
            BY <1>4, <1>8
        <3>2. QED
            BY <1>2, <1>14, <1>15, <3>1
    <2>3. QED
        BY <1>4, <2>1, <2>2
<1>17. a = b
    BY <1>14, <1>15, <1>16, SeqEqual
<1>18. QED
    BY <1>0, <1>1, <1>5, <1>6, <1>13, <1>17
-----------------------------------------------------------------------------
(* What a chat got                                                         *)

Item == Wordings \cup Claims \cup Extras
Got(g) == {g[i] : i \in DOMAIN g}
BlocksOf(g) == ItemsAt(g, {i \in DOMAIN g : g[i] \in Wordings})
Apart(g) == \A i, j \in DOMAIN g : g[i] = g[j] => i = j \/ g[i] = "photo"
Begins(s, t) == Len(s) <= Len(t) /\ \A i \in 1..Len(s) : s[i] = t[i]

LEMMA NothingYet ==
    /\ <<>> \in Seq(Item) /\ Len(<<>>) = 0 /\ Got(<<>>) = {} /\ Apart(<<>>)
    /\ BlocksOf(<<>>) = <<>>
<1>1. <<>> \in Seq(Item) /\ Len(<<>>) = 0 /\ DOMAIN <<>> = {}
    OBVIOUS
<1>2. BlocksOf(<<>>) \in Seq(Item) /\ Len(BlocksOf(<<>>)) = Cardinality({})
    <2>1. {i \in DOMAIN <<>> : <<>>[i] \in Wordings} = {}
        BY <1>1
    <2>2. QED
        BY <1>1, <2>1, ItemsAre DEF BlocksOf
<1>3. BlocksOf(<<>>) = <<>>
    BY <1>2, FS_EmptySet, EmptySeq
<1>4. QED
    BY <1>1, <1>3 DEF Got, Apart

LEMMA OneMoreItem ==
    ASSUME NEW g \in Seq(Item), NEW x \in Item
    PROVE  /\ Append(g, x) \in Seq(Item) /\ Len(Append(g, x)) = Len(g) + 1
           /\ Len(g) \in Nat
           /\ Got(Append(g, x)) = Got(g) \cup {x}
           /\ BlocksOf(Append(g, x)) = IF x \in Wordings THEN Append(BlocksOf(g), x)
                                                         ELSE BlocksOf(g)
           /\ Apart(g) /\ (x \notin Got(g) \/ x = "photo") => Apart(Append(g, x))
<1>1. PICK n \in Nat : n = Len(g)
    BY LenProperties
<1>0. PICK t : t = Append(g, x)
    OBVIOUS
<1>2. /\ DOMAIN g = 1..n /\ t \in Seq(Item) /\ Len(t) = n + 1 /\ DOMAIN t = 1..n + 1
      /\ \A i \in 1..n : t[i] = g[i]
      /\ t[n + 1] = x
    BY <1>0, <1>1, LenProperties, AppendProperties
<1>3. Got(t) = Got(g) \cup {x}
    BY <1>2 DEF Got
<1>4. PICK P : P = {i \in DOMAIN g : g[i] \in Wordings}
    OBVIOUS
<1>5. BlocksOf(t) = IF x \in Wordings THEN Append(BlocksOf(g), x) ELSE BlocksOf(g)
    <2>0. P \in SUBSET DOMAIN g
        BY <1>4
    <2>1. /\ ItemsAt(t, P) = ItemsAt(g, P)
          /\ ItemsAt(t, P \cup {n + 1}) = Append(ItemsAt(g, P), x)
        BY <1>0, <1>1, <2>0, AppendedItems
    <2>2. CASE x \in Wordings
        <3>1. {i \in DOMAIN t : t[i] \in Wordings} = P \cup {n + 1}
            BY <1>2, <1>4, <2>2
        <3>2. QED
            BY <1>4, <2>1, <2>2, <3>1 DEF BlocksOf
    <2>3. CASE x \notin Wordings
        <3>1. {i \in DOMAIN t : t[i] \in Wordings} = P
            BY <1>2, <1>4, <2>3
        <3>2. QED
            BY <1>4, <2>1, <2>3, <3>1 DEF BlocksOf
    <2>4. QED
        BY <2>2, <2>3
<1>6. ASSUME Apart(g), x \notin Got(g) \/ x = "photo" PROVE Apart(t)
    BY <1>2, <1>6 DEF Apart, Got
<1>7. QED
    BY <1>0, <1>1, <1>2, <1>3, <1>5, <1>6

\* The words of an answer that a chat got are those of its blocks.
LEMMA BlocksAre ==
    ASSUME NEW g \in Seq(Item)
    PROVE  /\ BlocksOf(g) \in Seq(Item) /\ Len(BlocksOf(g)) \in Nat
           /\ \A x \in Got(g) \cap Wordings : \E k \in 1..Len(BlocksOf(g)) : BlocksOf(g)[k] = x
           /\ \A k \in 1..Len(BlocksOf(g)) : BlocksOf(g)[k] \in Got(g) \cap Wordings
<1>1. PICK P : P = {i \in DOMAIN g : g[i] \in Wordings}
    OBVIOUS
<1>2. PICK m, o, b : m = Cardinality(P) /\ o = Ascending(P) /\ b = BlocksOf(g)
    OBVIOUS
<1>3. /\ m \in Nat /\ o \in [1..m -> P] /\ \A p \in P : \E k \in 1..m : o[k] = p
      /\ b \in Seq(Item) /\ Len(b) = m /\ \A k \in 1..m : b[k] = g[o[k]]
    <2>1. P \in SUBSET DOMAIN g
        BY <1>1
    <2>2. b = ItemsAt(g, P)
        BY <1>1, <1>2 DEF BlocksOf
    <2>3. QED
        BY <1>2, <2>1, <2>2, ItemsAre
<1>4. ASSUME NEW x \in Got(g) \cap Wordings PROVE \E k \in 1..m : b[k] = x
    <2>1. PICK i \in DOMAIN g : g[i] = x
        BY DEF Got
    <2>2. i \in P
        BY <1>1, <2>1
    <2>3. QED
        BY <1>3, <2>1, <2>2
<1>5. \A k \in 1..m : b[k] \in Got(g) \cap Wordings
    BY <1>1, <1>3 DEF Got
<1>6. QED
    BY <1>2, <1>3, <1>4, <1>5

\* A call gives the chat its item, or it fails and may give nothing; a photo
\* may be given twice.
Times(n, x) == [i \in 1..n |-> x]

LEMMA CopiesAre ==
    ASSUME NEW g \in Seq(Item), NEW x \in Item
    PROVE  /\ g \o Times(0, x) = g
           /\ g \o Times(1, x) = Append(g, x)
           /\ g \o Times(2, x) = Append(Append(g, x), x)
<1>1. g \o Times(0, x) = g
    <2>1. Times(0, x) = <<>>
        BY DEF Times
    <2>2. QED
        BY <2>1, ConcatEmptySeq
<1>2. g \o Times(1, x) = Append(g, x)
    <2>1. Times(1, x) = <<x>>
        BY DEF Times
    <2>2. QED
        BY <2>1, AppendIsConcat
<1>3. g \o Times(2, x) = Append(Append(g, x), x)
    <2>1. <<x>> \in Seq(Item) /\ Append(g, x) \in Seq(Item)
        BY OneMoreItem
    <2>2. Times(2, x) = <<x>> \o <<x>>
        <3>1. /\ <<x>> \o <<x>> \in Seq(Item) /\ Len(<<x>> \o <<x>>) = 2
              /\ \A i \in 1..2 : (<<x>> \o <<x>>)[i] = x
            BY <2>1, ConcatProperties
        <3>2. Times(2, x) = <<x, x>>
            BY DEF Times
        <3>3. <<x, x>> \in Seq(Item) /\ Len(<<x, x>>) = 2 /\ \A i \in 1..2 : <<x, x>>[i] = x
            OBVIOUS
        <3>4. QED
            BY <3>1, <3>2, <3>3, SeqEqual
    <2>3. Append(g, x) = g \o <<x>> /\ Append(Append(g, x), x) = Append(g, x) \o <<x>>
        BY <2>1, AppendIsConcat
    <2>4. (g \o <<x>>) \o <<x>> = g \o (<<x>> \o <<x>>)
        BY <2>1, ConcatAssociative
    <2>5. QED
        BY <2>2, <2>3, <2>4
<1>4. QED
    BY <1>1, <1>2, <1>3

-----------------------------------------------------------------------------
(* What a handler has got done at each stage                               *)

HasWordsIn(a) == a.blocks # <<>> \/ a.outbound # NoChat

\* The words are heard: spoken or written, if nothing failed.
Heard(a, g, f) ==
    HasWordsIn(a) /\ ~f => "voice" \in Got(g) \/ Got(g) \cap (Wordings \cup Claims \cup {"reply"}) # {}

\* A photo that was promised is there, or its absence is told.
Pictured(a, g) == a.photo # "none" => "photo" \in Got(g) \/ "no photo" \in Got(g)

\* All of the words are still to be sent.
Whole(a, sp) ==
    \/ a.outbound = NoChat /\ sp = a.blocks
    \/ a.outbound # NoChat /\ \E c \in Claims : sp = <<c>>

\* What is still to be sent follows what the chat got.
Follows(a, sp, g) ==
    \/ Begins(BlocksOf(g) \o sp, a.blocks)
    \/ BlocksOf(g) = <<>> /\ \E c \in Claims : sp = <<c>> /\ c \notin Got(g)

Fine(u, a, g) ==
    /\ IsInjective(a.blocks)
    /\ Apart(g) /\ Begins(BlocksOf(g), a.blocks) /\ Len(g) <= MaxBlocks + 6
    /\ "denial" \in Got(g) /\ u.kind # "note" => u.sender # "bot"

StageOK(st, u, a, sp, g, f) ==
    /\ st \in {"idle", "media", "access", "greet", "note", "ask"} => g = <<>> /\ a = NoAnswer
    /\ st = "media" => u.kind \in Media
    /\ st = "note" => u.kind = "note"
    /\ st = "cross" => g = <<>> /\ sp = a.blocks
    /\ st \in {"dm", "react"} => g = <<>> /\ Whole(a, sp)
    /\ st \in {"only", "voice"} =>
          Got(g) \subseteq {"reaction"} /\ Len(g) <= 1 /\ Whole(a, sp)
          /\ (st = "only" <=> a.tag = "only")
    /\ st = "text" =>
          Got(g) \cap Extras \subseteq {"reaction", "voice"} /\ Len(g) + Len(sp) <= MaxBlocks + 2
          /\ Follows(a, sp, g) /\ a.tag # "only" /\ (sp # <<>> \/ Heard(a, g, f))
    /\ st = "photo" =>
          Got(g) \cap Extras \subseteq {"reaction", "voice"} /\ Len(g) <= MaxBlocks + 2
          /\ a.tag # "only" /\ Heard(a, g, f)
    /\ st = "extra" =>
          "sticker" \notin Got(g) /\ Len(g) <= MaxBlocks + 5
          /\ a.tag # "only" /\ Heard(a, g, f) /\ Pictured(a, g)
    /\ st = "sticker" =>
          "sticker" \notin Got(g)
          /\ IF a.tag = "only" THEN Got(g) \subseteq {"reaction"} /\ Len(g) <= 1 /\ Whole(a, sp)
             ELSE Len(g) <= MaxBlocks + 5 /\ Heard(a, g, f) /\ Pictured(a, g)
    /\ st = "fallback" =>
          Got(g) \subseteq {"reaction", "sticker"} /\ Len(g) <= 2 /\ Whole(a, sp)
          /\ a.tag = "only"
    /\ st = "done" =>
          IF a.tag = "only" THEN Heard(a, g, f) \/ "sticker" \in Got(g)
          ELSE Heard(a, g, f) /\ Pictured(a, g)
    /\ st = "dropped" => u.kind \in {"sticker", "voice"} \/ ~u.words

\* What is said of other chats and of notes is so, or will be when it is said.
TrueOf(h) ==
    /\ "sent there" \in Got(got[h]) \cup Got(speech[h]) => <<h, "target">> \in arrived
    /\ "noted" \in Got(got[h]) => h \in notes
    /\ h \in remembered => <<h, "owner">> \in arrived
    /\ \A where \in {"target", "owner"} : <<h, where>> \in reported => <<h, where>> \in arrived

HandlerTypes ==
    /\ stage \in [Handlers -> Stages] /\ update \in [Handlers -> Update]
    /\ answer \in [Handlers -> Answer] /\ speech \in [Handlers -> Seq(Wordings \cup Claims)]
    /\ got \in [Handlers -> Seq(Item)] /\ failed \in [Handlers -> BOOLEAN]

SharedTypes ==
    /\ arrived \subseteq Handlers \X {"target", "owner"}
    /\ reported \subseteq Handlers \X {"target", "owner", "reaction"}
    /\ remembered \subseteq Handlers /\ notes \subseteq Handlers /\ known \subseteq Chats
    /\ since \in [Chats -> 0..MinBetween]

BotInv ==
    /\ HandlerTypes /\ SharedTypes
    /\ \A h \in Handlers :
          /\ Fine(update[h], answer[h], got[h])
          /\ StageOK(stage[h], update[h], answer[h], speech[h], got[h], failed[h])
          /\ TrueOf(h)

LEMMA BotBounds ==
    /\ MaxBlocks \in Nat /\ MaxBlocks > 0 /\ MinBetween \in Nat
    /\ Private \in Chats /\ NoChat \notin Chats
    /\ Wordings \cap Claims = {} /\ Wordings \cap Extras = {}
    /\ \A h \in Handlers :
          /\ Updates[h] \subseteq Update /\ Updates[h] # {} /\ Answers[h] \subseteq Answer
          /\ \A a \in Answers[h] : IsInjective(a.blocks)
BY BotAssumption DEF BotAssumption

LEMMA HandlerIs ==
    ASSUME BotInv, NEW h \in Handlers
    PROVE  /\ stage[h] \in Stages /\ update[h] \in Update /\ answer[h] \in Answer
           /\ speech[h] \in Seq(Wordings \cup Claims) /\ got[h] \in Seq(Item)
           /\ failed[h] \in BOOLEAN
           /\ Fine(update[h], answer[h], got[h])
           /\ StageOK(stage[h], update[h], answer[h], speech[h], got[h], failed[h])
           /\ TrueOf(h)
BY DEF BotInv, HandlerTypes

\* The handlers but one stay where they are, in what is theirs ...
Alone(h) ==
    \A k \in Handlers \ {h} :
        /\ stage'[k] = stage[k] /\ update'[k] = update[k] /\ answer'[k] = answer[k]
        /\ speech'[k] = speech[k] /\ got'[k] = got[k] /\ failed'[k] = failed[k]

\* ... and in what is told of them.
Speaks(h) ==
    /\ arrived \subseteq arrived' /\ notes \subseteq notes'
    /\ \A k \in Handlers \ {h} :
          /\ k \in remembered' => k \in remembered
          /\ \A where \in {"target", "owner"} :
                <<k, where>> \in reported' => <<k, where>> \in reported

\* A step of one handler leaves the others where they are, whatever it adds to
\* what they share.
LEMMA OneHandler ==
    ASSUME BotInv, NEW h \in Handlers, HandlerTypes', SharedTypes', Alone(h), Speaks(h),
           Fine(update'[h], answer'[h], got'[h]),
           StageOK(stage'[h], update'[h], answer'[h], speech'[h], got'[h], failed'[h]),
           TrueOf(h)'
    PROVE  BotInv'
<1>1. ASSUME NEW k \in Handlers
      PROVE  /\ Fine(update'[k], answer'[k], got'[k])
             /\ StageOK(stage'[k], update'[k], answer'[k], speech'[k], got'[k], failed'[k])
             /\ TrueOf(k)'
    <2>1. CASE k = h
        BY <2>1
    <2>2. CASE k # h
        <3>1. /\ stage'[k] = stage[k] /\ update'[k] = update[k] /\ answer'[k] = answer[k]
              /\ speech'[k] = speech[k] /\ got'[k] = got[k] /\ failed'[k] = failed[k]
            BY <2>2 DEF Alone
        <3>2. TrueOf(k)'
            BY <2>2, <3>1 DEF BotInv, TrueOf, Speaks
        <3>3. QED
            BY <3>1, <3>2 DEF BotInv
    <2>3. QED
        BY <2>1, <2>2
<1>2. QED
    BY <1>1 DEF BotInv

\* Nothing new is told of other chats, notes and the history.
Silent(h) ==
    /\ UNCHANGED <<elsewhere, notes>>
    /\ known' \subseteq Chats /\ since' \in [Chats -> 0..MinBetween]
    /\ "sent there" \in Got(got'[h]) \cup Got(speech'[h]) =>
          "sent there" \in Got(got[h]) \cup Got(speech[h])
    /\ "noted" \in Got(got'[h]) => "noted" \in Got(got[h])

LEMMA SilentHandler ==
    ASSUME BotInv, NEW h \in Handlers, HandlerTypes', Alone(h), Silent(h),
           Fine(update'[h], answer'[h], got'[h]),
           StageOK(stage'[h], update'[h], answer'[h], speech'[h], got'[h], failed'[h])
    PROVE  BotInv'
<1>1. SharedTypes'
    BY DEF BotInv, SharedTypes, elsewhere, Silent
<1>2. TrueOf(h)'
    BY DEF BotInv, TrueOf, elsewhere, Silent
<1>3. Speaks(h)
    BY DEF elsewhere, Silent, Speaks
<1>4. QED
    BY <1>1, <1>2, <1>3, OneHandler
-----------------------------------------------------------------------------
(* What a call of Telegram gives                                           *)

\* The chat gets the item once, or nothing and the handler has failed.
Gets(h, x) ==
    /\ got' \in [Handlers -> Seq(Item)] /\ failed' \in [Handlers -> BOOLEAN]
    /\ \A k \in Handlers \ {h} : got'[k] = got[k] /\ failed'[k] = failed[k]
    /\ got'[h] = Append(got[h], x) \/ (got'[h] = got[h] /\ failed'[h])
    /\ failed[h] => failed'[h]

LEMMA GetIs ==
    ASSUME BotInv, NEW h \in Handlers, NEW x \in Item, NEW n \in {0, 1}, NEW ok \in BOOLEAN,
           ok => n = 1, Get(h, x, n, ok)
    PROVE  Gets(h, x) /\ (ok => got'[h] = Append(got[h], x)) /\ (~ok => failed'[h])
           /\ (n = 0 => got'[h] = got[h])
<1>1. got \in [Handlers -> Seq(Item)] /\ failed \in [Handlers -> BOOLEAN]
    BY DEF BotInv, HandlerTypes
<1>2. PICK g : g = IF n = 1 THEN Append(got[h], x) ELSE got[h]
    OBVIOUS
<1>3. g \in Seq(Item)
    BY <1>1, <1>2, OneMoreItem
<1>4. got' = [got EXCEPT ![h] = g]
    <2>1. got[h] \o Times(n, x) = g
        BY <1>1, <1>2, CopiesAre
    <2>2. QED
        BY <2>1 DEF Get, Times
<1>5. got' \in [Handlers -> Seq(Item)] /\ got'[h] = g
      /\ \A k \in Handlers \ {h} : got'[k] = got[k]
    BY <1>1, <1>3, <1>4
<1>6. failed' = [failed EXCEPT ![h] = @ \/ ~ok]
    BY DEF Get
<1>7. /\ failed' \in [Handlers -> BOOLEAN] /\ (failed'[h] <=> failed[h] \/ ~ok)
      /\ \A k \in Handlers \ {h} : failed'[k] = failed[k]
    BY <1>1, <1>6
<1>8. QED
    BY <1>2, <1>5, <1>7 DEF Gets

LEMMA OutcomeGet ==
    ASSUME BotInv, NEW h \in Handlers, NEW x \in Item, NEW o \in Outcomes,
           Get(h, x, IF Arrives(o) THEN 1 ELSE 0, o = "ok")
    PROVE  Gets(h, x) /\ (o = "ok" => got'[h] = Append(got[h], x)) /\ (o # "ok" => failed'[h])
<1>1. PICK n : n = IF Arrives(o) THEN 1 ELSE 0
    OBVIOUS
<1>2. n \in {0, 1} /\ (o = "ok" => n = 1)
    BY <1>1 DEF Arrives
<1>3. CASE o = "ok"
    <2>1. Get(h, x, n, TRUE)
        BY <1>1, <1>3 DEF Get
    <2>2. QED
        BY <1>2, <1>3, <2>1, GetIs
<1>4. CASE o # "ok"
    <2>1. Get(h, x, n, FALSE)
        BY <1>1, <1>4 DEF Get
    <2>2. QED
        BY <1>2, <1>4, <2>1, GetIs
<1>5. QED
    BY <1>3, <1>4

LEMMA TextIs ==
    ASSUME NEW call \in Texts
    PROVE  call.copies \in {0, 1} /\ call.ok \in BOOLEAN /\ (call.ok => call.copies = 1)
<1>1. PICK html, plain : call = Sent(html, plain)
    BY DEF Texts
<1>2. PICK final : final = IF html = "refused" THEN plain ELSE html
    OBVIOUS
<1>3. call.ok = (final = "ok") /\ call.copies = IF Arrives(final) THEN 1 ELSE 0
    BY <1>1, <1>2 DEF Sent
<1>4. QED
    BY <1>3 DEF Arrives

LEMMA TextGet ==
    ASSUME BotInv, NEW h \in Handlers, NEW x \in Item, NEW call \in Texts,
           Get(h, x, call.copies, call.ok)
    PROVE  Gets(h, x) /\ (call.ok => got'[h] = Append(got[h], x)) /\ (~call.ok => failed'[h])
BY TextIs, GetIs

\* A plain answer is given, or the handler ends there.
LEMMA SaidPlainly ==
    ASSUME BotInv, NEW h \in Handlers, NEW x \in Item, NEW next \in Stages,
           SayPlainly(h, x, next)
    PROVE  /\ Gets(h, x)
           /\ \/ stage' = [stage EXCEPT ![h] = next] /\ got'[h] = Append(got[h], x)
              \/ stage' = [stage EXCEPT ![h] = "raised"]
<1>1. PICK o \in Outcomes :
          /\ Get(h, x, IF Arrives(o) THEN 1 ELSE 0, o = "ok")
          /\ Goto(h, IF o = "ok" THEN next ELSE "raised")
    BY DEF SayPlainly
<1>2. Gets(h, x) /\ (o = "ok" => got'[h] = Append(got[h], x)) /\ (o # "ok" => failed'[h])
    BY <1>1, OutcomeGet
<1>3. QED
    BY <1>1, <1>2 DEF Goto
-----------------------------------------------------------------------------
(* The steps, one by one                                                   *)

LEMMA NoWordsYet ==
    /\ NoAnswer \in Answer /\ IsInjective(NoAnswer.blocks) /\ ~HasWordsIn(NoAnswer)
    /\ NoAnswer.tag = "none" /\ NoAnswer.photo = "none" /\ Begins(<<>>, NoAnswer.blocks)
    /\ \A t : Len(t) \in Nat => Begins(<<>>, t)
BY DEF NoAnswer, Answer, IsInjective, HasWordsIn, Begins

LedTo(st, u) == (st = "media" => u.kind \in Media) /\ (st = "note" => u.kind = "note")

LEMMA RouteStep ==
    ASSUME BotInv, NEW h \in Handlers, Route(h)
    PROVE  BotInv'
<1>1. /\ StageOK(stage[h], update[h], answer[h], speech[h], got[h], failed[h])
      /\ HandlerTypes /\ SharedTypes /\ Fine(update[h], answer[h], got[h])
    BY HandlerIs DEF BotInv
<1>2. PICK u \in Update, st \in {"media", "note", "access"} :
          /\ update' = [update EXCEPT ![h] = u] /\ stage' = [stage EXCEPT ![h] = st]
          /\ LedTo(st, u)
    BY BotBounds DEF Route, Goto, LedTo
<1>3. HandlerTypes' /\ Alone(h)
    BY <1>1, <1>2 DEF Route, HandlerTypes, Alone, Stages, Ends
<1>4. /\ stage'[h] = st /\ update'[h] = u /\ answer'[h] = answer[h]
      /\ speech'[h] = speech[h] /\ got'[h] = got[h] /\ failed'[h] = failed[h]
    BY <1>1, <1>2 DEF Route, HandlerTypes
<1>5. got[h] = <<>> /\ answer[h] = NoAnswer
    BY <1>1 DEF Route, StageOK
<1>6. Fine(u, answer[h], got[h]) /\ StageOK(st, u, answer[h], speech[h], got[h], failed[h])
    BY <1>1, <1>2, <1>5, NothingYet DEF Fine, StageOK, LedTo
<1>7. Silent(h)
    BY <1>1, <1>4 DEF Route, SharedTypes, Silent
<1>8. QED
    BY <1>3, <1>4, <1>6, <1>7, SilentHandler

LEMMA LookStep ==
    ASSUME BotInv, NEW h \in Handlers, Look(h)
    PROVE  BotInv'
<1>1. /\ StageOK(stage[h], update[h], answer[h], speech[h], got[h], failed[h])
      /\ HandlerTypes /\ SharedTypes /\ Fine(update[h], answer[h], got[h])
    BY HandlerIs DEF BotInv
<1>2. PICK fetched, st :
          /\ st = IF Usable(h, fetched) THEN "access" ELSE "dropped"
          /\ stage' = [stage EXCEPT ![h] = st]
    BY DEF Look, Goto
<1>3. HandlerTypes' /\ Alone(h)
    BY <1>1, <1>2 DEF Look, HandlerTypes, Alone, Stages, Ends
<1>4. /\ stage'[h] = st /\ update'[h] = update[h] /\ answer'[h] = answer[h]
      /\ speech'[h] = speech[h] /\ got'[h] = got[h] /\ failed'[h] = failed[h]
    BY <1>1, <1>2 DEF Look, HandlerTypes
<1>5. got[h] = <<>> /\ answer[h] = NoAnswer /\ update[h].kind \in Media
    BY <1>1 DEF Look, StageOK
<1>6. st = "dropped" => update[h].kind \in {"sticker", "voice"} \/ ~update[h].words
    BY <1>2, <1>5 DEF Usable, PhotoUsable, GifUsable, Media
<1>7. StageOK(st, update[h], answer[h], speech[h], got[h], failed[h])
    BY <1>2, <1>5, <1>6 DEF StageOK
<1>8. Silent(h)
    BY <1>1, <1>4 DEF Look, SharedTypes, Silent
<1>9. QED
    BY <1>1, <1>3, <1>4, <1>7, <1>8, SilentHandler

\* A denial goes to no bot, but for a note.
LEMMA AccessStep ==
    ASSUME BotInv, NEW h \in Handlers, Access(h)
    PROVE  BotInv'
<1>1. /\ StageOK(stage[h], update[h], answer[h], speech[h], got[h], failed[h])
      /\ HandlerTypes /\ SharedTypes /\ Fine(update[h], answer[h], got[h])
    BY HandlerIs DEF BotInv
<1>2. got[h] = <<>> /\ answer[h] = NoAnswer /\ got[h] \in Seq(Item)
    BY <1>1 DEF Access, StageOK, HandlerTypes
<1>3. CASE GetNothing /\ \E st \in {"greet", "ask", "denied"} : Goto(h, st)
    <2>1. PICK st \in {"greet", "ask", "denied"} : stage' = [stage EXCEPT ![h] = st]
        BY <1>3 DEF Goto
    <2>2. HandlerTypes' /\ Alone(h)
        BY <1>1, <1>3, <2>1 DEF Access, GetNothing, HandlerTypes, Alone, Stages, Ends
    <2>3. /\ stage'[h] = st /\ update'[h] = update[h] /\ answer'[h] = answer[h]
          /\ speech'[h] = speech[h] /\ got'[h] = got[h] /\ failed'[h] = failed[h]
        BY <1>1, <1>3, <2>1 DEF Access, GetNothing, HandlerTypes
    <2>4. StageOK(st, update[h], answer[h], speech[h], got[h], failed[h])
        BY <1>2 DEF StageOK
    <2>5. Silent(h)
        BY <1>1, <2>3 DEF Access, SharedTypes, Silent
    <2>6. QED
        BY <1>1, <2>2, <2>3, <2>4, <2>5, SilentHandler
<1>4. CASE DeniesAloud(h) /\ SayPlainly(h, "denial", "denied")
    <2>0. "denial" \in Item /\ "denied" \in Stages
        BY DEF Item, Extras, Stages, Ends
    <2>1. /\ Gets(h, "denial")
          /\ \E st \in {"denied", "raised"} : stage' = [stage EXCEPT ![h] = st]
        BY <1>4, <2>0, SaidPlainly
    <2>2. PICK st \in {"denied", "raised"} : stage' = [stage EXCEPT ![h] = st]
        BY <2>1
    <2>3. HandlerTypes' /\ Alone(h)
        BY <1>1, <2>1, <2>2 DEF Access, Gets, HandlerTypes, Alone, Stages, Ends
    <2>4. /\ stage'[h] = st /\ update'[h] = update[h] /\ answer'[h] = answer[h]
          /\ speech'[h] = speech[h] /\ (got'[h] = Append(got[h], "denial") \/ got'[h] = got[h])
        BY <1>1, <2>1, <2>2 DEF Access, Gets, HandlerTypes
    <2>5. PICK g : g = got'[h]
        OBVIOUS
    <2>6. Got(g) \subseteq {"denial"} /\ Apart(g) /\ BlocksOf(g) = <<>> /\ Len(g) <= 1
        <3>1. "denial" \notin Wordings
            BY BotBounds DEF Extras
        <3>2. CASE g = got[h]
            BY <1>2, <3>2, NothingYet
        <3>3. CASE g = Append(got[h], "denial")
            <4>1. /\ Len(g) = Len(got[h]) + 1 /\ Got(g) = Got(got[h]) \cup {"denial"}
                  /\ BlocksOf(g) = BlocksOf(got[h])
                  /\ Apart(got[h]) /\ "denial" \notin Got(got[h]) => Apart(g)
                BY <1>2, <2>0, <3>1, <3>3, OneMoreItem
            <4>2. QED
                BY <1>2, <4>1, NothingYet
        <3>4. QED
            BY <2>4, <2>5, <3>2, <3>3
    <2>7. Fine(update[h], answer[h], g)
        BY <1>1, <1>2, <1>4, <2>6, NoWordsYet, BotBounds DEF Fine, DeniesAloud
    <2>8. StageOK(st, update[h], answer[h], speech[h], g, failed'[h])
        BY DEF StageOK
    <2>9. Silent(h)
        BY <1>1, <2>4, <2>5, <2>6 DEF Access, SharedTypes, Silent
    <2>10. QED
        BY <2>3, <2>4, <2>5, <2>7, <2>8, <2>9, SilentHandler
<1>5. QED
    BY <1>3, <1>4 DEF Access

\* Nothing more is done where the broker or the membership failed.
LEMMA FailedStep ==
    ASSUME BotInv, NEW h \in Handlers, AccessFails(h) \/ AskFails(h)
    PROVE  BotInv'
<1>1. /\ StageOK(stage[h], update[h], answer[h], speech[h], got[h], failed[h])
      /\ HandlerTypes /\ SharedTypes /\ Fine(update[h], answer[h], got[h])
    BY HandlerIs DEF BotInv
<1>2. /\ stage' = [stage EXCEPT ![h] = "raised"] /\ failed' = [failed EXCEPT ![h] = TRUE]
      /\ UNCHANGED <<update, answer, speech, got, elsewhere, notes, since>>
    BY DEF AccessFails, AskFails, Goto
<1>3. known' \subseteq Chats
    <2>1. Chat(h) \in Chats
        BY <1>1 DEF HandlerTypes, Chat, Update
    <2>2. QED
        BY <1>1, <2>1 DEF AccessFails, AskFails, Directory, SharedTypes
<1>4. HandlerTypes' /\ Alone(h)
    BY <1>1, <1>2 DEF HandlerTypes, Alone, Stages, Ends
<1>5. /\ stage'[h] = "raised" /\ update'[h] = update[h] /\ answer'[h] = answer[h]
      /\ speech'[h] = speech[h] /\ got'[h] = got[h]
    BY <1>1, <1>2 DEF HandlerTypes
<1>6. StageOK("raised", update[h], answer[h], speech[h], got[h], failed'[h])
    BY DEF StageOK
<1>7. Silent(h)
    BY <1>1, <1>2, <1>3, <1>5 DEF SharedTypes, Silent
<1>8. QED
    BY <1>1, <1>4, <1>5, <1>6, <1>7, SilentHandler

LEMMA TellStep ==
    ASSUME BotInv, NEW h \in Handlers, Tell(h)
    PROVE  BotInv'
<1>1. /\ StageOK(stage[h], update[h], answer[h], speech[h], got[h], failed[h])
      /\ HandlerTypes /\ SharedTypes /\ Fine(update[h], answer[h], got[h]) /\ TrueOf(h)
    BY HandlerIs DEF BotInv
<1>2. /\ reported' \subseteq reported \cup {<<h, "reaction">>} /\ stage' = [stage EXCEPT ![h] = "done"]
      /\ UNCHANGED <<update, answer, speech, got, failed, arrived, remembered, notes, known,
                     since>>
    BY DEF Tell, Goto
<1>3. HandlerTypes' /\ Alone(h)
    BY <1>1, <1>2 DEF HandlerTypes, Alone, Stages, Ends
<1>4. /\ stage'[h] = "done" /\ update'[h] = update[h] /\ answer'[h] = answer[h]
      /\ speech'[h] = speech[h] /\ got'[h] = got[h] /\ failed'[h] = failed[h]
    BY <1>1, <1>2 DEF HandlerTypes
<1>5. StageOK("done", update[h], answer[h], speech[h], got[h], failed[h])
    <2>1. got[h] = <<>> /\ answer[h] = NoAnswer
        BY <1>1 DEF Tell, StageOK
    <2>2. QED
        BY <2>1, NoWordsYet DEF StageOK, Heard, Pictured
<1>6. SharedTypes' /\ Speaks(h)
    BY <1>1, <1>2 DEF SharedTypes, Speaks
<1>7. TrueOf(h)'
    BY <1>1, <1>2 DEF TrueOf
<1>8. QED
    BY <1>1, <1>3, <1>4, <1>5, <1>6, <1>7, OneHandler

\* What is kept of an answer, and none of its blocks is a claim.
LEMMA AllowedIs ==
    ASSUME BotInv, NEW h \in Handlers, NEW a \in Answers[h], NEW directory \in SUBSET Chats
    PROVE  /\ Allowed(h, a, directory) \in Answer /\ Allowed(h, a, directory).blocks = a.blocks
           /\ IsInjective(a.blocks) /\ a.blocks \in Seq(Wordings \cup Claims)
           /\ Got(a.blocks) \subseteq Wordings /\ Len(a.blocks) \in Nat
<1>1. a \in Answer /\ IsInjective(a.blocks)
    BY BotBounds
<1>2. a.blocks \in Seq(Wordings) /\ a.outbound \in Chats \cup {NoChat} /\ a.dm \in BOOLEAN
    BY <1>1 DEF Answer
<1>3. Got(a.blocks) \subseteq Wordings /\ Len(a.blocks) \in Nat
    BY <1>2, LenProperties, ElementOfSeq DEF Got
<1>4. a.blocks \in Seq(Wordings \cup Claims)
    BY <1>2, SeqDef
<1>5. PICK b : b = Allowed(h, a, directory)
    OBVIOUS
<1>6. PICK out, dm : /\ out = (IF a.outbound # Chat(h) /\ a.outbound \in directory
                               THEN a.outbound ELSE NoChat)
                     /\ dm = (a.dm /\ update[h].sender = "bot" /\ Chat(h) # Private)
    OBVIOUS
<1>7. b = [[a EXCEPT !.outbound = out] EXCEPT !.dm = dm]
    BY <1>1, <1>5, <1>6 DEF Allowed, Answer
<1>8. out \in Chats \cup {NoChat} /\ dm \in BOOLEAN
    BY <1>2, <1>6
<1>9. b \in Answer /\ b.blocks = a.blocks
    BY <1>1, <1>7, <1>8 DEF Answer
<1>10. QED
    BY <1>1, <1>3, <1>4, <1>5, <1>9

LEMMA AskStep ==
    ASSUME BotInv, NEW h \in Handlers, Ask(h)
    PROVE  BotInv'
<1>1. /\ StageOK(stage[h], update[h], answer[h], speech[h], got[h], failed[h])
      /\ HandlerTypes /\ SharedTypes /\ Fine(update[h], answer[h], got[h])
    BY HandlerIs DEF BotInv
<1>2. got[h] = <<>>
    BY <1>1 DEF Ask, StageOK
<1>3. known' \subseteq Chats
    <2>1. Chat(h) \in Chats
        BY <1>1 DEF HandlerTypes, Chat, Update
    <2>2. QED
        BY <1>1, <2>1 DEF Ask, Directory, SharedTypes
<1>4. PICK a \in Answers[h] :
          LET mine == Allowed(h, a, known')
          IN  /\ answer' = [answer EXCEPT ![h] = mine]
              /\ speech' = [speech EXCEPT ![h] = a.blocks]
              /\ Goto(h, IF ShouldIgnore(mine) THEN "ignored" ELSE "cross")
    BY DEF Ask
<1>5. PICK mine, st :
          /\ mine = Allowed(h, a, known') /\ st \in {"ignored", "cross"}
          /\ answer' = [answer EXCEPT ![h] = mine] /\ speech' = [speech EXCEPT ![h] = a.blocks]
          /\ stage' = [stage EXCEPT ![h] = st]
    BY <1>4 DEF Goto
<1>6. /\ mine \in Answer /\ mine.blocks = a.blocks /\ IsInjective(a.blocks)
      /\ a.blocks \in Seq(Wordings \cup Claims) /\ Got(a.blocks) \subseteq Wordings
      /\ Len(a.blocks) \in Nat
    BY <1>3, <1>5, AllowedIs
<1>7. HandlerTypes' /\ Alone(h)
    BY <1>1, <1>5, <1>6 DEF Ask, HandlerTypes, Alone, Stages, Ends
<1>8. /\ stage'[h] = st /\ update'[h] = update[h] /\ answer'[h] = mine
      /\ speech'[h] = a.blocks /\ got'[h] = got[h] /\ failed'[h] = failed[h]
    BY <1>1, <1>5 DEF Ask, HandlerTypes
<1>9. Fine(update[h], mine, got[h])
    BY <1>1, <1>2, <1>6, NothingYet, NoWordsYet DEF Fine
<1>10. StageOK(st, update[h], mine, a.blocks, got[h], failed[h])
    BY <1>2, <1>5, <1>6 DEF StageOK
<1>11. Silent(h)
    <2>1. "sent there" \notin Got(a.blocks)
        BY <1>6, BotBounds DEF Claims
    <2>2. QED
        BY <1>1, <1>3, <1>8, <2>1 DEF Ask, SharedTypes, Silent
<1>12. QED
    BY <1>7, <1>8, <1>9, <1>10, <1>11, SilentHandler

LEMMA OneClaim ==
    ASSUME NEW c \in Claims
    PROVE  <<c>> \in Seq(Wordings \cup Claims) /\ Len(<<c>>) = 1 /\ Got(<<c>>) = {c}
           /\ Head(<<c>>) = c /\ Tail(<<c>>) = <<>>
BY DEF Got

\* What was posted elsewhere is claimed and told only when it arrived there.
LEMMA CrossStep ==
    ASSUME BotInv, NEW h \in Handlers, Cross(h)
    PROVE  BotInv'
<1>1. /\ StageOK(stage[h], update[h], answer[h], speech[h], got[h], failed[h])
      /\ HandlerTypes /\ SharedTypes /\ Fine(update[h], answer[h], got[h]) /\ TrueOf(h)
    BY HandlerIs DEF BotInv
<1>2. /\ got[h] = <<>> /\ speech[h] = answer[h].blocks
      /\ stage' = [stage EXCEPT ![h] = "dm"]
      /\ UNCHANGED <<update, answer, got, failed, remembered, notes, known, since>>
    BY <1>1 DEF Cross, StageOK, Goto
<1>3. PICK sp \in Seq(Wordings \cup Claims) :
          /\ speech' = [speech EXCEPT ![h] = sp] /\ Whole(answer[h], sp)
          /\ arrived' \subseteq arrived \cup {<<h, "target">>} /\ arrived \subseteq arrived'
          /\ reported' \subseteq reported \cup {<<h, "target">>}
          /\ <<h, "target">> \in reported' \ reported => <<h, "target">> \in arrived'
          /\ "sent there" \in Got(sp) => <<h, "target">> \in arrived' \/ sp = speech[h]
    <2>1. CASE answer[h].outbound = NoChat
        <3>1. /\ speech' = [speech EXCEPT ![h] = speech[h]] /\ speech[h] \in Seq(Wordings \cup Claims)
              /\ Whole(answer[h], speech[h]) /\ arrived' = arrived /\ reported' = reported
            BY <1>1, <1>2, <2>1 DEF Cross, HandlerTypes, Whole
        <3>2. QED
            BY <3>1
    <2>2. CASE answer[h].outbound # NoChat
        <3>1. PICK available \in BOOLEAN, call \in Texts :
                  LET tried == update[h].sender = "owner" /\ available
                  IN  /\ arrived' = IF tried /\ call.copies > 0
                                    THEN arrived \cup {<<h, "target">>} ELSE arrived
                      /\ Report(h, "target", tried /\ call.ok)
                      /\ speech' = [speech EXCEPT ![h] = IF tried /\ call.ok
                                                         THEN <<"sent there">>
                                                         ELSE <<"not sent there">>]
            BY <2>2 DEF Cross, CrossPost
        <3>2. call.copies \in {0, 1} /\ call.ok \in BOOLEAN /\ (call.ok => call.copies = 1)
            BY TextIs
        <3>3. CASE update[h].sender = "owner" /\ available /\ call.ok
            <4>1. /\ speech' = [speech EXCEPT ![h] = <<"sent there">>]
                  /\ arrived' = arrived \cup {<<h, "target">>}
                <5>1. call.copies > 0
                    BY <3>2, <3>3
                <5>2. QED
                    BY <3>1, <3>3, <5>1, Zenon
            <4>2. reported' \subseteq reported \cup {<<h, "target">>}
                BY <3>1 DEF Report
            <4>3. "sent there" \in Claims
                BY DEF Claims
            <4>4. <<"sent there">> \in Seq(Wordings \cup Claims) /\ Whole(answer[h], <<"sent there">>)
                BY <2>2, <4>3, OneClaim DEF Whole
            <4>5. QED
                BY <4>1, <4>2, <4>4
        <3>4. CASE ~(update[h].sender = "owner" /\ available /\ call.ok)
            <4>1. PICK c \in Claims : c = "not sent there"
                BY DEF Claims
            <4>2. /\ speech' = [speech EXCEPT ![h] = <<c>>]
                  /\ arrived' \in {arrived, arrived \cup {<<h, "target">>}}
                  /\ reported' = reported
                BY <3>1, <3>4, <4>1 DEF Report
            <4>3. /\ <<c>> \in Seq(Wordings \cup Claims) /\ Whole(answer[h], <<c>>)
                  /\ "sent there" \notin Got(<<c>>)
                <5>1. Got(<<c>>) = {c} /\ <<c>> \in Seq(Wordings \cup Claims)
                    BY OneClaim
                <5>2. QED
                    BY <2>2, <4>1, <5>1 DEF Whole
            <4>4. QED
                BY <4>2, <4>3
        <3>5. QED
            BY <3>3, <3>4
    <2>3. QED
        BY <2>1, <2>2
<1>4. HandlerTypes' /\ Alone(h)
    BY <1>1, <1>2, <1>3 DEF HandlerTypes, Alone, Stages, Ends
<1>5. /\ stage'[h] = "dm" /\ update'[h] = update[h] /\ answer'[h] = answer[h]
      /\ speech'[h] = sp /\ got'[h] = got[h] /\ failed'[h] = failed[h]
    BY <1>1, <1>2, <1>3 DEF HandlerTypes
<1>6. StageOK("dm", update[h], answer[h], sp, got[h], failed[h])
    BY <1>2, <1>3 DEF StageOK
<1>7. SharedTypes' /\ Speaks(h)
    <2>0. <<h, "target">> \in Handlers \X {"target", "owner"}
        OBVIOUS
    <2>1. SharedTypes'
        BY <1>1, <1>2, <1>3, <2>0 DEF SharedTypes
    <2>2. Speaks(h)
        BY <1>2, <1>3 DEF Speaks
    <2>3. QED
        BY <2>1, <2>2
<1>8. TrueOf(h)'
    BY <1>1, <1>2, <1>3, <1>5 DEF TrueOf
<1>9. QED
    BY <1>1, <1>4, <1>5, <1>6, <1>7, <1>8, OneHandler

LEMMA DmStep ==
    ASSUME BotInv, NEW h \in Handlers, Dm(h)
    PROVE  BotInv'
<1>1. /\ StageOK(stage[h], update[h], answer[h], speech[h], got[h], failed[h])
      /\ HandlerTypes /\ SharedTypes /\ Fine(update[h], answer[h], got[h]) /\ TrueOf(h)
    BY HandlerIs DEF BotInv
<1>2. /\ got[h] = <<>> /\ Whole(answer[h], speech[h]) /\ stage' = [stage EXCEPT ![h] = "react"]
      /\ UNCHANGED <<update, answer, speech, got, failed, notes, known, since>>
    BY <1>1 DEF Dm, StageOK, Goto
<1>3. /\ arrived \subseteq arrived' /\ arrived' \subseteq arrived \cup {<<h, "owner">>}
      /\ reported' \subseteq reported \cup {<<h, "owner">>}
      /\ remembered' \subseteq remembered \cup {h}
      /\ (<<h, "owner">> \in reported' \ reported) \/ h \in remembered' \ remembered
         => <<h, "owner">> \in arrived'
    <2>1. CASE ~answer[h].dm
        BY <2>1 DEF Dm, elsewhere
    <2>2. CASE answer[h].dm
        <3>1. PICK call \in Texts, saved \in BOOLEAN :
                  /\ arrived' = IF call.copies > 0 THEN arrived \cup {<<h, "owner">>} ELSE arrived
                  /\ remembered' = IF call.ok /\ saved THEN remembered \cup {h} ELSE remembered
                  /\ Report(h, "owner", call.ok)
            BY <2>2 DEF Dm
        <3>2. call.copies \in {0, 1} /\ call.ok \in BOOLEAN /\ (call.ok => call.copies = 1)
            BY TextIs
        <3>3. CASE call.ok
            BY <3>1, <3>2, <3>3 DEF Report
        <3>4. CASE ~call.ok
            BY <3>1, <3>4 DEF Report
        <3>5. QED
            BY <3>3, <3>4
    <2>3. QED
        BY <2>1, <2>2
<1>4. HandlerTypes' /\ Alone(h)
    BY <1>1, <1>2 DEF HandlerTypes, Alone, Stages, Ends
<1>5. /\ stage'[h] = "react" /\ update'[h] = update[h] /\ answer'[h] = answer[h]
      /\ speech'[h] = speech[h] /\ got'[h] = got[h] /\ failed'[h] = failed[h]
    BY <1>1, <1>2 DEF HandlerTypes
<1>6. StageOK("react", update[h], answer[h], speech[h], got[h], failed[h])
    BY <1>2 DEF StageOK
<1>7. SharedTypes' /\ Speaks(h)
    BY <1>1, <1>2, <1>3 DEF SharedTypes, Speaks
<1>8. TrueOf(h)'
    BY <1>1, <1>2, <1>3 DEF TrueOf
<1>9. QED
    BY <1>1, <1>4, <1>5, <1>6, <1>7, <1>8, OneHandler
-----------------------------------------------------------------------------
(* The answer, piece by piece                                              *)

\* A chat that gets an item it has not, or a photo, is as fine as before.
LEMMA StillFine ==
    ASSUME BotInv, NEW h \in Handlers, NEW x \in Claims \cup Extras, Gets(h, x),
           x \notin Got(got[h]) \/ x = "photo", Len(got[h]) < MaxBlocks + 6,
           x = "denial" => update[h].kind = "note" \/ update[h].sender # "bot"
    PROVE  /\ Fine(update[h], answer[h], got'[h])
           /\ Got(got'[h]) \subseteq Got(got[h]) \cup {x} /\ Got(got[h]) \subseteq Got(got'[h])
           /\ Len(got[h]) \in Nat /\ Len(got'[h]) \in Nat
           /\ Len(got[h]) <= Len(got'[h]) /\ Len(got'[h]) <= Len(got[h]) + 1
           /\ BlocksOf(got'[h]) = BlocksOf(got[h])
           /\ got'[h] = Append(got[h], x) => x \in Got(got'[h])
<1>1. Fine(update[h], answer[h], got[h]) /\ got[h] \in Seq(Item)
    BY HandlerIs
<1>2. x \in Item /\ x \notin Wordings
    BY BotBounds DEF Item
<1>3. Len(got[h]) \in Nat
    BY <1>1, LenProperties
<1>4. PICK g : g = got'[h]
    OBVIOUS
<1>5. CASE g = got[h]
    BY <1>1, <1>3, <1>4, <1>5, OneMoreItem, <1>2
<1>6. CASE g = Append(got[h], x)
    <2>1. /\ Len(g) = Len(got[h]) + 1 /\ Got(g) = Got(got[h]) \cup {x}
          /\ BlocksOf(g) = BlocksOf(got[h])
          /\ Apart(got[h]) => Apart(g)
        BY <1>1, <1>2, <1>6, OneMoreItem
    <2>2. Len(g) <= MaxBlocks + 6
        BY <1>3, <2>1, BotBounds
    <2>3. QED
        BY <1>1, <1>3, <1>4, <2>1, <2>2 DEF Fine
<1>7. QED
    BY <1>4, <1>5, <1>6 DEF Gets

LEMMA ReactStep ==
    ASSUME BotInv, NEW h \in Handlers, React(h)
    PROVE  BotInv'
<1>1. /\ StageOK(stage[h], update[h], answer[h], speech[h], got[h], failed[h])
      /\ HandlerTypes /\ SharedTypes /\ Fine(update[h], answer[h], got[h])
    BY HandlerIs DEF BotInv
<1>2. /\ got[h] = <<>> /\ Whole(answer[h], speech[h])
      /\ UNCHANGED <<update, answer, speech, elsewhere, notes, known, since>>
    BY <1>1 DEF React, StageOK
<1>3. /\ Fine(update[h], answer[h], got'[h]) /\ Got(got'[h]) \subseteq {"reaction"}
      /\ Len(got'[h]) <= 1
      /\ got' \in [Handlers -> Seq(Item)] /\ failed' \in [Handlers -> BOOLEAN]
      /\ \A k \in Handlers \ {h} : got'[k] = got[k] /\ failed'[k] = failed[k]
    <2>1. CASE GetNothing
        BY <1>1, <1>2, <2>1, NothingYet DEF GetNothing, HandlerTypes
    <2>2. CASE \E o \in Outcomes : Get(h, "reaction", IF Arrives(o) THEN 1 ELSE 0, o = "ok")
        <3>1. "reaction" \in Extras /\ "reaction" \in Item /\ "reaction" # "denial"
            BY DEF Item, Extras
        <3>2. Gets(h, "reaction")
            BY <2>2, <3>1, OutcomeGet
        <3>3. "reaction" \notin Got(got[h]) /\ Len(got[h]) < MaxBlocks + 6
            BY <1>2, NothingYet, BotBounds
        <3>4. /\ Fine(update[h], answer[h], got'[h])
              /\ Got(got'[h]) \subseteq Got(got[h]) \cup {"reaction"}
              /\ Len(got'[h]) <= Len(got[h]) + 1
            BY <3>1, <3>2, <3>3, StillFine
        <3>5. QED
            BY <1>2, <3>2, <3>4, NothingYet DEF Gets
    <2>3. QED
        BY <2>1, <2>2 DEF React
<1>4. PICK st : /\ stage' = [stage EXCEPT ![h] = st]
                /\ \/ st = IF answer[h].tag = "only" THEN "only" ELSE "voice"
                   \/ st = "done" /\ ~HasOtherOutput(h)
    BY DEF React, Goto, AfterReaction
<1>5. HandlerTypes' /\ Alone(h)
    BY <1>1, <1>2, <1>3, <1>4 DEF HandlerTypes, Alone, Stages, Ends
<1>6. /\ stage'[h] = st /\ update'[h] = update[h] /\ answer'[h] = answer[h]
      /\ speech'[h] = speech[h]
    BY <1>1, <1>2, <1>4 DEF HandlerTypes
<1>7. StageOK(st, update[h], answer[h], speech[h], got'[h], failed'[h])
    <2>1. CASE st = IF answer[h].tag = "only" THEN "only" ELSE "voice"
        BY <1>2, <1>3, <2>1 DEF StageOK
    <2>2. CASE st = "done" /\ ~HasOtherOutput(h)
        <3>1. speech[h] = <<>> /\ answer[h].tag = "none" /\ answer[h].photo = "none"
            BY <2>2 DEF HasOtherOutput
        <3>2. ~HasWordsIn(answer[h])
            BY <1>2, <3>1 DEF Whole, HasWordsIn
        <3>3. QED
            BY <2>2, <3>1, <3>2 DEF StageOK, Heard, Pictured
    <2>3. QED
        BY <1>4, <2>1, <2>2
<1>8. Silent(h)
    <2>1. "sent there" \notin Got(got'[h]) /\ "noted" \notin Got(got'[h])
        BY <1>3
    <2>2. QED
        BY <1>1, <1>2, <2>1, <1>6 DEF SharedTypes, Silent
<1>9. QED
    BY <1>3, <1>5, <1>6, <1>7, <1>8, SilentHandler

\* The texts that are sent are the first ones, and all of them if they fit.
LEMMA CappedIs ==
    ASSUME NEW T, NEW texts \in Seq(T)
    PROVE  /\ Capped(texts) \in Seq(T) /\ Len(Capped(texts)) \in Nat
           /\ Len(Capped(texts)) <= MaxBlocks /\ Begins(Capped(texts), texts)
           /\ Got(Capped(texts)) \subseteq Got(texts)
           /\ texts # <<>> => Capped(texts) # <<>>
           /\ Len(texts) = 1 => Capped(texts) = texts
<1>1. PICK n, m : n = Len(texts) /\ m = IF n > MaxBlocks THEN MaxBlocks ELSE n
    OBVIOUS
<1>2. n \in Nat /\ m \in Nat /\ m <= n /\ m <= MaxBlocks /\ (n > 0 => m > 0) /\ (n = 1 => m = 1)
    BY <1>1, BotBounds, LenProperties
<1>3. PICK c : c = Capped(texts)
    OBVIOUS
<1>4. c \in Seq(T) /\ Len(c) = m /\ \A i \in 1..m : c[i] = texts[i]
    BY <1>1, <1>2, <1>3, SubSeqProperties DEF Capped
<1>5. Begins(c, texts)
    BY <1>1, <1>2, <1>4 DEF Begins
<1>6. Got(c) \subseteq Got(texts)
    BY <1>1, <1>2, <1>4, LenProperties DEF Got
<1>7. texts # <<>> => c # <<>>
    BY <1>1, <1>2, <1>4, EmptySeq
<1>8. ASSUME n = 1 PROVE c = texts
    BY <1>1, <1>2, <1>4, <1>8, SeqEqual
<1>9. QED
    BY <1>1, <1>2, <1>3, <1>4, <1>5, <1>6, <1>7, <1>8

\* Where the words may be spoken: the texts come next, or they are left out.
LEMMA VoiceStep ==
    ASSUME BotInv, NEW h \in Handlers, Voice(h)
    PROVE  BotInv'
<1>1. /\ StageOK(stage[h], update[h], answer[h], speech[h], got[h], failed[h])
      /\ HandlerTypes /\ SharedTypes /\ Fine(update[h], answer[h], got[h])
    BY HandlerIs DEF BotInv
<1>2. /\ Got(got[h]) \subseteq {"reaction"} /\ Len(got[h]) <= 1 /\ Whole(answer[h], speech[h])
      /\ answer[h].tag # "only"
      /\ UNCHANGED <<update, answer, elsewhere, notes, known, since>>
    BY <1>1 DEF Voice, StageOK
<1>3. got[h] \in Seq(Item) /\ speech[h] \in Seq(Wordings \cup Claims) /\ Len(got[h]) \in Nat
    BY <1>1, LenProperties DEF HandlerTypes
<1>4. /\ Fine(update[h], answer[h], got'[h]) /\ Got(got'[h]) \subseteq {"reaction", "voice"}
      /\ Len(got'[h]) <= 2 /\ got'[h] \in Seq(Item)
      /\ got' \in [Handlers -> Seq(Item)] /\ failed' \in [Handlers -> BOOLEAN]
      /\ \A k \in Handlers \ {h} : got'[k] = got[k] /\ failed'[k] = failed[k]
      /\ \/ ToText(h)
         \/ ToPhoto(h) /\ "voice" \in Got(got'[h])
    <2>1. CASE ToText(h) /\ GetNothing
        BY <1>1, <1>2, <1>3, <2>1 DEF GetNothing, HandlerTypes
    <2>2. CASE \E made \in BOOLEAN, o \in Outcomes :
                /\ Get(h, "voice", IF made /\ Arrives(o) THEN 1 ELSE 0, made /\ o = "ok")
                /\ IF OmitsText(made /\ o = "ok") THEN ToPhoto(h) ELSE ToText(h)
        <3>1. PICK made \in BOOLEAN, o \in Outcomes :
                /\ Get(h, "voice", IF made /\ Arrives(o) THEN 1 ELSE 0, made /\ o = "ok")
                /\ IF OmitsText(made /\ o = "ok") THEN ToPhoto(h) ELSE ToText(h)
            BY <2>2
        <3>2. "voice" \in Extras /\ "voice" \in Item /\ "voice" # "denial" /\ "voice" # "photo"
            BY DEF Item, Extras
        <3>3. /\ Gets(h, "voice")
              /\ ToText(h) \/ (ToPhoto(h) /\ got'[h] = Append(got[h], "voice"))
            <4>1. CASE ~made
                <5>1. Get(h, "voice", 0, FALSE)
                    BY <3>1, <4>1 DEF Get
                <5>2. Gets(h, "voice")
                    BY <3>2, <5>1, GetIs
                <5>3. ToText(h)
                    BY <3>1, <4>1 DEF OmitsText
                <5>4. QED
                    BY <5>2, <5>3
            <4>2. CASE made
                <5>1. Get(h, "voice", IF Arrives(o) THEN 1 ELSE 0, o = "ok")
                    BY <3>1, <4>2 DEF Get
                <5>2. Gets(h, "voice") /\ (o = "ok" => got'[h] = Append(got[h], "voice"))
                    BY <3>2, <5>1, OutcomeGet
                <5>3. ToText(h) \/ (ToPhoto(h) /\ o = "ok")
                    BY <3>1, <4>2 DEF OmitsText
                <5>4. QED
                    BY <5>2, <5>3
            <4>3. QED
                BY <4>1, <4>2
        <3>4. "voice" \notin Got(got[h]) /\ Len(got[h]) < MaxBlocks + 6
            BY <1>2, <1>3, BotBounds
        <3>5. /\ Fine(update[h], answer[h], got'[h])
              /\ Got(got'[h]) \subseteq Got(got[h]) \cup {"voice"}
              /\ Len(got'[h]) <= Len(got[h]) + 1 /\ Len(got'[h]) \in Nat
              /\ got'[h] = Append(got[h], "voice") => "voice" \in Got(got'[h])
            BY <3>2, <3>3, <3>4, StillFine
        <3>6. QED
            BY <1>2, <1>3, <3>3, <3>5 DEF Gets
    <2>3. QED
        BY <2>1, <2>2 DEF Voice
<1>5. Got(got'[h]) \cap Wordings = {} /\ BlocksOf(got'[h]) = <<>> /\ Len(got'[h]) \in Nat
    <2>1. Got(got'[h]) \cap Wordings = {}
        BY <1>4, BotBounds DEF Extras
    <2>2. /\ BlocksOf(got'[h]) \in Seq(Item) /\ Len(BlocksOf(got'[h])) \in Nat
          /\ \A k \in 1..Len(BlocksOf(got'[h])) : BlocksOf(got'[h])[k] \in Got(got'[h]) \cap Wordings
        BY <1>4, BlocksAre
    <2>3. Len(BlocksOf(got'[h])) = 0
        BY <2>1, <2>2
    <2>4. QED
        BY <1>4, <2>1, <2>2, <2>3, EmptySeq, LenProperties
<1>6. PICK sp \in Seq(Wordings \cup Claims), st \in {"text", "photo"} :
          /\ speech' = [speech EXCEPT ![h] = sp] /\ stage' = [stage EXCEPT ![h] = st]
          /\ Got(sp) \subseteq Got(speech[h])
          /\ StageOK(st, update[h], answer[h], sp, got'[h], failed'[h])
    <2>1. CASE ToText(h)
        <3>1. PICK sp : sp = Capped(speech[h])
            OBVIOUS
        <3>2. /\ sp \in Seq(Wordings \cup Claims) /\ Len(sp) \in Nat
              /\ Len(sp) <= MaxBlocks /\ Begins(sp, speech[h]) /\ Got(sp) \subseteq Got(speech[h])
              /\ speech[h] # <<>> => sp # <<>>
              /\ Len(speech[h]) = 1 => sp = speech[h]
            BY <1>3, <3>1, CappedIs
        <3>3. /\ speech' = [speech EXCEPT ![h] = sp] /\ stage' = [stage EXCEPT ![h] = "text"]
            BY <2>1, <3>1 DEF ToText, Goto
        <3>4. Follows(answer[h], sp, got'[h])
            <4>1. CASE answer[h].outbound = NoChat /\ speech[h] = answer[h].blocks
                <5>1. BlocksOf(got'[h]) \o sp = sp
                    BY <1>5, <3>2, ConcatEmptySeq
                <5>2. QED
                    BY <3>2, <4>1, <5>1 DEF Follows
            <4>2. CASE answer[h].outbound # NoChat /\ \E c \in Claims : speech[h] = <<c>>
                <5>1. PICK c \in Claims : speech[h] = <<c>>
                    BY <4>2
                <5>2. sp = <<c>>
                    BY <3>2, <5>1, OneClaim
                <5>3. c \notin Got(got'[h])
                    BY <1>4 DEF Claims
                <5>4. QED
                    BY <1>5, <5>2, <5>3 DEF Follows
            <4>3. QED
                BY <1>2, <4>1, <4>2 DEF Whole
        <3>5. sp # <<>> \/ Heard(answer[h], got'[h], failed'[h])
            BY <1>2, <3>2 DEF Whole, Heard, HasWordsIn
        <3>6. Len(got'[h]) + Len(sp) <= MaxBlocks + 2
            BY <1>4, <1>5, <3>2, BotBounds
        <3>7. StageOK("text", update[h], answer[h], sp, got'[h], failed'[h])
            BY <1>2, <1>4, <3>4, <3>5, <3>6 DEF StageOK
        <3>8. QED
            BY <3>2, <3>3, <3>7
    <2>2. CASE ToPhoto(h) /\ "voice" \in Got(got'[h])
        <3>1. /\ speech' = [speech EXCEPT ![h] = speech[h]]
              /\ stage' = [stage EXCEPT ![h] = "photo"]
            BY <1>1, <2>2 DEF ToPhoto, Goto, HandlerTypes
        <3>2. Heard(answer[h], got'[h], failed'[h])
            BY <2>2 DEF Heard
        <3>3. Len(got'[h]) <= MaxBlocks + 2
            BY <1>4, <1>5, BotBounds
        <3>4. StageOK("photo", update[h], answer[h], speech[h], got'[h], failed'[h])
            BY <1>2, <1>4, <3>2, <3>3 DEF StageOK
        <3>5. QED
            BY <1>3, <3>1, <3>4
    <2>3. QED
        BY <1>4, <2>1, <2>2
<1>7. HandlerTypes' /\ Alone(h)
    BY <1>1, <1>2, <1>4, <1>6 DEF HandlerTypes, Alone, Stages, Ends
<1>8. /\ stage'[h] = st /\ update'[h] = update[h] /\ answer'[h] = answer[h]
      /\ speech'[h] = sp
    BY <1>1, <1>2, <1>6 DEF HandlerTypes
<1>9. Silent(h)
    <2>1. "sent there" \notin Got(got'[h]) /\ "noted" \notin Got(got'[h])
        BY <1>4
    <2>2. QED
        BY <1>1, <1>2, <1>6, <1>8, <2>1 DEF SharedTypes, Silent
<1>10. QED
    BY <1>4, <1>6, <1>7, <1>8, <1>9, SilentHandler

\* The next text is one that the chat has not got, and the ones after it follow.
LEMMA NextText ==
    ASSUME NEW g \in Seq(Item), NEW a \in Answer, NEW sp \in Seq(Wordings \cup Claims),
           sp # <<>>, Follows(a, sp, g), IsInjective(a.blocks)
    PROVE  /\ Head(sp) \in Wordings \cup Claims /\ Head(sp) \notin Got(g)
           /\ Tail(sp) \in Seq(Wordings \cup Claims) /\ Len(Tail(sp)) = Len(sp) - 1
           /\ Got(Tail(sp)) \subseteq Got(sp) /\ Head(sp) \in Got(sp)
           /\ Follows(a, Tail(sp), Append(g, Head(sp)))
           /\ Begins(BlocksOf(Append(g, Head(sp))), a.blocks)
<1>1. PICK x, tl, l, b, n, w :
          /\ x = Head(sp) /\ tl = Tail(sp) /\ l = Len(sp) /\ b = BlocksOf(g) /\ n = Len(b)
          /\ w = a.blocks
    OBVIOUS
<1>2. /\ x \in Wordings \cup Claims /\ tl \in Seq(Wordings \cup Claims) /\ l \in Nat /\ l > 0
      /\ Len(tl) = l - 1 /\ x = sp[1] /\ \A i \in 1..l - 1 : tl[i] = sp[i + 1]
      /\ Got(tl) \subseteq Got(sp) /\ x \in Got(sp)
    <2>1. /\ x \in Wordings \cup Claims /\ tl \in Seq(Wordings \cup Claims)
          /\ Len(tl) = l - 1 /\ \A i \in 1..l - 1 : tl[i] = sp[i + 1]
        BY <1>1, HeadTailProperties
    <2>2. l \in Nat /\ l > 0 /\ x = sp[1]
        BY <1>1, LenProperties, EmptySeq
    <2>3. QED
        BY <1>1, <2>1, <2>2, LenProperties DEF Got
<1>3. /\ b \in Seq(Item) /\ n \in Nat /\ \A y \in Got(g) \cap Wordings : \E k \in 1..n : b[k] = y
    BY <1>1, BlocksAre
<1>4. w \in Seq(Wordings) /\ Len(w) \in Nat /\ DOMAIN w = 1..Len(w)
    BY <1>1, LenProperties DEF Answer
<1>5. x \in Item
    BY <1>2 DEF Item
<1>6. CASE Begins(b \o sp, w)
    <2>0. sp \in Seq(Item)
        BY SeqDef DEF Item
    <2>1. /\ Len(b \o sp) = n + l /\ \A i \in 1..n : (b \o sp)[i] = b[i]
          /\ \A i \in 1..l : (b \o sp)[n + i] = sp[i]
        <3>1. /\ Len(b \o sp) = n + l
              /\ \A i \in 1..n + l : (b \o sp)[i] = IF i <= n THEN b[i] ELSE sp[i - n]
            BY <1>1, <1>3, <2>0, ConcatProperties
        <3>2. \A i \in 1..n : (b \o sp)[i] = b[i]
            BY <1>2, <1>3, <3>1
        <3>3. ASSUME NEW i \in 1..l PROVE (b \o sp)[n + i] = sp[i]
            <4>1. n + i \in 1..n + l /\ ~(n + i <= n) /\ (n + i) - n = i
                BY <1>2, <1>3
            <4>2. QED
                BY <3>1, <4>1
        <3>4. QED
            BY <3>1, <3>2, <3>3
    <2>2. n + l <= Len(w) /\ w[n + 1] = x /\ \A i \in 1..n : w[i] = b[i]
        <3>1. n + l <= Len(w) /\ \A i \in 1..n + l : (b \o sp)[i] = w[i]
            BY <1>6, <2>1 DEF Begins
        <3>2. n + 1 \in 1..n + l /\ 1 \in 1..l /\ \A i \in 1..n : i \in 1..n + l
            BY <1>2, <1>3
        <3>3. QED
            BY <1>2, <2>1, <3>1, <3>2
    <2>3. n + 1 \in 1..Len(w) /\ x \in Wordings
        <3>1. n + 1 \in 1..Len(w)
            BY <1>2, <1>3, <1>4, <2>2
        <3>2. QED
            BY <1>4, <2>2, <3>1, ElementOfSeq
    <2>4. x \notin Got(g)
        <3>1. SUFFICES ASSUME x \in Got(g) PROVE FALSE
            OBVIOUS
        <3>2. PICK k \in 1..n : b[k] = x
            BY <1>3, <2>3, <3>1
        <3>3. w[k] = w[n + 1] /\ k \in 1..Len(w) /\ k # n + 1
            BY <1>3, <2>2, <2>3, <3>2
        <3>4. QED
            BY <1>1, <1>4, <2>3, <3>3 DEF IsInjective
    <2>5. BlocksOf(Append(g, x)) = Append(b, x)
        BY <1>1, <1>5, <2>3, OneMoreItem
    <2>6. Append(b, x) \in Seq(Item) /\ Len(Append(b, x)) = n + 1
          /\ (\A i \in 1..n : Append(b, x)[i] = b[i]) /\ Append(b, x)[n + 1] = x
        BY <1>1, <1>3, <1>5, AppendProperties
    <2>7. Begins(Append(b, x), w)
        <3>1. \A i \in 1..n + 1 : Append(b, x)[i] = w[i]
            BY <1>3, <2>2, <2>6
        <3>2. n + 1 <= Len(w)
            BY <2>3, <1>3, <1>4
        <3>3. QED
            BY <2>6, <3>1, <3>2 DEF Begins
    <2>8. Append(b, x) \o tl = b \o sp
        <3>1. sp = <<x>> \o tl
            BY <1>1, HeadTailProperties
        <3>2. Append(b, x) = b \o <<x>>
            BY <1>3, <1>5, AppendIsConcat
        <3>3. <<x>> \in Seq(Item) /\ tl \in Seq(Item)
            BY <1>2, <1>5, SeqDef DEF Item
        <3>4. QED
            BY <1>3, <3>1, <3>2, <3>3, ConcatAssociative
    <2>9. Follows(a, tl, Append(g, x))
        BY <1>1, <1>6, <2>5, <2>8 DEF Follows
    <2>10. QED
        BY <1>1, <1>2, <2>4, <2>5, <2>7, <2>9
<1>7. CASE b = <<>> /\ \E c \in Claims : sp = <<c>> /\ c \notin Got(g)
    <2>1. PICK c \in Claims : sp = <<c>> /\ c \notin Got(g)
        BY <1>7
    <2>2. x = c /\ tl = <<>> /\ c \notin Wordings
        BY <1>1, <2>1, OneClaim, BotBounds
    <2>3. BlocksOf(Append(g, x)) = <<>>
        BY <1>1, <1>5, <1>7, <2>2, OneMoreItem
    <2>4. Begins(<<>>, w)
        BY <1>4, NoWordsYet
    <2>5. <<>> \o <<>> = <<>>
        BY ConcatEmptySeq
    <2>6. Follows(a, tl, Append(g, x))
        BY <1>1, <2>2, <2>3, <2>4, <2>5 DEF Follows
    <2>7. QED
        BY <1>1, <1>2, <2>1, <2>2, <2>3, <2>4, <2>6
<1>8. QED
    BY <1>1, <1>6, <1>7 DEF Follows

LEMMA SendBlockStep ==
    ASSUME BotInv, NEW h \in Handlers, SendBlock(h)
    PROVE  BotInv'
<1>1. /\ StageOK(stage[h], update[h], answer[h], speech[h], got[h], failed[h])
      /\ HandlerTypes /\ SharedTypes /\ Fine(update[h], answer[h], got[h])
    BY HandlerIs DEF BotInv
<1>2. /\ Got(got[h]) \cap Extras \subseteq {"reaction", "voice"}
      /\ Len(got[h]) + Len(speech[h]) <= MaxBlocks + 2
      /\ Follows(answer[h], speech[h], got[h]) /\ answer[h].tag # "only"
      /\ speech[h] # <<>> \/ Heard(answer[h], got[h], failed[h])
      /\ UNCHANGED <<update, answer, elsewhere, notes, known, since>>
    BY <1>1 DEF SendBlock, StageOK
<1>3. /\ got[h] \in Seq(Item) /\ speech[h] \in Seq(Wordings \cup Claims) /\ answer[h] \in Answer
      /\ Len(got[h]) \in Nat /\ Len(speech[h]) \in Nat
    BY <1>1, LenProperties DEF HandlerTypes
<1>0. PICK l, k : l = Len(got[h]) /\ k = Len(speech[h])
    OBVIOUS
<1>7. l \in Nat /\ k \in Nat /\ l + k <= MaxBlocks + 2
    BY <1>0, <1>2, <1>3
<1>8. l <= MaxBlocks + 2
    BY <1>7, BotBounds
<1>4. CASE speech[h] = <<>>
    <2>1. /\ stage' = [stage EXCEPT ![h] = "photo"]
          /\ UNCHANGED <<update, answer, speech, got, failed>>
        BY <1>2, <1>4 DEF SendBlock, ToPhoto, Goto, GetNothing
    <2>2. HandlerTypes' /\ Alone(h)
        BY <1>1, <2>1 DEF HandlerTypes, Alone, Stages, Ends
    <2>3. /\ stage'[h] = "photo" /\ update'[h] = update[h] /\ answer'[h] = answer[h]
          /\ speech'[h] = speech[h] /\ got'[h] = got[h] /\ failed'[h] = failed[h]
        BY <1>1, <2>1 DEF HandlerTypes
    <2>4. Len(got[h]) <= MaxBlocks + 2
        BY <1>0, <1>8
    <2>5. StageOK("photo", update[h], answer[h], speech[h], got[h], failed[h])
        BY <1>2, <1>4, <2>4 DEF StageOK
    <2>6. Silent(h)
        BY <1>1, <1>2, <2>3 DEF SharedTypes, Silent
    <2>7. QED
        BY <1>1, <2>2, <2>3, <2>5, <2>6, SilentHandler
<1>5. CASE speech[h] # <<>>
    <2>1. PICK call \in Texts :
              /\ Get(h, Head(speech[h]), call.copies, call.ok)
              /\ speech' = [speech EXCEPT ![h] = Tail(speech[h])]
              /\ stage' = [stage EXCEPT ![h] = IF call.ok THEN "text" ELSE "photo"]
        BY <1>5 DEF SendBlock, Goto
    <2>2. PICK x, tl, st : /\ x = Head(speech[h]) /\ tl = Tail(speech[h])
                           /\ st = IF call.ok THEN "text" ELSE "photo"
        OBVIOUS
    <2>3. /\ x \in Wordings \cup Claims /\ x \notin Got(got[h])
          /\ tl \in Seq(Wordings \cup Claims) /\ Len(tl) = Len(speech[h]) - 1
          /\ Got(tl) \subseteq Got(speech[h]) /\ x \in Got(speech[h])
          /\ Follows(answer[h], tl, Append(got[h], x))
          /\ Begins(BlocksOf(Append(got[h], x)), answer[h].blocks)
        BY <1>1, <1>2, <1>3, <1>5, <2>2, NextText DEF Fine
    <2>4. x \in Item /\ x \notin Extras
        <3>1. Claims \cap Extras = {}
            BY DEF Claims, Extras
        <3>2. QED
            BY <2>3, <3>1, BotBounds DEF Item
    <2>5. Gets(h, x) /\ (call.ok => got'[h] = Append(got[h], x)) /\ (~call.ok => failed'[h])
        BY <2>1, <2>2, <2>4, TextGet
    <2>6. HandlerTypes' /\ Alone(h)
        BY <1>1, <1>2, <2>1, <2>2, <2>3, <2>5 DEF Gets, HandlerTypes, Alone, Stages, Ends
    <2>7. /\ stage'[h] = st /\ update'[h] = update[h] /\ answer'[h] = answer[h]
          /\ speech'[h] = tl
        BY <1>1, <1>2, <2>1, <2>2 DEF HandlerTypes
    <2>8. PICK g : g = Append(got[h], x)
        OBVIOUS
    <2>9. /\ Len(g) = Len(got[h]) + 1 /\ Got(g) = Got(got[h]) \cup {x}
          /\ Apart(got[h]) => Apart(g)
        BY <1>3, <2>3, <2>4, <2>8, OneMoreItem
    <2>20. Len(g) + Len(tl) <= MaxBlocks + 2 /\ Len(g) <= MaxBlocks + 2 /\ Len(g) <= MaxBlocks + 6
        <3>1. k # 0
            BY <1>0, <1>3, <1>5, EmptySeq
        <3>2. Len(g) = l + 1 /\ Len(tl) = k - 1
            BY <1>0, <2>3, <2>9
        <3>3. (l + 1) + (k - 1) <= MaxBlocks + 2 /\ l + 1 <= MaxBlocks + 2 /\ l + 1 <= MaxBlocks + 6
            BY <1>7, <3>1, BotBounds
        <3>4. QED
            BY <3>2, <3>3
    <2>10. Fine(update[h], answer[h], g)
        <3>1. Len(g) <= MaxBlocks + 6
            BY <2>20
        <3>2. "denial" \in Got(g) => "denial" \in Got(got[h])
            BY <2>4, <2>9 DEF Extras
        <3>3. QED
            BY <1>1, <2>3, <2>8, <2>9, <3>1, <3>2 DEF Fine
    <2>11. Len(g) + Len(tl) <= MaxBlocks + 2 /\ Len(g) <= MaxBlocks + 2
           /\ Len(got[h]) <= MaxBlocks + 2
        BY <1>0, <1>8, <2>20
    <2>12. Got(g) \cap Extras \subseteq {"reaction", "voice"}
        BY <1>2, <2>4, <2>9
    <2>13. StageOK(st, update[h], answer[h], tl, got'[h], failed'[h])
           /\ Fine(update[h], answer[h], got'[h])
        <3>1. CASE call.ok
            <4>1. got'[h] = g /\ st = "text"
                BY <2>2, <2>5, <2>8, <3>1
            <4>2. Heard(answer[h], g, failed'[h])
                BY <2>3, <2>9 DEF Heard
            <4>3. QED
                BY <1>2, <2>3, <2>8, <2>10, <2>11, <2>12, <4>1, <4>2 DEF StageOK
        <3>2. CASE ~call.ok
            <4>1. (got'[h] = g \/ got'[h] = got[h]) /\ st = "photo" /\ failed'[h]
                BY <2>2, <2>5, <2>8, <3>2 DEF Gets
            <4>2. Heard(answer[h], got'[h], failed'[h])
                BY <4>1 DEF Heard
            <4>3. CASE got'[h] = g
                BY <1>2, <2>10, <2>11, <2>12, <4>1, <4>2, <4>3 DEF StageOK
            <4>4. CASE got'[h] = got[h]
                BY <1>1, <1>2, <2>11, <4>1, <4>2, <4>4 DEF StageOK
            <4>5. QED
                BY <4>1, <4>3, <4>4
        <3>3. QED
            BY <3>1, <3>2
    <2>14. Silent(h)
        <3>1. Got(got'[h]) \subseteq Got(got[h]) \cup {x}
            BY <2>5, <2>8, <2>9 DEF Gets
        <3>2. "noted" # x
            BY <2>4 DEF Extras
        <3>3. QED
            BY <1>1, <1>2, <2>3, <2>7, <3>1, <3>2 DEF SharedTypes, Silent
    <2>15. QED
        BY <2>6, <2>7, <2>13, <2>14, SilentHandler
<1>6. QED
    BY <1>4, <1>5

LEMMA CopiesLength ==
    ASSUME NEW g \in Seq(Item), NEW x \in Item, NEW n \in {0, 1, 2}
    PROVE  Len(g \o Times(n, x)) = Len(g) + n /\ Len(g) \in Nat
<1>1. Len(g) \in Nat
    BY LenProperties
<1>2. PICK q, r : q = Append(g, x) /\ r = Append(q, x)
    OBVIOUS
<1>3. q \in Seq(Item) /\ Len(q) = Len(g) + 1
    BY <1>2, OneMoreItem
<1>4. Len(r) = Len(q) + 1
    BY <1>2, <1>3, OneMoreItem
<1>5. g \o Times(n, x) = IF n = 0 THEN g ELSE IF n = 1 THEN q ELSE r
    BY <1>2, CopiesAre
<1>6. QED
    BY <1>1, <1>3, <1>4, <1>5

\* Photos may come twice, and at most one word that there is none.
LEMMA PhotosAre ==
    ASSUME NEW g \in Seq(Item), NEW n \in {0, 1, 2}, NEW m \in {0, 1},
           Apart(g), "no photo" \notin Got(g)
    PROVE  \E t \in Seq(Item) :
               /\ t = g \o Times(n, "photo") \o Times(m, "no photo")
               /\ BlocksOf(t) = BlocksOf(g) /\ Apart(t) /\ Got(g) \subseteq Got(t)
               /\ Got(t) \subseteq Got(g) \cup {"photo", "no photo"}
               /\ n # 0 => "photo" \in Got(t)
               /\ m # 0 => "no photo" \in Got(t)
<1>1. PICK x \in Item, y \in Item :
          x = "photo" /\ y = "no photo" /\ x \notin Wordings /\ y \notin Wordings
    BY BotBounds DEF Item, Extras
<1>2. x # y
    BY <1>1
<1>4. PICK q : q = Append(g, x)
    OBVIOUS
<1>5. /\ q \in Seq(Item)
      /\ Got(q) = Got(g) \cup {x} /\ BlocksOf(q) = BlocksOf(g) /\ Apart(q)
    BY <1>1, <1>4, OneMoreItem
<1>6. PICK r : r = Append(q, x)
    OBVIOUS
<1>7. /\ r \in Seq(Item)
      /\ Got(r) = Got(q) \cup {x} /\ BlocksOf(r) = BlocksOf(q) /\ Apart(r)
    BY <1>1, <1>5, <1>6, OneMoreItem
<1>8. PICK p : p = g \o Times(n, x)
    OBVIOUS
<1>9. /\ p \in Seq(Item) /\ BlocksOf(p) = BlocksOf(g) /\ Apart(p)
      /\ Got(g) \subseteq Got(p) /\ Got(p) \subseteq Got(g) \cup {x} /\ (n # 0 => x \in Got(p))
    <2>1. CASE n = 0
        <3>1. p = g
            BY <1>8, <2>1, CopiesAre
        <3>2. QED
            BY <2>1, <3>1
    <2>2. CASE n = 1
        <3>1. p = q
            BY <1>4, <1>8, <2>2, CopiesAre
        <3>2. QED
            BY <1>5, <2>2, <3>1
    <2>3. CASE n = 2
        <3>1. p = r
            BY <1>4, <1>6, <1>8, <2>3, CopiesAre
        <3>2. QED
            BY <1>5, <1>7, <3>1
    <2>4. QED
        BY <2>1, <2>2, <2>3
<1>10. y \notin Got(p)
    BY <1>1, <1>2, <1>9
<1>11. PICK t : t = p \o Times(m, y)
    OBVIOUS
<1>12. /\ t \in Seq(Item) /\ BlocksOf(t) = BlocksOf(p) /\ Apart(t)
       /\ Got(p) \subseteq Got(t) /\ Got(t) \subseteq Got(p) \cup {y} /\ (m # 0 => y \in Got(t))
    <2>1. CASE m = 0
        <3>1. t = p
            BY <1>9, <1>11, <2>1, CopiesAre
        <3>2. QED
            BY <1>9, <2>1, <3>1
    <2>2. CASE m = 1
        <3>1. t = Append(p, y)
            BY <1>9, <1>11, <2>2, CopiesAre
        <3>2. /\ Append(p, y) \in Seq(Item)
              /\ Got(Append(p, y)) = Got(p) \cup {y} /\ BlocksOf(Append(p, y)) = BlocksOf(p)
              /\ Apart(Append(p, y))
            BY <1>1, <1>9, <1>10, OneMoreItem
        <3>3. QED
            BY <2>2, <3>1, <3>2
    <2>3. QED
        BY <2>1, <2>2
<1>13. t = g \o Times(n, "photo") \o Times(m, "no photo")
    BY <1>1, <1>8, <1>11
<1>14. QED
    BY <1>1, <1>9, <1>12, <1>13

\* What was heard stays heard, whatever more the chat gets.
LEMMA MoreIsHeard ==
    ASSUME NEW a, NEW g, NEW f, NEW g2, NEW f2, Got(g) \subseteq Got(g2), f => f2
    PROVE  /\ Heard(a, g, f) => Heard(a, g2, f2)
           /\ Pictured(a, g) => Pictured(a, g2)
BY DEF Heard, Pictured

\* The calls for the photo: at most two photos and a word, and the photo or the
\* word when the sticker is next.
LEMMA PhotoCalls ==
    ASSUME BotInv, NEW h \in Handlers, SendPhoto(h), answer[h].photo # "none"
    PROVE  \E n \in {0, 1, 2}, m \in {0, 1}, st \in {"raised", "extra"}, lost \in BOOLEAN :
               /\ got' = [got EXCEPT ![h] = got[h] \o Times(n, "photo") \o Times(m, "no photo")]
               /\ failed' = [failed EXCEPT ![h] = failed[h] \/ lost]
               /\ stage' = [stage EXCEPT ![h] = st]
               /\ st = "extra" => n # 0 \/ m # 0
<1>1. PICK byId \in Outcomes, upload \in Outcomes, sorry \in Texts :
          LET uploads == byId # "ok" /\ answer[h].photo = "stored"
              lost == byId # "ok" /\ ~(uploads /\ upload = "ok")
              photos == (IF Arrives(byId) THEN 1 ELSE 0)
                        + (IF uploads /\ Arrives(upload) THEN 1 ELSE 0)
          IN  /\ got' = [got EXCEPT ![h] =
                           @ \o [i \in 1..photos |-> "photo"]
                             \o [i \in 1..(IF lost THEN sorry.copies ELSE 0) |-> "no photo"]]
              /\ failed' = [failed EXCEPT ![h] = @ \/ lost]
              /\ Goto(h, IF lost /\ ~sorry.ok THEN "raised" ELSE "extra")
    BY DEF SendPhoto
<1>2. PICK uploads \in BOOLEAN, lost \in BOOLEAN :
          /\ uploads <=> (byId # "ok" /\ answer[h].photo = "stored")
          /\ lost <=> (byId # "ok" /\ ~(uploads /\ upload = "ok"))
    OBVIOUS
<1>3. PICK n, m, st :
          /\ n = (IF Arrives(byId) THEN 1 ELSE 0) + (IF uploads /\ Arrives(upload) THEN 1 ELSE 0)
          /\ m = IF lost THEN sorry.copies ELSE 0
          /\ st = IF lost /\ ~sorry.ok THEN "raised" ELSE "extra"
    OBVIOUS
<1>4. sorry.copies \in {0, 1} /\ sorry.ok \in BOOLEAN /\ (sorry.ok => sorry.copies = 1)
    BY TextIs
<1>5. n \in {0, 1, 2} /\ m \in {0, 1} /\ st \in {"raised", "extra"}
    BY <1>3, <1>4
<1>6. st = "extra" => n # 0 \/ m # 0
    <2>1. CASE lost
        BY <1>3, <1>4, <2>1
    <2>2. CASE ~lost
        <3>1. Arrives(byId) \/ (uploads /\ Arrives(upload))
            BY <1>2, <2>2 DEF Arrives
        <3>2. QED
            BY <1>3, <3>1
    <2>3. QED
        BY <2>1, <2>2
<1>7. /\ got' = [got EXCEPT ![h] = got[h] \o Times(n, "photo") \o Times(m, "no photo")]
      /\ failed' = [failed EXCEPT ![h] = failed[h] \/ lost]
      /\ stage' = [stage EXCEPT ![h] = st]
    BY <1>1, <1>2, <1>3 DEF Times, Goto
<1>8. QED
    BY <1>2, <1>5, <1>6, <1>7, Zenon

LEMMA SendPhotoStep ==
    ASSUME BotInv, NEW h \in Handlers, SendPhoto(h)
    PROVE  BotInv'
<1>1. /\ StageOK(stage[h], update[h], answer[h], speech[h], got[h], failed[h])
      /\ HandlerTypes /\ SharedTypes /\ Fine(update[h], answer[h], got[h])
    BY HandlerIs DEF BotInv
<1>2. /\ Got(got[h]) \cap Extras \subseteq {"reaction", "voice"} /\ Len(got[h]) <= MaxBlocks + 2
      /\ answer[h].tag # "only" /\ Heard(answer[h], got[h], failed[h])
      /\ UNCHANGED <<update, answer, speech, elsewhere, notes, known, since>>
    BY <1>1 DEF SendPhoto, StageOK
<1>20. Got(got[h]) \cap Extras \subseteq {"reaction", "voice"}
    BY <1>2
<1>3. got[h] \in Seq(Item)
    BY <1>1 DEF HandlerTypes
<1>4. /\ got' \in [Handlers -> Seq(Item)] /\ failed' \in [Handlers -> BOOLEAN]
      /\ \A k \in Handlers \ {h} : got'[k] = got[k] /\ failed'[k] = failed[k]
      /\ failed[h] => failed'[h]
      /\ Got(got[h]) \subseteq Got(got'[h])
      /\ Got(got'[h]) \subseteq Got(got[h]) \cup {"photo", "no photo"}
      /\ Apart(got'[h]) /\ BlocksOf(got'[h]) = BlocksOf(got[h])
      /\ Len(got'[h]) <= MaxBlocks + 5
      /\ \E st \in {"raised", "extra"} :
            /\ stage' = [stage EXCEPT ![h] = st]
            /\ st = "extra" => Pictured(answer[h], got'[h])
    <2>0. Len(got[h]) <= MaxBlocks + 5
        <3>1. PICK l : l = Len(got[h])
            OBVIOUS
        <3>2. l \in Nat /\ l <= MaxBlocks + 2
            BY <1>2, <1>3, <3>1, LenProperties
        <3>3. l <= MaxBlocks + 5
            BY <3>2, BotBounds
        <3>4. QED
            BY <3>1, <3>3
    <2>1. CASE answer[h].photo = "none"
        <3>1. stage' = [stage EXCEPT ![h] = "extra"] /\ UNCHANGED <<got, failed>>
            BY <2>1 DEF SendPhoto, Goto, GetNothing
        <3>2. Pictured(answer[h], got[h])
            BY <2>1 DEF Pictured
        <3>3. QED
            BY <1>1, <2>0, <3>1, <3>2 DEF HandlerTypes, Fine
    <2>2. CASE answer[h].photo # "none"
        <3>1. PICK n \in {0, 1, 2}, m \in {0, 1}, st \in {"raised", "extra"}, lost \in BOOLEAN :
               /\ got' = [got EXCEPT ![h] = got[h] \o Times(n, "photo") \o Times(m, "no photo")]
               /\ failed' = [failed EXCEPT ![h] = failed[h] \/ lost]
               /\ stage' = [stage EXCEPT ![h] = st]
               /\ st = "extra" => n # 0 \/ m # 0
            BY <2>2, PhotoCalls
        <3>2. Apart(got[h]) /\ "no photo" \notin Got(got[h])
            <4>1. PICK y : y = "no photo"
                OBVIOUS
            <4>2. y \in Extras /\ y \notin {"reaction", "voice"}
                BY <4>1 DEF Extras
            <4>20. y \notin Got(got[h])
                BY <1>20, <4>2
            <4>3. Apart(got[h])
                BY <1>1 DEF Fine
            <4>4. QED
                BY <4>1, <4>20, <4>3
        <3>3. PICK t \in Seq(Item) :
               /\ t = got[h] \o Times(n, "photo") \o Times(m, "no photo")
               /\ BlocksOf(t) = BlocksOf(got[h]) /\ Apart(t) /\ Got(got[h]) \subseteq Got(t)
               /\ Got(t) \subseteq Got(got[h]) \cup {"photo", "no photo"}
               /\ n # 0 => "photo" \in Got(t)
               /\ m # 0 => "no photo" \in Got(t)
            BY <1>3, <3>2, PhotosAre
        <3>4. Len(t) <= MaxBlocks + 5
            <4>1. PICK x \in Item, y \in Item : x = "photo" /\ y = "no photo"
                BY DEF Item, Extras
            <4>2. PICK p : p = got[h] \o Times(n, x)
                OBVIOUS
            <4>3. PICK l, k : l = Len(got[h]) /\ k = Len(p)
                OBVIOUS
            <4>4. l \in Nat /\ k = l + n /\ l <= MaxBlocks + 2
                BY <1>2, <1>3, <4>2, <4>3, CopiesLength
            <4>5. p \in Seq(Item)
                <5>1. /\ Append(got[h], x) \in Seq(Item)
                      /\ Append(Append(got[h], x), x) \in Seq(Item)
                    BY <1>3, OneMoreItem
                <5>2. QED
                    BY <1>3, <4>2, <5>1, CopiesAre
            <4>6. t = p \o Times(m, y)
                BY <3>3, <4>1, <4>2
            <4>7. Len(t) = k + m
                BY <4>3, <4>5, <4>6, CopiesLength
            <4>8. k + m <= MaxBlocks + 5
                BY <4>4, BotBounds
            <4>9. QED
                BY <4>7, <4>8
        <3>5. got'[h] = t /\ (failed'[h] <=> failed[h] \/ lost)
            BY <1>1, <3>1, <3>3 DEF HandlerTypes
        <3>6. /\ got' \in [Handlers -> Seq(Item)] /\ failed' \in [Handlers -> BOOLEAN]
              /\ \A k \in Handlers \ {h} : got'[k] = got[k] /\ failed'[k] = failed[k]
            BY <1>1, <3>1, <3>3 DEF HandlerTypes
        <3>7. st = "extra" => Pictured(answer[h], t)
            BY <3>1, <3>3 DEF Pictured
        <3>8. QED
            BY <3>1, <3>3, <3>4, <3>5, <3>6, <3>7
    <2>3. QED
        BY <2>1, <2>2
<1>21. Got(got'[h]) \subseteq Got(got[h]) \cup {"photo", "no photo"}
    BY <1>4
<1>5. PICK st \in {"raised", "extra"} :
            /\ stage' = [stage EXCEPT ![h] = st]
            /\ st = "extra" => Pictured(answer[h], got'[h])
    BY <1>4
<1>6. HandlerTypes' /\ Alone(h)
    BY <1>1, <1>2, <1>4, <1>5 DEF HandlerTypes, Alone, Stages, Ends
<1>7. /\ stage'[h] = st /\ update'[h] = update[h] /\ answer'[h] = answer[h]
      /\ speech'[h] = speech[h]
    BY <1>1, <1>2, <1>5 DEF HandlerTypes
<1>8. Fine(update[h], answer[h], got'[h])
    <2>1. Len(got'[h]) <= MaxBlocks + 6
        <3>1. PICK l : l = Len(got'[h])
            OBVIOUS
        <3>2. l \in Nat /\ l <= MaxBlocks + 5
            BY <1>4, <3>1, LenProperties
        <3>3. l <= MaxBlocks + 6
            BY <3>2, BotBounds
        <3>4. QED
            BY <3>1, <3>3
    <2>2. "denial" \in Got(got'[h]) => "denial" \in Got(got[h])
        BY <1>4
    <2>3. QED
        BY <1>1, <1>4, <2>1, <2>2 DEF Fine
<1>9. StageOK(st, update[h], answer[h], speech[h], got'[h], failed'[h])
    <2>1. Heard(answer[h], got'[h], failed'[h])
        BY <1>2, <1>4, MoreIsHeard
    <2>2. "sticker" \notin Got(got'[h])
        <3>1. PICK y : y = "sticker"
            OBVIOUS
        <3>2. y \in Extras /\ y \notin {"reaction", "voice"} /\ y \notin {"photo", "no photo"}
            BY <3>1 DEF Extras
        <3>3. y \notin Got(got'[h])
            BY <1>20, <1>21, <3>2
        <3>4. QED
            BY <3>1, <3>3
    <2>3. QED
        BY <1>2, <1>4, <1>5, <2>1, <2>2 DEF StageOK
<1>10. Silent(h)
    <2>1. /\ "sent there" \in Got(got'[h]) => "sent there" \in Got(got[h])
          /\ "noted" \in Got(got'[h]) => "noted" \in Got(got[h])
        BY <1>4
    <2>2. QED
        BY <1>1, <1>2, <1>7, <2>1 DEF SharedTypes, Silent
<1>11. QED
    BY <1>6, <1>7, <1>8, <1>9, <1>10, SilentHandler

LEMMA DecideStep ==
    ASSUME BotInv, NEW h \in Handlers, Decide(h)
    PROVE  BotInv'
<1>1. /\ StageOK(stage[h], update[h], answer[h], speech[h], got[h], failed[h])
      /\ HandlerTypes /\ SharedTypes /\ Fine(update[h], answer[h], got[h])
    BY HandlerIs DEF BotInv
<1>2. PICK st : /\ stage' = [stage EXCEPT ![h] = st]
                /\ st \in {"sticker", IF answer[h].tag = "only" THEN "fallback" ELSE "done"}
    BY DEF Decide, Goto, AfterSticker
<1>3. UNCHANGED <<update, answer, speech, got, failed, elsewhere, notes, known>>
    BY DEF Decide
<1>4. HandlerTypes' /\ Alone(h)
    BY <1>1, <1>2, <1>3 DEF HandlerTypes, Alone, Stages, Ends
<1>5. /\ stage'[h] = st /\ update'[h] = update[h] /\ answer'[h] = answer[h]
      /\ speech'[h] = speech[h] /\ got'[h] = got[h] /\ failed'[h] = failed[h]
    BY <1>1, <1>2, <1>3 DEF HandlerTypes
<1>6. StageOK(st, update[h], answer[h], speech[h], got[h], failed[h])
    <2>1. CASE stage[h] = "extra"
        <3>1. /\ "sticker" \notin Got(got[h]) /\ Len(got[h]) <= MaxBlocks + 5
              /\ answer[h].tag # "only" /\ Heard(answer[h], got[h], failed[h])
              /\ Pictured(answer[h], got[h])
            BY <1>1, <2>1 DEF StageOK
        <3>2. QED
            BY <1>2, <3>1 DEF StageOK
    <2>2. CASE stage[h] = "only"
        <3>1. /\ Got(got[h]) \subseteq {"reaction"} /\ Len(got[h]) <= 1
              /\ Whole(answer[h], speech[h]) /\ answer[h].tag = "only"
            BY <1>1, <2>2 DEF StageOK
        <3>2. "sticker" \notin Got(got[h]) /\ Got(got[h]) \subseteq {"reaction", "sticker"}
            BY <3>1
        <3>3. Len(got[h]) <= 2
            <4>1. PICK l : l = Len(got[h])
                OBVIOUS
            <4>2. l \in Nat /\ l <= 1
                BY <1>1, <3>1, <4>1, LenProperties DEF HandlerTypes
            <4>3. l <= 2
                BY <4>2
            <4>4. QED
                BY <4>1, <4>3
        <3>4. QED
            BY <1>2, <3>1, <3>2, <3>3 DEF StageOK
    <2>3. QED
        BY <2>1, <2>2 DEF Decide
<1>7. since' \in [Chats -> 0..MinBetween]
    <2>1. PICK n : n = since[Chat(h)]
        OBVIOUS
    <2>2. n \in 0..MinBetween
        <3>1. Chat(h) \in Chats
            BY <1>1 DEF HandlerTypes, Chat, Update
        <3>2. QED
            BY <1>1, <2>1, <3>1 DEF SharedTypes
    <2>3. Counted(n) \in 0..MinBetween
        BY <2>2, BotBounds DEF Counted
    <2>4. since' = [since EXCEPT ![Chat(h)] = Counted(n)]
        BY <2>1 DEF Decide
    <2>5. QED
        BY <1>1, <2>3, <2>4 DEF SharedTypes
<1>8. Silent(h)
    BY <1>1, <1>3, <1>5, <1>7 DEF SharedTypes, Silent
<1>9. QED
    BY <1>1, <1>4, <1>5, <1>6, <1>8, SilentHandler

\* A sticker comes after all else; where it was to stand alone and did not go
\* out, the words are still whole.
LEMMA SendStickerStep ==
    ASSUME BotInv, NEW h \in Handlers, SendSticker(h)
    PROVE  BotInv'
<1>1. /\ StageOK(stage[h], update[h], answer[h], speech[h], got[h], failed[h])
      /\ HandlerTypes /\ SharedTypes /\ Fine(update[h], answer[h], got[h])
    BY HandlerIs DEF BotInv
<1>2. /\ "sticker" \notin Got(got[h])
      /\ IF answer[h].tag = "only"
         THEN Got(got[h]) \subseteq {"reaction"} /\ Len(got[h]) <= 1 /\ Whole(answer[h], speech[h])
         ELSE Len(got[h]) <= MaxBlocks + 5 /\ Heard(answer[h], got[h], failed[h])
              /\ Pictured(answer[h], got[h])
    BY <1>1 DEF SendSticker, StageOK
<1>3. PICK o \in Outcomes :
          /\ Get(h, "sticker", IF Arrives(o) THEN 1 ELSE 0, o = "ok")
          /\ since' = IF o = "ok" THEN [since EXCEPT ![Chat(h)] = 0] ELSE since
          /\ Goto(h, IF o = "ok" THEN "done" ELSE AfterSticker(h))
    BY DEF SendSticker
<1>4. UNCHANGED <<update, answer, speech, elsewhere, notes, known>>
    BY DEF SendSticker
<1>5. "sticker" \in Extras /\ "sticker" \in Item /\ "sticker" # "denial"
    BY DEF Item, Extras
<1>6. Gets(h, "sticker") /\ (o = "ok" => got'[h] = Append(got[h], "sticker"))
    BY <1>3, <1>5, OutcomeGet
<1>7. PICK l : l = Len(got[h])
    OBVIOUS
<1>8. l \in Nat
    BY <1>1, <1>7, LenProperties DEF HandlerTypes
<1>9. l < MaxBlocks + 6
    <2>1. l <= 1 \/ l <= MaxBlocks + 5
        BY <1>2, <1>7
    <2>2. QED
        BY <1>8, <2>1, BotBounds
<1>10. /\ Fine(update[h], answer[h], got'[h])
       /\ Got(got'[h]) \subseteq Got(got[h]) \cup {"sticker"} /\ Got(got[h]) \subseteq Got(got'[h])
       /\ Len(got'[h]) \in Nat /\ Len(got'[h]) <= Len(got[h]) + 1
       /\ got'[h] = Append(got[h], "sticker") => "sticker" \in Got(got'[h])
    BY <1>2, <1>5, <1>6, <1>7, <1>9, StillFine
<1>11. PICK st : /\ stage' = [stage EXCEPT ![h] = st]
                 /\ st = IF o = "ok" THEN "done" ELSE AfterSticker(h)
    BY <1>3 DEF Goto
<1>12. HandlerTypes' /\ Alone(h)
    BY <1>1, <1>4, <1>6, <1>11 DEF Gets, HandlerTypes, Alone, Stages, Ends, AfterSticker
<1>13. /\ stage'[h] = st /\ update'[h] = update[h] /\ answer'[h] = answer[h]
       /\ speech'[h] = speech[h]
    BY <1>1, <1>4, <1>11 DEF HandlerTypes
<1>14. StageOK(st, update[h], answer[h], speech[h], got'[h], failed'[h])
    <2>1. CASE answer[h].tag = "only"
        <3>1. Len(got'[h]) <= 2
            <4>1. PICK k : k = Len(got'[h])
                OBVIOUS
            <4>2. k \in Nat /\ k <= l + 1 /\ l <= 1
                BY <1>2, <1>7, <1>10, <2>1, <4>1
            <4>3. k <= 2
                BY <1>8, <4>2
            <4>4. QED
                BY <4>1, <4>3
        <3>2. Got(got'[h]) \subseteq {"reaction", "sticker"}
            BY <1>2, <1>10, <2>1
        <3>3. CASE o = "ok"
            <4>1. st = "done" /\ "sticker" \in Got(got'[h])
                BY <1>6, <1>10, <1>11, <3>3
            <4>2. QED
                BY <2>1, <4>1 DEF StageOK
        <3>4. CASE o # "ok"
            <4>1. st = "fallback"
                BY <1>11, <2>1, <3>4 DEF AfterSticker
            <4>2. QED
                BY <1>2, <2>1, <3>1, <3>2, <4>1 DEF StageOK
        <3>5. QED
            BY <3>3, <3>4
    <2>2. CASE answer[h].tag # "only"
        <3>1. st = "done"
            BY <1>11, <2>2 DEF AfterSticker
        <3>2. Heard(answer[h], got'[h], failed'[h]) /\ Pictured(answer[h], got'[h])
            BY <1>2, <1>6, <1>10, <2>2, MoreIsHeard DEF Gets
        <3>3. QED
            BY <2>2, <3>1, <3>2 DEF StageOK
    <2>3. QED
        BY <2>1, <2>2
<1>15. Silent(h)
    <2>1. since' \in [Chats -> 0..MinBetween]
        <3>1. 0 \in 0..MinBetween
            BY BotBounds
        <3>2. QED
            BY <1>1, <1>3, <3>1 DEF SharedTypes
    <2>2. /\ "sent there" \in Got(got'[h]) => "sent there" \in Got(got[h])
          /\ "noted" \in Got(got'[h]) => "noted" \in Got(got[h])
        BY <1>10
    <2>3. QED
        BY <1>1, <1>4, <1>13, <2>1, <2>2 DEF SharedTypes, Silent
<1>16. QED
    BY <1>10, <1>12, <1>13, <1>14, <1>15, SilentHandler

LEMMA FallbackStep ==
    ASSUME BotInv, NEW h \in Handlers, Fallback(h)
    PROVE  BotInv'
<1>1. /\ StageOK(stage[h], update[h], answer[h], speech[h], got[h], failed[h])
      /\ HandlerTypes /\ SharedTypes /\ Fine(update[h], answer[h], got[h])
    BY HandlerIs DEF BotInv
<1>2. /\ Got(got[h]) \subseteq {"reaction", "sticker"} /\ Len(got[h]) <= 2
      /\ Whole(answer[h], speech[h]) /\ answer[h].tag = "only"
      /\ UNCHANGED <<update, answer, speech, elsewhere, notes, known, since>>
    BY <1>1 DEF Fallback, StageOK
<1>3. CASE speech[h] = <<>>
    <2>1. stage' = [stage EXCEPT ![h] = "done"] /\ UNCHANGED <<got, failed>>
        BY <1>3 DEF Fallback, Goto, GetNothing
    <2>2. HandlerTypes' /\ Alone(h)
        BY <1>1, <1>2, <2>1 DEF HandlerTypes, Alone, Stages, Ends
    <2>3. /\ stage'[h] = "done" /\ update'[h] = update[h] /\ answer'[h] = answer[h]
          /\ speech'[h] = speech[h] /\ got'[h] = got[h] /\ failed'[h] = failed[h]
        BY <1>1, <1>2, <2>1 DEF HandlerTypes
    <2>4. Heard(answer[h], got[h], failed[h])
        BY <1>2, <1>3 DEF Whole, Heard, HasWordsIn
    <2>5. StageOK("done", update[h], answer[h], speech[h], got[h], failed[h])
        BY <1>2, <2>4 DEF StageOK
    <2>6. Silent(h)
        BY <1>1, <1>2, <2>3 DEF SharedTypes, Silent
    <2>7. QED
        BY <1>1, <2>2, <2>3, <2>5, <2>6, SilentHandler
<1>4. CASE speech[h] # <<>>
    <2>1. PICK call, x, st :
              /\ call \in Texts
              /\ x = (IF Head(speech[h]) \in Claims THEN Head(speech[h]) ELSE "reply")
              /\ Get(h, x, call.copies, call.ok)
              /\ stage' = [stage EXCEPT ![h] = st]
              /\ st = IF call.ok THEN "done" ELSE "raised"
        BY <1>4 DEF Fallback, Goto
    <2>2. x \in Claims \cup {"reply"} /\ (x \in Claims => x \in Got(speech[h]))
        <3>1. Head(speech[h]) \in Got(speech[h])
            <4>1. PICK sp : sp = speech[h]
                OBVIOUS
            <4>2. sp \in Seq(Wordings \cup Claims) /\ sp # <<>>
                BY <1>1, <1>4, <4>1 DEF HandlerTypes
            <4>3. 1 \in DOMAIN sp /\ Head(sp) = sp[1]
                BY <4>2, LenProperties, EmptySeq
            <4>4. QED
                BY <4>1, <4>3 DEF Got
        <3>2. "reply" \notin Claims
            BY DEF Claims
        <3>3. QED
            BY <2>1, <3>1, <3>2
    <2>3. x \in Claims \cup Extras /\ x \in Item /\ x \notin {"reaction", "sticker", "denial", "noted"}
        BY <2>2 DEF Item, Extras, Claims
    <2>4. Gets(h, x) /\ (call.ok => got'[h] = Append(got[h], x)) /\ (~call.ok => failed'[h])
        BY <2>1, <2>3, TextGet
    <2>5. x \notin Got(got[h])
        BY <1>2, <2>3
    <2>6. Len(got[h]) < MaxBlocks + 6
        <3>1. PICK l : l = Len(got[h])
            OBVIOUS
        <3>2. l \in Nat /\ l <= 2
            BY <1>1, <1>2, <3>1, LenProperties DEF HandlerTypes
        <3>3. l < MaxBlocks + 6
            BY <3>2, BotBounds
        <3>4. QED
            BY <3>1, <3>3
    <2>7. x # "denial"
        BY <2>3
    <2>8. /\ Fine(update[h], answer[h], got'[h])
          /\ Got(got'[h]) \subseteq Got(got[h]) \cup {x}
          /\ got'[h] = Append(got[h], x) => x \in Got(got'[h])
        BY <2>3, <2>4, <2>5, <2>6, <2>7, StillFine
    <2>9. HandlerTypes' /\ Alone(h)
        BY <1>1, <1>2, <2>1, <2>4 DEF Gets, HandlerTypes, Alone, Stages, Ends
    <2>10. /\ stage'[h] = st /\ update'[h] = update[h] /\ answer'[h] = answer[h]
           /\ speech'[h] = speech[h]
        BY <1>1, <1>2, <2>1 DEF HandlerTypes
    <2>11. StageOK(st, update[h], answer[h], speech[h], got'[h], failed'[h])
        <3>1. CASE call.ok
            <4>1. Heard(answer[h], got'[h], failed'[h])
                BY <2>2, <2>4, <2>8, <3>1 DEF Heard
            <4>2. QED
                BY <1>2, <2>1, <3>1, <4>1 DEF StageOK
        <3>2. CASE ~call.ok
            BY <2>1, <3>2 DEF StageOK
        <3>3. QED
            BY <3>1, <3>2
    <2>12. Silent(h)
        <3>1. "sent there" \in Claims /\ "noted" # x
            BY <2>3 DEF Claims
        <3>2. /\ "sent there" \in Got(got'[h]) => "sent there" \in Got(got[h]) \cup Got(speech[h])
              /\ "noted" \in Got(got'[h]) => "noted" \in Got(got[h])
            BY <2>2, <2>8, <3>1
        <3>3. QED
            BY <1>1, <1>2, <2>10, <3>2 DEF SharedTypes, Silent
    <2>13. QED
        BY <2>8, <2>9, <2>10, <2>11, <2>12, SilentHandler
<1>5. QED
    BY <1>3, <1>4

\* A plain answer where the chat got nothing before.
LEMMA FirstSaid ==
    ASSUME BotInv, NEW h \in Handlers, NEW x \in Claims \cup Extras, NEW next \in Stages,
           SayPlainly(h, x, next), got[h] = <<>>,
           x = "denial" => update[h].kind = "note" \/ update[h].sender # "bot"
    PROVE  /\ Gets(h, x) /\ Fine(update[h], answer[h], got'[h]) /\ Got(got'[h]) \subseteq {x}
           /\ Len(got'[h]) <= 1
           /\ \E st \in {next, "raised"} : stage' = [stage EXCEPT ![h] = st]
<1>1. x \in Item
    BY DEF Item
<1>2. Gets(h, x) /\ \E st \in {next, "raised"} : stage' = [stage EXCEPT ![h] = st]
    BY <1>1, SaidPlainly
<1>3. x \notin Got(got[h]) /\ Len(got[h]) < MaxBlocks + 6
    BY NothingYet, BotBounds
<1>4. /\ Fine(update[h], answer[h], got'[h]) /\ Got(got'[h]) \subseteq Got(got[h]) \cup {x}
      /\ Len(got'[h]) \in Nat /\ Len(got'[h]) <= Len(got[h]) + 1
    BY <1>2, <1>3, StillFine
<1>5. PICK l, k : l = Len(got'[h]) /\ k = Len(got[h])
    OBVIOUS
<1>6. l <= 1
    <2>1. l \in Nat /\ k = 0 /\ l <= k + 1
        BY <1>4, <1>5, NothingYet
    <2>2. QED
        BY <2>1
<1>7. QED
    BY <1>2, <1>4, <1>5, <1>6, NothingYet

LEMMA GreetStep ==
    ASSUME BotInv, NEW h \in Handlers, Greet(h)
    PROVE  BotInv'
<1>1. /\ StageOK(stage[h], update[h], answer[h], speech[h], got[h], failed[h])
      /\ HandlerTypes /\ SharedTypes /\ Fine(update[h], answer[h], got[h])
    BY HandlerIs DEF BotInv
<1>2. /\ got[h] = <<>> /\ answer[h] = NoAnswer /\ SayPlainly(h, "welcome", "extra")
      /\ UNCHANGED <<update, answer, speech, elsewhere, notes, known, since>>
    BY <1>1 DEF Greet, StageOK
<1>3. "welcome" \in Claims \cup Extras /\ "welcome" # "denial" /\ "extra" \in Stages
    BY DEF Extras, Stages, Ends
<1>4. /\ Gets(h, "welcome") /\ Fine(update[h], answer[h], got'[h])
      /\ Got(got'[h]) \subseteq {"welcome"} /\ Len(got'[h]) <= 1
      /\ \E st \in {"extra", "raised"} : stage' = [stage EXCEPT ![h] = st]
    BY <1>2, <1>3, FirstSaid
<1>5. PICK st \in {"extra", "raised"} : stage' = [stage EXCEPT ![h] = st]
    BY <1>4
<1>6. HandlerTypes' /\ Alone(h)
    BY <1>1, <1>2, <1>4, <1>5 DEF Gets, HandlerTypes, Alone, Stages, Ends
<1>7. /\ stage'[h] = st /\ update'[h] = update[h] /\ answer'[h] = answer[h]
      /\ speech'[h] = speech[h]
    BY <1>1, <1>2, <1>5 DEF HandlerTypes
<1>8. StageOK(st, update[h], answer[h], speech[h], got'[h], failed'[h])
    <2>1. Len(got'[h]) <= MaxBlocks + 5
        <3>1. PICK l : l = Len(got'[h])
            OBVIOUS
        <3>2. l \in Nat /\ l <= 1
            BY <1>4, <1>6, <3>1, LenProperties DEF HandlerTypes
        <3>3. l <= MaxBlocks + 5
            BY <3>2, BotBounds
        <3>4. QED
            BY <3>1, <3>3
    <2>2. "sticker" \notin Got(got'[h])
        BY <1>4
    <2>3. Heard(answer[h], got'[h], failed'[h]) /\ Pictured(answer[h], got'[h])
        BY <1>2, NoWordsYet DEF Heard, Pictured
    <2>4. answer[h].tag # "only"
        BY <1>2, NoWordsYet
    <2>5. QED
        BY <2>1, <2>2, <2>3, <2>4 DEF StageOK
<1>9. Silent(h)
    <2>1. "sent there" \notin Got(got'[h]) /\ "noted" \notin Got(got'[h])
        BY <1>4
    <2>2. QED
        BY <1>1, <1>2, <1>7, <2>1 DEF SharedTypes, Silent
<1>10. QED
    BY <1>4, <1>6, <1>7, <1>8, <1>9, SilentHandler

\* A note is said to be noted only when it is in the vault.
LEMMA NoteStep ==
    ASSUME BotInv, NEW h \in Handlers, Note(h)
    PROVE  BotInv'
<1>1. /\ StageOK(stage[h], update[h], answer[h], speech[h], got[h], failed[h])
      /\ HandlerTypes /\ SharedTypes /\ Fine(update[h], answer[h], got[h]) /\ TrueOf(h)
    BY HandlerIs DEF BotInv
<1>2. /\ got[h] = <<>> /\ answer[h] = NoAnswer /\ update[h].kind = "note"
      /\ UNCHANGED <<update, answer, speech, elsewhere, known, since>>
    BY <1>1 DEF Note, StageOK
<1>3. PICK x \in {"noted", "not noted", "denial"}, next \in {"done", "denied"} :
          /\ SayPlainly(h, x, next) /\ notes \subseteq notes' /\ notes' \subseteq notes \cup {h}
          /\ x = "noted" => h \in notes'
    <2>1. CASE MayNote(h) /\ update[h].words
        <3>1. PICK saved \in BOOLEAN, heard \in BOOLEAN :
                /\ notes' = IF saved THEN notes \cup {h} ELSE notes
                /\ SayPlainly(h, IF Acknowledged(saved, heard) THEN "noted" ELSE "not noted",
                              "done")
            BY <2>1 DEF Note
        <3>2. CASE Acknowledged(saved, heard)
            BY <3>1, <3>2 DEF Acknowledged
        <3>3. CASE ~Acknowledged(saved, heard)
            BY <3>1, <3>3
        <3>4. QED
            BY <3>2, <3>3
    <2>2. CASE ~(MayNote(h) /\ update[h].words)
        <3>1. SayPlainly(h, "denial", "denied") /\ notes' = notes
            BY <2>2 DEF Note
        <3>2. QED
            BY <3>1
    <2>3. QED
        BY <2>1, <2>2
<1>4. x \in Claims \cup Extras /\ next \in Stages
    BY DEF Extras, Stages, Ends
<1>5. /\ Gets(h, x) /\ Fine(update[h], answer[h], got'[h]) /\ Got(got'[h]) \subseteq {x}
      /\ \E st \in {next, "raised"} : stage' = [stage EXCEPT ![h] = st]
    BY <1>2, <1>3, <1>4, FirstSaid
<1>6. PICK st \in {"done", "denied", "raised"} : stage' = [stage EXCEPT ![h] = st]
    BY <1>5
<1>7. HandlerTypes' /\ Alone(h)
    BY <1>1, <1>2, <1>5, <1>6 DEF Gets, HandlerTypes, Alone, Stages, Ends
<1>8. /\ stage'[h] = st /\ update'[h] = update[h] /\ answer'[h] = answer[h]
      /\ speech'[h] = speech[h]
    BY <1>1, <1>2, <1>6 DEF HandlerTypes
<1>9. StageOK(st, update[h], answer[h], speech[h], got'[h], failed'[h])
    <2>1. Heard(answer[h], got'[h], failed'[h]) /\ Pictured(answer[h], got'[h])
        BY <1>2, NoWordsYet DEF Heard, Pictured
    <2>2. QED
        BY <1>2, <2>1, NoWordsYet DEF StageOK
<1>10. SharedTypes' /\ Speaks(h)
    BY <1>1, <1>2, <1>3 DEF SharedTypes, Speaks, elsewhere
<1>11. TrueOf(h)'
    <2>1. /\ "sent there" \notin Got(got'[h])
          /\ "noted" \in Got(got'[h]) => x = "noted"
        BY <1>5
    <2>2. QED
        BY <1>1, <1>2, <1>3, <1>8, <2>1 DEF TrueOf, elsewhere
<1>12. QED
    BY <1>5, <1>7, <1>8, <1>9, <1>10, <1>11, OneHandler
-----------------------------------------------------------------------------
(* What holds of every answer                                              *)

LEMMA BotInvInit ==
    ASSUME BotInit
    PROVE  BotInv
<1>1. /\ stage = [h \in Handlers |-> "idle"]
      /\ update = [h \in Handlers |-> CHOOSE u \in Updates[h] : TRUE]
      /\ answer = [h \in Handlers |-> NoAnswer]
      /\ speech = [h \in Handlers |-> <<>>] /\ got = [h \in Handlers |-> <<>>]
      /\ failed = [h \in Handlers |-> FALSE]
      /\ arrived = {} /\ reported = {} /\ remembered = {} /\ notes = {}
      /\ known \subseteq Chats
    BY DEF BotInit
<1>2. \A h \in Handlers : (CHOOSE u \in Updates[h] : TRUE) \in Update
    BY BotBounds
<1>3. HandlerTypes
    <2>1. "idle" \in Stages /\ <<>> \in Seq(Wordings \cup Claims) /\ <<>> \in Seq(Item)
        BY DEF Stages
    <2>2. QED
        BY <1>1, <1>2, <2>1, NoWordsYet DEF HandlerTypes
<1>4. SharedTypes
    <2>1. since \in [Chats -> 0..MinBetween]
        BY DEF BotInit
    <2>2. QED
        BY <1>1, <2>1 DEF SharedTypes
<1>5. ASSUME NEW h \in Handlers
      PROVE  /\ Fine(update[h], answer[h], got[h])
             /\ StageOK(stage[h], update[h], answer[h], speech[h], got[h], failed[h])
             /\ TrueOf(h)
    <2>1. stage[h] = "idle" /\ answer[h] = NoAnswer /\ got[h] = <<>> /\ speech[h] = <<>>
        BY <1>1
    <2>2. Fine(update[h], answer[h], got[h])
        <3>1. Len(<<>>) <= MaxBlocks + 6
            BY NothingYet, BotBounds
        <3>2. QED
            BY <2>1, <3>1, NothingYet, NoWordsYet DEF Fine
    <2>3. StageOK(stage[h], update[h], answer[h], speech[h], got[h], failed[h])
        BY <2>1 DEF StageOK
    <2>4. TrueOf(h)
        BY <1>1, <2>1, NothingYet DEF TrueOf
    <2>5. QED
        BY <2>2, <2>3, <2>4
<1>6. QED
    BY <1>3, <1>4, <1>5 DEF BotInv

LEMMA BotInvNext ==
    ASSUME BotInv, [BotNext]_botVars
    PROVE  BotInv'
<1>1. CASE UNCHANGED botVars
    BY <1>1 DEF botVars, BotInv, HandlerTypes, SharedTypes, TrueOf
<1>2. ASSUME NEW h \in Handlers, BotStep(h) PROVE BotInv'
    <2>1. CASE Route(h) \/ Look(h) \/ Access(h) \/ AccessFails(h) \/ AskFails(h) \/ Tell(h)
               \/ Ask(h)
        BY <2>1, RouteStep, LookStep, AccessStep, FailedStep, TellStep, AskStep
    <2>2. CASE Cross(h) \/ Dm(h) \/ React(h) \/ Voice(h) \/ SendBlock(h) \/ SendPhoto(h)
        BY <2>2, CrossStep, DmStep, ReactStep, VoiceStep, SendBlockStep, SendPhotoStep
    <2>3. CASE Decide(h) \/ SendSticker(h) \/ Fallback(h) \/ Greet(h) \/ Note(h)
        BY <2>3, DecideStep, SendStickerStep, FallbackStep, GreetStep, NoteStep
    <2>4. QED
        BY <1>2, <2>1, <2>2, <2>3 DEF BotStep
<1>3. QED
    BY <1>1, <1>2 DEF BotNext

\* The sequence that begins another is its prefix.
LEMMA BeginsIsPrefix ==
    ASSUME NEW S, NEW T, NEW s \in Seq(S), NEW t \in Seq(T), Begins(s, t)
    PROVE  IsPrefix(s, t)
<1>1. PICK n, m : n = Len(s) /\ m = Len(t)
    OBVIOUS
<1>2. n \in Nat /\ m \in Nat /\ n <= m
    BY <1>1, LenProperties DEF Begins
<1>3. PICK a, b : a = SubSeq(s, 1, n) /\ b = SubSeq(t, 1, n)
    OBVIOUS
<1>4. s \in Seq(S \cup T) /\ t \in Seq(S \cup T)
    BY SeqDef
<1>5. /\ a \in Seq(S \cup T) /\ Len(a) = n /\ \A i \in 1..n : a[i] = s[i]
      /\ b \in Seq(S \cup T) /\ Len(b) = n /\ \A i \in 1..n : b[i] = t[i]
    BY <1>1, <1>2, <1>3, <1>4, SubSeqProperties
<1>6. \A i \in 1..n : s[i] = t[i]
    BY <1>1 DEF Begins
<1>7. a = b
    BY <1>5, <1>6, SeqEqual
<1>8. QED
    BY <1>1, <1>2, <1>3, <1>7 DEF IsPrefix

LEMMA BotInvTypes ==
    ASSUME BotInv
    PROVE  BotTypeOK
<1>1. HandlerTypes /\ SharedTypes /\ \A h \in Handlers : Fine(update[h], answer[h], got[h])
    BY DEF BotInv
<1>2. \A h \in Handlers : Len(got[h]) <= MaxBlocks + 6
    BY <1>1 DEF Fine
<1>3. \A h \in Handlers :
          /\ update[h] \in Update /\ answer[h] \in Answer
          /\ speech[h] \in Seq(Wordings \cup Claims)
          /\ got[h] \in Seq(Wordings \cup Claims \cup Extras)
    BY <1>1 DEF HandlerTypes, Item
<1>4. stage \in [Handlers -> Stages] /\ failed \in [Handlers -> BOOLEAN]
    BY <1>1 DEF HandlerTypes
<1>5. QED
    BY <1>1, <1>2, <1>3, <1>4 DEF BotTypeOK, SharedTypes

LEMMA GotItemIs ==
    ASSUME NEW h, NEW x
    PROVE  GotItem(h, x) <=> x \in Got(got[h])
BY DEF GotItem, Got

LEMMA BotInvHolds ==
    ASSUME BotInv
    PROVE  BotReplyHolds
<1>1. ASSUME NEW h \in Handlers
      PROVE  /\ StageOK(stage[h], update[h], answer[h], speech[h], got[h], failed[h])
             /\ Fine(update[h], answer[h], got[h]) /\ TrueOf(h)
             /\ got[h] \in Seq(Item) /\ answer[h] \in Answer
    BY <1>1, HandlerIs
<1>2. NeverSilent
    <2>1. SUFFICES ASSUME NEW h \in Handlers, stage[h] = "done", HasWords(h), ~failed[h]
                   PROVE  \/ "voice" \in Got(got[h])
                          \/ "sticker" \in Got(got[h]) /\ answer[h].tag = "only"
                          \/ \E words \in Wordings \cup Claims \cup {"reply"} :
                                words \in Got(got[h])
        BY GotItemIs DEF NeverSilent
    <2>2. Heard(answer[h], got[h], failed[h])
          \/ ("sticker" \in Got(got[h]) /\ answer[h].tag = "only")
        BY <1>1, <2>1 DEF StageOK
    <2>3. HasWordsIn(answer[h])
        BY <2>1 DEF HasWords, HasWordsIn
    <2>4. QED
        BY <2>1, <2>2, <2>3 DEF Heard
<1>3. BlocksArriveInOrder
    <2>1. ASSUME NEW h \in Handlers PROVE IsPrefix(Blocks(h), answer[h].blocks)
        <3>1. Blocks(h) = BlocksOf(got[h])
            BY DEF Blocks, BlocksOf, Select
        <3>2. BlocksOf(got[h]) \in Seq(Item)
            BY <1>1, BlocksAre
        <3>3. answer[h].blocks \in Seq(Wordings)
            BY <1>1 DEF Answer
        <3>4. Begins(BlocksOf(got[h]), answer[h].blocks)
            BY <1>1 DEF Fine
        <3>5. QED
            BY <3>1, <3>2, <3>3, <3>4, BeginsIsPrefix
    <2>2. ASSUME NEW h \in Handlers
          PROVE  \A i, j \in DOMAIN got[h] : got[h][i] = got[h][j] => i = j \/ got[h][i] = "photo"
        BY <1>1 DEF Fine, Apart
    <2>3. QED
        BY <2>1, <2>2 DEF BlocksArriveInOrder
<1>4. ClaimsAreTrue
    BY <1>1, GotItemIs DEF ClaimsAreTrue, TrueOf
<1>5. NothingIsLost
    <2>1. ASSUME NEW h \in Handlers
          PROVE  /\ stage[h] = "dropped" => update[h].kind \in {"sticker", "voice"} \/ ~update[h].words
                 /\ stage[h] = "done" /\ answer[h].photo # "none" /\ answer[h].tag # "only"
                    => "photo" \in Got(got[h]) \/ "no photo" \in Got(got[h])
                 /\ "denial" \in Got(got[h]) /\ update[h].kind # "note" => update[h].sender # "bot"
        BY <1>1 DEF StageOK, Fine, Pictured
    <2>2. QED
        BY <2>1, GotItemIs DEF NothingIsLost
<1>6. QED
    BY <1>2, <1>3, <1>4, <1>5 DEF BotReplyHolds

\* At every stage of every handler, what the chat got, what is still to be sent
\* and what is claimed of other chats and notes fit the update and the answer.
THEOREM BotInvariant == BotSpec => []BotInv
<1>1. BotInit => BotInv
    BY BotInvInit
<1>2. BotInv /\ [BotNext]_botVars => BotInv'
    BY BotInvNext
<1>3. QED
    BY <1>1, <1>2, PTL DEF BotSpec

\* A handler that comes to its end without a failure has said its words; a chat
\* gets the blocks of the answer once and in order; what is told of other chats
\* and of notes is so; a photo that was promised is sent or its absence told;
\* and no bot is denied aloud, but for a note.
THEOREM BotRepliesRight == BotSpec => []BotReplyHolds
<1>1. BotInv => BotReplyHolds
    BY BotInvHolds
<1>2. QED
    BY <1>1, BotInvariant, PTL

\* The handlers' variables stay well typed, and no chat gets more items for an
\* update than the blocks and six more.
THEOREM BotStaysTyped == BotSpec => []BotTypeOK
<1>1. BotInv => BotTypeOK
    BY BotInvTypes
<1>2. QED
    BY <1>1, BotInvariant, PTL
-----------------------------------------------------------------------------
(* The parts of a reply together                                           *)

\* The breaker never counts more failures than came back in a row.
THEOREM BreakerStaysTyped == BreakerSpec => []BreakerTypeOK
<1> DEFINE BreakerBounds == BreakerTypeOK /\ failures <= streak
<1> USE BreakerAssumption
<1>1. BreakerInit => BreakerBounds
    BY DEF BreakerInit, BreakerTypeOK
<1>2. BreakerBounds /\ [BreakerNext]_breakerVars => BreakerBounds'
    <2> SUFFICES ASSUME BreakerBounds, [BreakerNext]_breakerVars PROVE BreakerBounds'
        OBVIOUS
    <2> USE DEF BreakerTypeOK
    <2>1. CASE TickPasses
        BY <2>1 DEF TickPasses
    <2>2. ASSUME NEW c \in Callers, CallTool(c) \/ RecordSuccess(c) PROVE BreakerBounds'
        BY <2>2 DEF CallTool, RecordSuccess
    <2>3. ASSUME NEW c \in Callers, RecordFailure(c) PROVE BreakerBounds'
        <3>1. /\ streak < MaxStreak /\ streak' = streak + 1 /\ tick' = tick
              /\ calling' = calling \ {c}
              /\ failures' \in {1, failures + 1} /\ openSince' \in {tick, openSince}
              /\ trip' \in {tick, trip}
            BY <2>3 DEF RecordFailure, Observe
        <3>2. QED BY <3>1
    <2>4. CASE UNCHANGED breakerVars
        BY <2>4 DEF breakerVars
    <2>5. QED BY <2>1, <2>2, <2>3, <2>4 DEF BreakerNext
<1>3. QED
    BY <1>1, <1>2, PTL DEF BreakerSpec

\* A behaviour of the composed module is one of each part.
LEMMA PartsBehave ==
    MCSpec => PeerSpec /\ PaceSpec /\ BreakerSpec /\ ComposeSpec /\ Spec /\ BotSpec
<1> DEFINE all == <<part, peerVars, paceVars, breakerVars, composeVars, vars, botVars>>
<1>1. MCInit => PeerInit /\ PaceInit /\ BreakerInit /\ ComposeInit /\ Init /\ BotInit
    BY DEF MCInit
<1>2. [MCNext]_all => /\ [PeerNext]_peerVars /\ [PaceNext]_paceVars
                      /\ [BreakerNext]_breakerVars /\ [ComposeNext]_composeVars
                      /\ [Next]_vars /\ [BotNext]_botVars
    BY DEF MCNext
<1>3. QED
    BY <1>1, <1>2, PTL DEF MCSpec, PeerSpec, PaceSpec, BreakerSpec, ComposeSpec, Spec, BotSpec

\* Each part of a reply keeps its variables well typed, in any behaviour of all.
THEOREM RepliesStayTyped == MCSpec => []RepliesTypeOK
<1>1. PeerInv /\ PaceInv /\ AlbumInv => PeerTypeOK /\ PaceTypeOK /\ TypeOK
    BY DEF PeerInv, PaceInv, AlbumInv
<1>2. PeerTypeOK /\ PaceTypeOK /\ BreakerTypeOK /\ ComposeTypeOK /\ TypeOK /\ BotTypeOK
      => RepliesTypeOK
    BY DEF RepliesTypeOK
<1>3. QED
    BY <1>1, <1>2, PartsBehave, PeerInvariant, PaceInvariant, BreakerStaysTyped,
       ComposeStaysTyped, AlbumInvariant, BotStaysTyped, PTL
=============================================================================
