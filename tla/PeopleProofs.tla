----------------------------- MODULE PeopleProofs -----------------------------
(***************************************************************************)
(* Proofs about the cards of people, for any accounts, words, tasks and    *)
(* bounds, and for words as alike as they may be: cards and indices stay   *)
(* well formed, whatever is known of a card is of people in one circle of  *)
(* words, and a write that knows its card drops nothing of it.             *)
(***************************************************************************)
EXTENDS People, OrderingProofs

-----------------------------------------------------------------------------
(* What the variables hold                                                 *)

Ids == Accounts \cup {NoId}
Trusts == 0..100 \cup {Unknown}
Counts == {0, 1, Unknown}
Metrics == [trust : Trusts, count : Counts]
Dossiers == [body : Nat, aliases : SUBSET Spellings, tid : Ids]
Cards == [tid : Ids, aliases : SUBSET Spellings, trust : Trusts, count : Counts,
          body : Nat, portrait : Dossiers \cup {NoCard}]
Readings == Cards \cup {NoCard}
Rows == [id : CardIds, tid : Ids, name : Spellings, m : Metrics, of : SUBSET Accounts]
Indices == [tid : [Accounts -> CardIds \cup {NoCard}], alias : [CardIds -> CardIds \cup {NoCard}]]

\* What a task has in hand, by what it does.
Hands ==
    [at : {"idle"}] \cup [at : {"pass"}, todo : SUBSET Rows]
    \cup [at : {"loaded"}, todo : SUBSET Rows, row : Rows]
    \cup [at : {"read"}, todo : SUBSET Rows, row : Rows, card : CardIds, note : Readings]
    \cup [at : {"plan"}, todo : SUBSET Facts]
    \cup [at : {"fact"}, todo : SUBSET Facts, fact : Facts, card : CardIds, note : Readings]
    \cup [at : {"rebuild"}, then : {"pass"}, todo : SUBSET Rows]
    \cup [at : {"rebuild"}, then : {"idle"}]
    \cup [at : {"dossier"}, card : CardIds, note : Cards \ {NoCard}]

\* No card, and no reading of one, has more facts than there were writes.
BodiesCount ==
    /\ \A c \in CardIds : Exists(c) => cards[c].body <= stamp
    /\ \A t \in Tasks : hand[t].at \in {"read", "fact", "dossier"} =>
           hand[t].note = NoCard \/ hand[t].note.body <= stamp

PeopleShapes ==
    /\ cards \in [CardIds -> Readings] /\ stamp \in Nat
    /\ manifest \in Indices /\ cache \in [stamp : Nat, index : Indices]
    /\ hand \in [Tasks -> Hands]
    /\ of \in [CardIds -> SUBSET Accounts]
    /\ BodiesCount
-----------------------------------------------------------------------------
(* Whose everything is *)

\* who gives every word and account the label of its circle: what is in it, and
\* what is not.
Labels == {0, 1}
WordsAreOf(who) ==
    /\ \A a \in Accounts : who[NameOf[a]] = who[a]
    /\ \A f \in Facts : who[f.ref] = who[f.of]
    /\ \A v \in CardIds, w \in Spellings : <<v, w>> \in Alike => who[v] = who[w]

\* Only where an owner is, trust may be no score.
Earned(who, trust, p) == trust \in Scores \cup {0, Unknown} \/ \E o \in Owners : who[o] = p

CardIs(who, card, p) ==
    /\ card.tid # NoId => who[card.tid] = p
    /\ Earned(who, card.trust, p)
    /\ \A w \in card.aliases : who[w] = p
ReadingIs(who, text, c) == text = NoCard \/ CardIs(who, text, who[c])

RowIs(who, row) ==
    /\ row.tid # NoId => who[row.tid] = who[row.id]
    /\ who[row.name] = who[row.id]
    /\ \A a \in row.of : who[a] = who[row.id]
    /\ Earned(who, row.m.trust, who[row.id])

IndexIs(who, index) ==
    /\ \A a \in Accounts : index.tid[a] # NoCard => who[index.tid[a]] = who[a]
    /\ \A w \in CardIds : index.alias[w] # NoCard =>
           w \in Spellings /\ who[index.alias[w]] = who[w]

HandIs(who, h) ==
    /\ h.at \in {"pass", "loaded", "read"} => \A row \in h.todo : RowIs(who, row)
    /\ h.at = "rebuild" /\ h.then = "pass" => \A row \in h.todo : RowIs(who, row)
    /\ h.at \in {"loaded", "read"} => RowIs(who, h.row)
    /\ h.at = "read" => who[h.card] = who[h.row.id]
    /\ h.at = "fact" => who[h.card] = who[h.fact.of]
    /\ h.at \in {"read", "fact", "dossier"} => ReadingIs(who, h.note, h.card)

\* Everything that is known of a card is of people in the circle of the word it is
\* named by.
EverythingIs(who) ==
    /\ IndexIs(who, manifest) /\ IndexIs(who, cache.index)
    /\ \A t \in Tasks : HandIs(who, hand[t])
    /\ \A c \in CardIds : /\ \A a \in of[c] : who[a] = who[c]
                          /\ ReadingIs(who, cards[c], c)

-----------------------------------------------------------------------------
LEMMA HandFields ==
    ASSUME NEW h \in Hands
    PROVE  /\ h.at \in {"idle", "pass", "loaded", "read", "plan", "fact", "dossier", "rebuild"}
           /\ h.at \in {"pass", "loaded", "read"} => h.todo \subseteq Rows
           /\ h.at = "rebuild" => \/ h.then = "pass" /\ h.todo \subseteq Rows
                                  \/ h.then = "idle"
           /\ h.at \in {"loaded", "read"} => h.row \in Rows
           /\ h.at \in {"plan", "fact"} => h.todo \subseteq Facts
           /\ h.at = "fact" => h.fact \in Facts
           /\ h.at \in {"read", "fact", "dossier"} => h.card \in CardIds /\ h.note \in Readings
           /\ h.at = "dossier" => h.note \in Cards \ {NoCard}
BY DEF Hands, Readings

\* The first and the last of some cards are among them.
LEMMA CardsInOrder ==
    ASSUME NEW S \in SUBSET CardIds, S # {}
    PROVE  FirstCard(S) \in S /\ LastCard(S) \in S
<1> DEFINE ranks == {PathOrder[c] : c \in S}
<1>1. PathOrder \in [CardIds -> Nat] /\ Cardinality(CardIds) \in Nat
      /\ \A c \in CardIds : PathOrder[c] <= Cardinality(CardIds)
    <2>1. Cardinality(CardIds) \in Nat
        BY PeopleAssumption, FS_CardinalityType
    <2>2. QED
        BY <2>1, PeopleAssumption
<1>2. ranks \in SUBSET Nat /\ ranks # {} /\ \A n \in ranks : n <= Cardinality(CardIds)
    BY <1>1
<1>3. \E c \in S : \A d \in S : PathOrder[c] <= PathOrder[d]
    <2>1. Min(ranks) \in ranks /\ \A n \in ranks : Min(ranks) <= n
        BY <1>2, LeastOfNaturals
    <2>2. PICK c \in S : PathOrder[c] = Min(ranks)
        BY <2>1
    <2>3. QED
        BY <2>1, <2>2
<1>4. \E c \in S : \A d \in S : PathOrder[c] >= PathOrder[d]
    <2>2. Max(ranks) \in ranks /\ \A n \in ranks : n <= Max(ranks)
        BY <1>1, <1>2, GreatestOfNaturals
    <2>3. PICK c \in S : PathOrder[c] = Max(ranks)
        BY <2>2
    <2>4. \A d \in S : PathOrder[c] >= PathOrder[d]
        BY <1>1, <2>2, <2>3
    <2>5. QED
        BY <2>4
<1>5. QED
    BY <1>3, <1>4 DEF FirstCard, LastCard

\* The manifest gives cards that are there, of those whose words ask for them.
LEMMA BuiltIndex ==
    ASSUME cards \in [CardIds -> Readings]
    PROVE  /\ BuildPeopleIndex \in Indices
           /\ \A a \in Accounts : BuildPeopleIndex.tid[a] # NoCard =>
                  Exists(BuildPeopleIndex.tid[a]) /\ cards[BuildPeopleIndex.tid[a]].tid = a
           /\ \A w \in CardIds : BuildPeopleIndex.alias[w] # NoCard =>
                  Exists(BuildPeopleIndex.alias[w]) /\ w \in cards[BuildPeopleIndex.alias[w]].aliases
<1> DEFINE listed == {c \in CardIds : Exists(c) /\
                         (cards[c].tid = NoId \/ c = FirstCard(CardsOf(cards[c].tid)))}
           with(w) == {c \in listed : w \in cards[c].aliases}
<1>1. BuildPeopleIndex = [tid   |-> [a \in Accounts |-> FirstCard(CardsOf(a))],
                          alias |-> [w \in CardIds |-> LastCard(with(w))]]
    BY DEF BuildPeopleIndex
<1>2. \A a : FirstCard(CardsOf(a)) \in CardsOf(a) \cup {NoCard}
    <2> SUFFICES ASSUME NEW a PROVE FirstCard(CardsOf(a)) \in CardsOf(a) \cup {NoCard}
        OBVIOUS
    <2>1. CardsOf(a) \subseteq CardIds
        BY DEF CardsOf
    <2>2. QED
        BY <2>1, CardsInOrder DEF FirstCard
<1>3. \A w : LastCard(with(w)) \in with(w) \cup {NoCard}
    <2> SUFFICES ASSUME NEW w PROVE LastCard(with(w)) \in with(w) \cup {NoCard}
        OBVIOUS
    <2>1. with(w) \subseteq CardIds
        OBVIOUS
    <2> HIDE DEF with
    <2>2. QED
        BY <2>1, CardsInOrder DEF LastCard
<1>4. \A a : \A c \in CardsOf(a) : c \in CardIds /\ Exists(c) /\ cards[c].tid = a
    BY DEF CardsOf
<1>5. \A w : \A c \in with(w) : c \in CardIds /\ Exists(c) /\ w \in cards[c].aliases
    OBVIOUS
<1> HIDE DEF with
<1>6. BuildPeopleIndex \in Indices
    BY <1>1, <1>2, <1>3, <1>4, <1>5 DEF Indices
<1>7. QED
    BY <1>1, <1>2, <1>3, <1>4, <1>5, <1>6

LEMMA CanonicalizeIs ==
    ASSUME NEW w \in CardIds, NEW tid \in Ids, NEW index \in Indices
    PROVE  Canonicalize(w, tid, index) \in CardIds
<1>1. \A v \in LikeOf(w, index) : v \in CardIds /\ index.alias[v] # NoCard
    BY DEF LikeOf
<1>2. \A a \in Accounts : index.tid[a] \in CardIds \cup {NoCard}
    BY DEF Indices
<1>3. \A v \in CardIds : index.alias[v] \in CardIds \cup {NoCard}
    BY DEF Indices
<1>4. QED
    BY <1>1, <1>2, <1>3 DEF Canonicalize, Ids

\* A word and an id of one circle lead to a card of that circle.
LEMMA CanonicalizeIsTheirs ==
    ASSUME NEW who \in [CardIds -> Labels], WordsAreOf(who),
           NEW w \in CardIds, NEW tid \in Ids, tid # NoId => who[tid] = who[w],
           NEW index \in Indices, IndexIs(who, index)
    PROVE  who[Canonicalize(w, tid, index)] = who[w]
<1>1. \A v \in LikeOf(w, index) :
          v \in CardIds /\ index.alias[v] # NoCard /\ <<w, v>> \in Alike
    BY DEF LikeOf
<1>2. \A v \in LikeOf(w, index) : who[index.alias[v]] = who[w]
    BY <1>1 DEF WordsAreOf, IndexIs
<1>3. tid # NoId => tid \in Accounts
    BY DEF Ids
<1>4. QED
    BY <1>2, <1>3 DEF Canonicalize, IndexIs

LEMMA ByAccountIs ==
    ASSUME NEW a \in Accounts, NEW index \in Indices
    PROVE  ByAccount(a, index) \in CardIds
BY PeopleAssumption DEF ByAccount, Indices, CardIds

LEMMA ByAccountIsTheirs ==
    ASSUME NEW who \in [CardIds -> Labels], WordsAreOf(who),
           NEW a \in Accounts, NEW index \in Indices, IndexIs(who, index)
    PROVE  who[ByAccount(a, index)] = who[a]
BY PeopleAssumption DEF ByAccount, IndexIs, WordsAreOf, CardIds

LEMMA OverIs ==
    ASSUME NEW base \in Metrics, NEW new \in Metrics
    PROVE  /\ Over(base, new) \in Metrics
           /\ base.trust # Unknown => Over(base, new).trust # Unknown
           /\ base.count # Unknown => Over(base, new).count # Unknown
           /\ Over(base, new).trust \in {base.trust, new.trust}
BY DEF Over, Metrics

LEMMA HandicappedIs ==
    ASSUME NEW tid, NEW m \in Metrics
    PROVE  /\ Handicapped(tid, m) \in Metrics
           /\ tid \notin Owners => Handicapped(tid, m) = m
<1>1. Floor \in Trusts /\ m.trust \in Trusts /\ m = [trust |-> m.trust, count |-> m.count]
    BY PeopleAssumption DEF Trusts, Metrics
<1>2. QED
    BY <1>1 DEF Handicapped, Metrics

Judgements == [of : Accounts, ref : Spellings, tid : Ids, trust : Scores]

LEMMA CombinedAre ==
    ASSUME NEW judged \in SUBSET Judgements, NEW counted \in SUBSET Accounts,
           NEW index \in Indices
    PROVE  /\ Combined(judged, counted, index) \in SUBSET Rows
           /\ \A who \in [CardIds -> Labels] :
                  /\ WordsAreOf(who) /\ IndexIs(who, index)
                  /\ \A j \in judged : who[j.ref] = who[j.of] /\ j.tid \in {j.of, NoId}
                  => \A row \in Combined(judged, counted, index) : RowIs(who, row)
<1> DEFINE cardOf(j) == Canonicalize(j.ref, j.tid, index)
           snaps(c) == {j \in judged : cardOf(j) = c}
           senders(c) == {a \in counted : ByAccount(a, index) = c}
           tids(c) == {j.tid : j \in snaps(c)} \ {NoId}
           tid(c) == IF tids(c) # {} THEN CHOOSE a \in tids(c) : TRUE
                     ELSE IF senders(c) # {} THEN CHOOSE a \in senders(c) : TRUE ELSE NoId
           name(c) == IF snaps(c) # {} THEN (CHOOSE j \in snaps(c) : TRUE).ref
                      ELSE NameOf[CHOOSE a \in senders(c) : TRUE]
           heard(c) == [trust |-> IF snaps(c) = {} THEN Unknown
                                 ELSE (CHOOSE j \in snaps(c) : TRUE).trust,
                       count |-> CountOf(senders(c))]
           whose(c) == {j.of : j \in snaps(c)} \cup senders(c)
           rowOf(c) == [id |-> c, tid |-> tid(c), name |-> name(c),
                        m |-> Handicapped(tid(c), heard(c)), of |-> whose(c)]
           told == {cardOf(j) : j \in judged} \cup {ByAccount(a, index) : a \in counted}
<1>1. Combined(judged, counted, index) = {rowOf(c) : c \in told}
    BY DEF Combined
<1>2. /\ \A c : snaps(c) \subseteq judged /\ senders(c) \subseteq counted
      /\ \A c \in told : snaps(c) # {} \/ senders(c) # {}
    OBVIOUS
<1>3. \A c : tids(c) \subseteq Accounts
    BY <1>2 DEF Judgements, Ids
<1>4. \A j \in judged : /\ j.ref \in Spellings /\ j.ref \in CardIds /\ j.tid \in Ids
                        /\ j.of \in Accounts /\ j.trust \in Scores /\ j.trust \in Trusts
    BY PeopleAssumption DEF Judgements, CardIds, Trusts
<1>5. told \subseteq CardIds
    <2>1. \A j \in judged : cardOf(j) \in CardIds
        BY <1>4, CanonicalizeIs
    <2>2. \A a \in counted : ByAccount(a, index) \in CardIds
        BY ByAccountIs
    <2>3. QED
        BY <2>1, <2>2
<1>6. \A c : snaps(c) # {} => (CHOOSE j \in snaps(c) : TRUE) \in snaps(c)
    OBVIOUS
<1>7. \A c : senders(c) # {} => (CHOOSE a \in senders(c) : TRUE) \in senders(c)
    OBVIOUS
<1>8. \A c : tids(c) # {} => (CHOOSE a \in tids(c) : TRUE) \in tids(c)
    OBVIOUS
<1>9. \A c : /\ tid(c) \in tids(c) \cup senders(c) \cup {NoId}
             /\ tid(c) \in Ids
    <2> SUFFICES ASSUME NEW c
                 PROVE  tid(c) \in tids(c) \cup senders(c) \cup {NoId} /\ tid(c) \in Ids
        OBVIOUS
    <2>1. tid(c) \in tids(c) \cup senders(c) \cup {NoId}
        BY <1>7, <1>8
    <2> HIDE DEF tid, tids, senders
    <2>2. QED
        BY <2>1, <1>2, <1>3 DEF Ids
<1>10. \A c : heard(c) \in Metrics /\ (heard(c).trust \in Scores \cup {Unknown})
    <2> SUFFICES ASSUME NEW c
                 PROVE  heard(c) \in Metrics /\ heard(c).trust \in Scores \cup {Unknown}
        OBVIOUS
    <2>1. CountOf(senders(c)) \in Counts
        BY DEF CountOf, Counts
    <2>2. CASE snaps(c) = {}
        BY <2>1, <2>2 DEF Metrics, Trusts
    <2>3. CASE snaps(c) # {}
        BY <2>1, <2>3, <1>2, <1>4, <1>6 DEF Metrics, Trusts
    <2>4. QED
        BY <2>2, <2>3
<1>11. \A c \in told : name(c) \in Spellings
    BY <1>2, <1>4, <1>6, <1>7, PeopleAssumption
<1>12. \A c : whose(c) \subseteq Accounts
    BY <1>2, <1>4
<1>13. \A c : Handicapped(tid(c), heard(c)) \in Metrics
              /\ (tid(c) \notin Owners => Handicapped(tid(c), heard(c)) = heard(c))
    <2> HIDE DEF tid, heard
    <2>1. QED
        BY <1>10, HandicappedIs
<1>14. Combined(judged, counted, index) \in SUBSET Rows
    <2> HIDE DEF told, tid, name, heard, whose
    <2>1. \A c \in told : rowOf(c) \in Rows
        BY <1>5, <1>9, <1>11, <1>12, <1>13 DEF Rows
    <2> HIDE DEF rowOf
    <2>2. QED
        BY <1>1, <2>1
<1>15. ASSUME NEW who \in [CardIds -> Labels], WordsAreOf(who), IndexIs(who, index),
              \A j \in judged : who[j.ref] = who[j.of] /\ j.tid \in {j.of, NoId}
       PROVE  \A row \in Combined(judged, counted, index) : RowIs(who, row)
    <2>1. SUFFICES ASSUME NEW c \in told PROVE RowIs(who, rowOf(c))
        <3> HIDE DEF told, rowOf
        <3>1. QED
            BY <1>1
    <2>2. \A j \in judged : who[cardOf(j)] = who[j.ref]
        <3> SUFFICES ASSUME NEW j \in judged PROVE who[cardOf(j)] = who[j.ref]
            OBVIOUS
        <3>1. j.tid # NoId => who[j.tid] = who[j.ref]
            BY <1>15
        <3>2. QED
            BY <1>4, <1>15, <3>1, CanonicalizeIsTheirs
    <2>3. \A a \in counted : who[ByAccount(a, index)] = who[a]
        BY <1>15, ByAccountIsTheirs
    <2>4. \A j \in snaps(c) : /\ who[j.of] = who[c] /\ who[j.ref] = who[c]
                              /\ j.tid # NoId => who[j.tid] = who[c]
        BY <2>2, <1>15
    <2>5. \A a \in senders(c) : who[a] = who[c]
        BY <2>3
    <2>6. \A a \in tids(c) : who[a] = who[c]
        BY <2>4
    <2>7. tid(c) # NoId => who[tid(c)] = who[c]
        <3> HIDE DEF tid, tids, senders
        <3>1. QED
            BY <2>5, <2>6, <1>9
    <2>8. who[name(c)] = who[c]
        <3>1. CASE snaps(c) # {}
            BY <3>1, <2>4, <1>6
        <3>2. CASE snaps(c) = {}
            <4> DEFINE b == CHOOSE a \in senders(c) : TRUE
            <4>1. b \in senders(c) /\ b \in Accounts
                BY <3>2, <2>1, <1>2, <1>7
            <4>2. name(c) = NameOf[b]
                BY <3>2
            <4>3. QED
                BY <4>1, <4>2, <2>5, <1>15 DEF WordsAreOf
        <3>3. QED
            BY <3>1, <3>2
    <2>9. \A a \in whose(c) : who[a] = who[c]
        BY <2>4, <2>5
    <2>10. Earned(who, Handicapped(tid(c), heard(c)).trust, who[c])
        <3> HIDE DEF tid, heard
        <3>1. CASE tid(c) \in Owners
            <4>1. tid(c) # NoId
                BY <3>1, PeopleAssumption
            <4>2. QED
                BY <2>7, <3>1, <4>1 DEF Earned
        <3>2. CASE tid(c) \notin Owners
            BY <3>2, <1>10, <1>13 DEF Earned
        <3>3. QED
            BY <3>1, <3>2
    <2> HIDE DEF tid, name, heard, whose
    <2>11. QED
        BY <2>7, <2>8, <2>9, <2>10 DEF RowIs
<1>16. QED
    BY <1>14, <1>15

-----------------------------------------------------------------------------
(* Types *)

LEMMA EmptyIs == EmptyIndex \in Indices
BY DEF EmptyIndex, Indices

LEMMA InitPeople == PeopleInit => PeopleShapes
<1> SUFFICES ASSUME PeopleInit PROVE PeopleShapes
    OBVIOUS
<1>1. /\ cards \in [CardIds -> Readings] /\ stamp \in Nat /\ manifest \in Indices
      /\ cache \in [stamp : Nat, index : Indices] /\ of \in [CardIds -> SUBSET Accounts]
    BY EmptyIs DEF PeopleInit, Readings
<1>2. hand \in [Tasks -> Hands] /\ \A t \in Tasks : hand[t].at = "idle"
    BY DEF PeopleInit, Free, Hands
<1>3. BodiesCount
    BY <1>2 DEF PeopleInit, BodiesCount, Exists
<1>4. QED
    BY <1>1, <1>2, <1>3 DEF PeopleShapes

\* One task takes something else in hand, and the notes change by at most a write.
LEMMA ShapesKept ==
    ASSUME PeopleShapes, NEW t \in Tasks, NEW x \in Hands,
           hand' = [hand EXCEPT ![t] = x],
           x.at \in {"read", "fact", "dossier"} => x.note = NoCard \/ x.note.body <= stamp,
           \/ UNCHANGED <<cards, stamp>>
           \/ \E c \in CardIds, card \in Cards : Put(c, card) /\ card.body <= stamp + 1,
           manifest' \in Indices, cache' \in [stamp : Nat, index : Indices],
           of' \in [CardIds -> SUBSET Accounts]
    PROVE  PeopleShapes'
<1>1. /\ cards' \in [CardIds -> Readings] /\ stamp' \in Nat /\ stamp <= stamp'
      /\ \A c \in CardIds : cards'[c] # NoCard => cards'[c].body <= stamp'
    <2>1. CASE UNCHANGED <<cards, stamp>>
        BY <2>1 DEF PeopleShapes, BodiesCount, Exists
    <2>2. ASSUME NEW c \in CardIds, NEW card \in Cards, Put(c, card), card.body <= stamp + 1
          PROVE  /\ cards' \in [CardIds -> Readings] /\ stamp' \in Nat /\ stamp <= stamp'
                 /\ \A d \in CardIds : cards'[d] # NoCard => cards'[d].body <= stamp'
        <3>1. cards' = [cards EXCEPT ![c] = card] /\ stamp' = stamp + 1
            BY <2>2 DEF Put
        <3>2. cards' \in [CardIds -> Readings] /\ stamp' \in Nat /\ stamp <= stamp'
            BY <3>1 DEF PeopleShapes, Readings
        <3>3. \A d \in CardIds : cards'[d] # NoCard => cards'[d].body <= stamp'
            <4> SUFFICES ASSUME NEW d \in CardIds, cards'[d] # NoCard
                         PROVE  cards'[d].body <= stamp'
                OBVIOUS
            <4>1. CASE d = c
                BY <2>2, <3>1, <4>1 DEF PeopleShapes
            <4>2. CASE d # c
                <5>1. cards'[d] = cards[d] /\ cards[d] \in Cards /\ cards[d].body <= stamp
                    BY <3>1, <4>2 DEF PeopleShapes, BodiesCount, Exists, Readings
                <5>2. cards[d].body \in Nat /\ stamp \in Nat
                    BY <5>1 DEF Cards, PeopleShapes
                <5>3. QED
                    BY <3>1, <5>1, <5>2
            <4>3. QED
                BY <4>1, <4>2
        <3>4. QED
            BY <3>2, <3>3
    <2>3. QED
        BY <2>1, <2>2
<1>2. hand' \in [Tasks -> Hands]
    BY DEF PeopleShapes
<1>3. \A u \in Tasks : hand'[u].at \in {"read", "fact", "dossier"} =>
          hand'[u].note = NoCard \/ hand'[u].note.body <= stamp'
    <2> SUFFICES ASSUME NEW u \in Tasks, hand'[u].at \in {"read", "fact", "dossier"},
                        hand'[u].note # NoCard
                 PROVE  hand'[u].note.body <= stamp'
        OBVIOUS
    <2>1. hand'[u].note \in Cards /\ hand'[u].note.body \in Nat /\ stamp \in Nat
        BY <1>2, HandFields DEF Readings, Cards, PeopleShapes
    <2>2. hand'[u].note.body <= stamp
        <3>1. CASE u = t
            BY <3>1 DEF PeopleShapes
        <3>2. CASE u # t
            BY <3>2 DEF PeopleShapes, BodiesCount
        <3>3. QED
            BY <3>1, <3>2
    <2>3. QED
        BY <1>1, <2>1, <2>2
<1>4. QED
    BY <1>1, <1>2, <1>3 DEF PeopleShapes, BodiesCount, Exists

LEMMA LoadedIs == PeopleShapes => Loaded \in Indices
BY DEF PeopleShapes, Loaded

LEMMA LoadIs == PeopleShapes /\ Load => cache' \in [stamp : Nat, index : Indices]
BY LoadedIs DEF Load, PeopleShapes

LEMMA ToStoreIs ==
    ASSUME PeopleShapes, NEW row \in Rows PROVE ToStore(row) \in Metrics
<1>1. row.m \in Metrics /\ cards[row.id] \in Readings
    BY DEF Rows, PeopleShapes
<1>2. Exists(row.id) => Values(cards[row.id]) \in Metrics
    BY <1>1 DEF Exists, Readings, Values, Cards, Metrics
<1>3. QED
    BY <1>1, <1>2, OverIs DEF ToStore

LEMMA PassPeople ==
    ASSUME PeopleShapes, NEW t \in Tasks, NEW kind, NEW judged \in SUBSET Judgements,
           NEW counted \in SUBSET Accounts, BeginPass(t, kind, judged, counted)
    PROVE  PeopleShapes'
<1> DEFINE x == [at |-> "pass", todo |-> Combined(judged, counted, Loaded)]
<1>1. x \in Hands /\ x.at = "pass"
    BY LoadedIs, CombinedAre DEF Hands
<1>2. hand' = [hand EXCEPT ![t] = x] /\ UNCHANGED <<cards, stamp, manifest, of>>
    BY DEF BeginPass
<1>3. cache' \in [stamp : Nat, index : Indices]
    BY LoadIs DEF BeginPass
<1> HIDE DEF x
<1>4. manifest' \in Indices /\ of' \in [CardIds -> SUBSET Accounts]
    BY <1>2 DEF PeopleShapes
<1>5. QED
    BY <1>1, <1>2, <1>3, <1>4, ShapesKept

LEMMA RowPeople ==
    ASSUME PeopleShapes, NEW t \in Tasks, NEW row \in hand[t].todo, LoadRow(t, row)
    PROVE  PeopleShapes'
<1> DEFINE rest == hand[t].todo \ {row}
           x == [at |-> "pass", todo |-> rest]
           y == [at |-> "loaded", todo |-> rest, row |-> [row EXCEPT !.m = ToStore(row)]]
<1>1. hand[t] \in Hands /\ hand[t].at = "pass" /\ hand[t].todo \subseteq Rows
    BY HandFields DEF LoadRow, PeopleShapes
<1>2. x \in Hands /\ x.at = "pass"
    BY <1>1 DEF Hands
<1>3. y \in Hands /\ y.at = "loaded"
    <2>1. [row EXCEPT !.m = ToStore(row)] \in Rows
        BY <1>1, ToStoreIs DEF Rows
    <2>2. QED
        BY <1>1, <2>1 DEF Hands
<1>4. PICK z \in {x, y} : hand' = [hand EXCEPT ![t] = z]
    BY DEF LoadRow
<1>5. z \in Hands /\ z.at \in {"pass", "loaded"}
    <2> HIDE DEF x, y
    <2>1. QED
        BY <1>2, <1>3
<1>6. UNCHANGED <<cards, stamp, manifest, cache, of>>
    BY DEF LoadRow
<1> HIDE DEF x, y
<1>7. manifest' \in Indices /\ of' \in [CardIds -> SUBSET Accounts]
      /\ cache' \in [stamp : Nat, index : Indices]
    BY <1>6 DEF PeopleShapes
<1>8. QED
    BY <1>4, <1>5, <1>6, <1>7, ShapesKept

LEMMA CardReadPeople ==
    ASSUME PeopleShapes, NEW t \in Tasks, ReadCardOf(t) PROVE PeopleShapes'
<1> DEFINE c == Canonicalize(hand[t].row.id, hand[t].row.tid, Loaded)
           x == [at |-> "read", todo |-> hand[t].todo, row |-> hand[t].row,
                 card |-> c, note |-> cards[c]]
<1>1. /\ hand[t] \in Hands /\ hand[t].at = "loaded" /\ hand[t].todo \subseteq Rows
      /\ hand[t].row \in Rows
    BY HandFields DEF ReadCardOf, PeopleShapes
<1>2. c \in CardIds
    BY <1>1, LoadedIs, CanonicalizeIs DEF Rows
<1>3. hand' = [hand EXCEPT ![t] = x] /\ UNCHANGED <<cards, stamp, manifest, of>> /\ Load
    BY DEF ReadCardOf, PeopleShapes
<1> HIDE DEF c
<1>4. x \in Hands /\ x.note = cards[c]
    BY <1>1, <1>2 DEF Hands, PeopleShapes
<1>5. x.note = NoCard \/ x.note.body <= stamp
    BY <1>2, <1>4 DEF PeopleShapes, BodiesCount, Exists
<1> HIDE DEF x
<1>6. manifest' \in Indices /\ of' \in [CardIds -> SUBSET Accounts]
      /\ cache' \in [stamp : Nat, index : Indices]
    BY <1>3, LoadIs DEF PeopleShapes
<1>7. QED
    BY <1>3, <1>4, <1>5, <1>6, ShapesKept

LEMMA ValuesAre == \A card \in Cards : Values(card) \in Metrics
BY DEF Values, Cards, Metrics

LEMMA StoredPeople ==
    ASSUME PeopleShapes, NEW t \in Tasks, StoreSnapshot(t) PROVE PeopleShapes'
<1> DEFINE h == hand[t]
           m == IF h.note = NoCard THEN Over(Zero, h.row.m) ELSE Over(Values(h.note), h.row.m)
           new == NewCard(h.row.tid, h.row.name, m, 0)
           old == [h.note EXCEPT !.trust = m.trust, !.count = m.count]
           x == [at |-> "rebuild", then |-> "pass", todo |-> h.todo]
           y == [at |-> "pass", todo |-> h.todo]
<1>1. /\ h \in Hands /\ h.at = "read" /\ h.todo \subseteq Rows /\ h.row \in Rows
      /\ h.card \in CardIds /\ h.note \in Readings
      /\ h.note = NoCard \/ h.note.body <= stamp
    BY HandFields DEF StoreSnapshot, PeopleShapes, BodiesCount
<1>2. /\ \/ h.note = NoCard /\ Put(h.card, new) /\ hand' = [hand EXCEPT ![t] = x]
         \/ h.note # NoCard /\ Put(h.card, old) /\ hand' = [hand EXCEPT ![t] = y]
      /\ of' = [of EXCEPT ![h.card] = @ \cup h.row.of] /\ UNCHANGED <<manifest, cache>>
    BY DEF StoreSnapshot
<1> HIDE DEF h
<1>3. m \in Metrics
    <2>1. h.row.m \in Metrics /\ Zero \in Metrics
        BY <1>1 DEF Rows, Zero, Metrics, Trusts, Counts
    <2>2. QED
        BY <1>1, <2>1, OverIs, ValuesAre DEF Readings
<1> HIDE DEF m
<1>4. /\ manifest' \in Indices /\ cache' \in [stamp : Nat, index : Indices]
      /\ of' \in [CardIds -> SUBSET Accounts]
    <2>1. h.row.of \subseteq Accounts
        BY <1>1 DEF Rows
    <2>2. QED
        BY <1>1, <1>2, <2>1 DEF PeopleShapes
<1>5. x \in Hands /\ x.at = "rebuild" /\ y \in Hands /\ y.at = "pass"
    BY <1>1 DEF Hands
<1> HIDE DEF x, y
<1>6. CASE h.note = NoCard
    <2>1. new \in Cards /\ new.body <= stamp + 1
        BY <1>1, <1>3 DEF NewCard, Cards, Rows, Metrics, PeopleShapes
    <2>2. QED
        BY <1>1, <1>2, <1>4, <1>5, <1>6, <2>1, ShapesKept
<1>7. CASE h.note # NoCard
    <2>1. h.note \in Cards /\ h.note.body \in Nat /\ stamp \in Nat
        BY <1>1, <1>7 DEF Readings, Cards, PeopleShapes
    <2>2. old \in Cards /\ old.body = h.note.body
        BY <1>3, <2>1 DEF Cards, Metrics
    <2>3. old.body <= stamp + 1
        BY <1>1, <1>7, <2>1, <2>2
    <2>4. QED
        BY <1>1, <1>2, <1>4, <1>5, <1>7, <2>2, <2>3, ShapesKept
<1>8. QED
    BY <1>6, <1>7

LEMMA FreePeople ==
    ASSUME PeopleShapes, NEW t \in Tasks, NEW x \in Hands, x.at \in {"idle", "plan"},
           hand' = [hand EXCEPT ![t] = x], UNCHANGED <<cards, stamp, manifest, cache, of>>
    PROVE  PeopleShapes'
<1>1. /\ manifest' \in Indices /\ cache' \in [stamp : Nat, index : Indices]
      /\ of' \in [CardIds -> SUBSET Accounts]
    BY DEF PeopleShapes
<1>2. QED
    BY <1>1, ShapesKept

LEMMA FactReadPeople ==
    ASSUME PeopleShapes, NEW t \in Tasks, NEW fact \in hand[t].todo, ReadFact(t, fact)
    PROVE  PeopleShapes'
<1> DEFINE c == Canonicalize(fact.ref, fact.tid, Loaded)
           x == [at |-> "fact", todo |-> hand[t].todo \ {fact}, fact |-> fact,
                 card |-> c, note |-> cards[c]]
<1>1. /\ hand[t] \in Hands /\ hand[t].at = "plan" /\ hand[t].todo \subseteq Facts
    BY HandFields DEF ReadFact, PeopleShapes
<1>2. c \in CardIds
    <2>1. fact.ref \in CardIds /\ fact.tid \in Ids
        BY <1>1, PeopleAssumption DEF CardIds, Ids
    <2>2. QED
        BY <2>1, LoadedIs, CanonicalizeIs
<1>3. hand' = [hand EXCEPT ![t] = x] /\ UNCHANGED <<cards, stamp, manifest, of>> /\ Load
    BY DEF ReadFact, PeopleShapes
<1> HIDE DEF c
<1>4. x \in Hands /\ x.note = cards[c]
    BY <1>1, <1>2 DEF Hands, PeopleShapes
<1>5. x.note = NoCard \/ x.note.body <= stamp
    BY <1>2, <1>4 DEF PeopleShapes, BodiesCount, Exists
<1> HIDE DEF x
<1>6. manifest' \in Indices /\ of' \in [CardIds -> SUBSET Accounts]
      /\ cache' \in [stamp : Nat, index : Indices]
    BY <1>3, LoadIs DEF PeopleShapes
<1>7. QED
    BY <1>3, <1>4, <1>5, <1>6, ShapesKept

LEMMA FactWrittenPeople ==
    ASSUME PeopleShapes, NEW t \in Tasks, WriteFact(t) PROVE PeopleShapes'
<1> DEFINE h == hand[t]
           f == h.fact
           new == NewCard(f.tid, f.ref, None, 1)
           old == [h.note EXCEPT !.tid = IF f.tid = NoId THEN h.note.tid ELSE f.tid,
                                 !.aliases = h.note.aliases \cup {f.ref},
                                 !.body = h.note.body + 1]
           x == IF h.todo # {} THEN [at |-> "plan", todo |-> h.todo]
                ELSE [at |-> "rebuild", then |-> "idle"]
<1>1. /\ h \in Hands /\ h.at = "fact" /\ h.todo \subseteq Facts /\ f \in Facts
      /\ h.card \in CardIds /\ h.note \in Readings
      /\ h.note = NoCard \/ h.note.body <= stamp
    BY HandFields DEF WriteFact, PeopleShapes, BodiesCount
<1>2. /\ h.note = NoCard => Put(h.card, new)
      /\ h.note # NoCard => Put(h.card, old)
      /\ hand' = [hand EXCEPT ![t] = x]
      /\ of' = [of EXCEPT ![h.card] = @ \cup {f.of}] /\ UNCHANGED <<manifest, cache>>
    <2>1. h.note \in Cards => old = [h.note EXCEPT !.tid = IF f.tid = NoId THEN @ ELSE f.tid,
                                                   !.aliases = @ \cup {f.ref}, !.body = @ + 1]
        BY DEF Cards
    <2>2. QED
        BY <1>1, <2>1 DEF WriteFact, Readings
<1>3. f.tid \in Ids /\ f.ref \in Spellings /\ f.of \in Accounts
    BY <1>1, PeopleAssumption DEF Ids
<1> HIDE DEF h, f
<1>4. /\ manifest' \in Indices /\ cache' \in [stamp : Nat, index : Indices]
      /\ of' \in [CardIds -> SUBSET Accounts]
    BY <1>1, <1>2, <1>3 DEF PeopleShapes
<1>5. x \in Hands /\ x.at \in {"plan", "rebuild"}
    BY <1>1 DEF Hands
<1> HIDE DEF x
<1>6. CASE h.note = NoCard
    <2>1. new \in Cards /\ new.body = 1 /\ stamp \in Nat
        BY <1>3 DEF NewCard, None, Cards, Trusts, Counts, PeopleShapes
    <2>2. new.body <= stamp + 1
        BY <2>1
    <2> HIDE DEF new
    <2>3. QED
        BY <1>1, <1>2, <1>4, <1>5, <1>6, <2>1, <2>2, ShapesKept
<1>7. CASE h.note # NoCard
    <2>1. h.note \in Cards /\ h.note.body \in Nat /\ stamp \in Nat
        BY <1>1, <1>7 DEF Readings, Cards, PeopleShapes
    <2>2. /\ (IF f.tid = NoId THEN h.note.tid ELSE f.tid) \in Ids
          /\ h.note.aliases \cup {f.ref} \in SUBSET Spellings
          /\ h.note.body + 1 \in Nat
        BY <1>3, <2>1 DEF Cards
    <2>3. old \in Cards /\ old.body = h.note.body + 1
        BY <2>1, <2>2 DEF Cards
    <2>4. old.body <= stamp + 1
        BY <1>1, <1>7, <2>1, <2>3
    <2> HIDE DEF old
    <2>5. QED
        BY <1>1, <1>2, <1>4, <1>5, <1>7, <2>3, <2>4, ShapesKept
<1>8. QED
    BY <1>6, <1>7

LEMMA RebuiltPeople ==
    ASSUME PeopleShapes, NEW t \in Tasks, Rebuild(t) PROVE PeopleShapes'
<1> DEFINE h == hand[t]
           x == IF h.then = "idle" THEN Free ELSE [at |-> "pass", todo |-> h.todo]
<1>1. h \in Hands /\ h.at = "rebuild" /\ (h.then = "idle" \/ h.todo \subseteq Rows)
    BY HandFields DEF Rebuild, PeopleShapes
<1>2. x \in Hands /\ x.at \in {"idle", "pass"}
    BY <1>1 DEF Hands, Free
<1>3. hand' = [hand EXCEPT ![t] = x] /\ UNCHANGED <<cards, stamp, of>>
    BY DEF Rebuild
<1>4. /\ manifest' \in Indices /\ cache' \in [stamp : Nat, index : Indices]
      /\ of' \in [CardIds -> SUBSET Accounts]
    BY BuiltIndex DEF Rebuild, PeopleShapes
<1> HIDE DEF x
<1>5. QED
    BY <1>2, <1>3, <1>4, ShapesKept

LEMMA PortraitPeople ==
    ASSUME PeopleShapes, NEW t \in Tasks,
           (\E c \in CardIds : ReadDossier(t, c)) \/ WritePortrait(t)
    PROVE  PeopleShapes'
<1>1. ASSUME NEW c \in CardIds, ReadDossier(t, c) PROVE PeopleShapes'
    <2> DEFINE x == [at |-> "dossier", card |-> c, note |-> cards[c]]
    <2>1. hand' = [hand EXCEPT ![t] = x] /\ UNCHANGED <<cards, stamp, manifest, cache, of>>
        BY <1>1 DEF ReadDossier
    <2>2. cards[c] \in Cards /\ cards[c].body <= stamp
        BY <1>1 DEF ReadDossier, Exists, PeopleShapes, Readings, BodiesCount
    <2>3. x \in Hands /\ x.note = cards[c]
        BY <1>1, <2>2 DEF Hands, ReadDossier, Exists
    <2>4. /\ manifest' \in Indices /\ cache' \in [stamp : Nat, index : Indices]
          /\ of' \in [CardIds -> SUBSET Accounts]
        BY <2>1 DEF PeopleShapes
    <2> HIDE DEF x
    <2>5. QED
        BY <2>1, <2>2, <2>3, <2>4, ShapesKept
<1>2. ASSUME WritePortrait(t) PROVE PeopleShapes'
    <2> DEFINE h == hand[t]
               new == [h.note EXCEPT !.portrait = Dossier(h.note)]
    <2>1. /\ h \in Hands /\ h.at = "dossier" /\ h.card \in CardIds
          /\ h.note \in Cards \ {NoCard} /\ h.note.body <= stamp
        BY <1>2, HandFields DEF WritePortrait, PeopleShapes, BodiesCount
    <2>2. /\ Put(h.card, new) \/ UNCHANGED <<cards, stamp>>
          /\ hand' = [hand EXCEPT ![t] = Free] /\ UNCHANGED <<manifest, cache, of>>
        BY <1>2 DEF WritePortrait
    <2> HIDE DEF h
    <2>3. new \in Cards /\ new.body = h.note.body
        <3>1. Dossier(h.note) \in Dossiers
            BY <2>1 DEF Dossier, Dossiers, Cards
        <3>2. QED
            BY <2>1, <3>1 DEF Cards
    <2>4. Free \in Hands /\ Free.at = "idle"
        BY DEF Free, Hands
    <2>5. /\ manifest' \in Indices /\ cache' \in [stamp : Nat, index : Indices]
          /\ of' \in [CardIds -> SUBSET Accounts]
        BY <2>2 DEF PeopleShapes
    <2> HIDE DEF new
    <2>6. ASSUME Put(h.card, new) PROVE PeopleShapes'
        <3>1. stamp \in Nat /\ h.note.body \in Nat
            BY <2>1 DEF Cards, PeopleShapes
        <3>2. new.body <= stamp + 1
            BY <2>1, <2>3, <2>6, <3>1
        <3>3. QED
            BY <2>1, <2>2, <2>3, <2>4, <2>5, <2>6, <3>2, ShapesKept
    <2>7. QED
        BY <2>2, <2>4, <2>5, <2>6, ShapesKept
<1>3. QED
    BY <1>1, <1>2

\* Whom the planner judges in a pass.
LEMMA JudgedAre == \A f \in Facts, score \in Scores : {Judgement(f, score)} \in SUBSET Judgements
BY PeopleAssumption DEF Judgement, Judgements, Ids

LEMMA StepPeople == PeopleShapes /\ [PeopleNext]_peopleVars => PeopleShapes'
<1> SUFFICES ASSUME PeopleShapes, [PeopleNext]_peopleVars PROVE PeopleShapes'
    OBVIOUS
<1>1. CASE UNCHANGED peopleVars
    BY <1>1 DEF peopleVars, PeopleShapes, BodiesCount, Exists
<1>2. ASSUME NEW t \in Tasks, NEW kind \in Duties[t], NEW counted \in SUBSET Accounts,
             \/ BeginPass(t, kind, {}, counted)
             \/ \E f \in Facts, score \in Scores :
                    BeginPass(t, kind, {Judgement(f, score)}, counted)
      PROVE  PeopleShapes'
    BY <1>2, JudgedAre, PassPeople
<1>3. ASSUME NEW t \in Tasks, EndPass(t) PROVE PeopleShapes'
    <2>1. Free \in Hands /\ Free.at = "idle"
        BY DEF Free, Hands
    <2>2. QED
        BY <1>3, <2>1, FreePeople DEF EndPass
<1>4. ASSUME NEW t \in Tasks, NEW facts \in SUBSET Facts, BeginPlan(t, facts)
      PROVE  PeopleShapes'
    <2> DEFINE x == [at |-> "plan", todo |-> facts]
    <2>1. x \in Hands /\ x.at = "plan"
        BY DEF Hands
    <2>2. hand' = [hand EXCEPT ![t] = x] /\ UNCHANGED <<cards, stamp, manifest, cache, of>>
        BY <1>4 DEF BeginPlan
    <2> HIDE DEF x
    <2>3. QED
        BY <2>1, <2>2, FreePeople
<1>5. QED
    BY <1>1, <1>2, <1>3, <1>4, RowPeople, CardReadPeople, StoredPeople, FactReadPeople,
       FactWrittenPeople, RebuiltPeople, PortraitPeople DEF PeopleNext

\* Cards, indices and hands are well formed in every reachable state, whatever
\* words people use.
THEOREM PeopleInvariant == PeopleSpec => []PeopleShapes
BY InitPeople, StepPeople, PTL DEF PeopleSpec

LEMMA ShapesAreTypes == PeopleShapes => PeopleTypeOK
<1> SUFFICES ASSUME PeopleShapes PROVE PeopleTypeOK
    OBVIOUS
<1>1. ASSUME NEW c \in CardIds, Exists(c)
      PROVE  /\ cards[c].tid \in Accounts \cup {NoId} /\ cards[c].aliases \subseteq CardIds
             /\ cards[c].trust \in 0..100 \cup {Unknown} /\ cards[c].count \in {0, 1, Unknown}
             /\ cards[c].body \in 0..stamp
    <2>1. cards[c] \in Cards /\ cards[c].body <= stamp /\ stamp \in Nat
        BY <1>1 DEF Exists, PeopleShapes, Readings, BodiesCount
    <2>2. QED
        BY <2>1 DEF Cards, Ids, Trusts, Counts, CardIds
<1>2. \A t \in Tasks : hand[t].at \in {"idle", "pass", "loaded", "read", "plan",
                                       "fact", "dossier", "rebuild"}
    BY HandFields DEF PeopleShapes
<1>3. QED
    BY <1>1, <1>2 DEF PeopleTypeOK, PeopleShapes
-----------------------------------------------------------------------------
(* Whose everything is *)

\* One task takes something else in hand, and at most one card, of whoever it is
\* about, is written.
LEMMA TheirsKept ==
    ASSUME PeopleShapes, NEW who \in [CardIds -> Labels], EverythingIs(who),
           NEW t \in Tasks, NEW x, hand' = [hand EXCEPT ![t] = x], HandIs(who, x),
           NEW c \in CardIds,
           \/ UNCHANGED cards
           \/ \E card : cards' = [cards EXCEPT ![c] = card] /\ CardIs(who, card, who[c]),
           \A d \in CardIds : \A a \in of'[d] : who[a] = who[d],
           IndexIs(who, manifest'), IndexIs(who, cache'.index)
    PROVE  EverythingIs(who)'
<1>1. \A d \in CardIds : ReadingIs(who, cards'[d], d)
    <2> SUFFICES ASSUME NEW d \in CardIds PROVE ReadingIs(who, cards'[d], d)
        OBVIOUS
    <2>1. CASE cards'[d] = cards[d]
        BY <2>1 DEF EverythingIs
    <2>2. CASE cards'[d] # cards[d]
        <3>1. d = c /\ CardIs(who, cards'[c], who[c])
            BY <2>2 DEF PeopleShapes
        <3>2. QED
            BY <3>1 DEF ReadingIs
    <2>3. QED
        BY <2>1, <2>2
<1>2. \A u \in Tasks : HandIs(who, hand'[u])
    BY DEF PeopleShapes, EverythingIs
<1>3. QED
    BY <1>1, <1>2 DEF EverythingIs

LEMMA InitTheirs ==
    ASSUME PeopleInit, NEW who \in [CardIds -> Labels] PROVE EverythingIs(who)
<1>1. IndexIs(who, EmptyIndex)
    BY DEF IndexIs, EmptyIndex
<1>2. \A t \in Tasks : hand[t].at = "idle"
    BY DEF PeopleInit, Free
<1>3. \A t \in Tasks : HandIs(who, hand[t])
    BY <1>2 DEF HandIs
<1>4. \A c \in CardIds : of[c] = {} /\ cards[c] = NoCard
    BY DEF PeopleInit
<1>5. QED
    BY <1>1, <1>3, <1>4 DEF EverythingIs, PeopleInit, ReadingIs

LEMMA LoadedIsTheirs ==
    ASSUME PeopleShapes, NEW who \in [CardIds -> Labels], EverythingIs(who)
    PROVE  IndexIs(who, Loaded) /\ (Load => IndexIs(who, cache'.index))
BY DEF Loaded, Load, EverythingIs

\* Nothing is written: the task only takes something else in hand.
LEMMA TheirsInHand ==
    ASSUME PeopleShapes, NEW who \in [CardIds -> Labels], EverythingIs(who),
           NEW t \in Tasks, NEW x, hand' = [hand EXCEPT ![t] = x], HandIs(who, x),
           UNCHANGED <<cards, of, manifest>>, UNCHANGED cache \/ Load
    PROVE  EverythingIs(who)'
<1>1. IndexIs(who, manifest') /\ IndexIs(who, cache'.index)
    BY LoadedIsTheirs DEF EverythingIs
<1>2. \A d \in CardIds : ReadingIs(who, cards'[d], d) /\ \A a \in of'[d] : who[a] = who[d]
    BY DEF EverythingIs
<1>3. \A u \in Tasks : HandIs(who, hand'[u])
    BY DEF EverythingIs, PeopleShapes
<1>4. QED
    BY <1>1, <1>2, <1>3 DEF EverythingIs

LEMMA PassTheirs ==
    ASSUME PeopleShapes, NEW who \in [CardIds -> Labels], WordsAreOf(who), EverythingIs(who),
           NEW t \in Tasks, NEW kind, NEW counted \in SUBSET Accounts,
           NEW judged \in SUBSET Judgements,
           \A j \in judged : who[j.ref] = who[j.of] /\ j.tid \in {j.of, NoId},
           BeginPass(t, kind, judged, counted)
    PROVE  EverythingIs(who)'
<1> DEFINE x == [at |-> "pass", todo |-> Combined(judged, counted, Loaded)]
<1>1. \A row \in Combined(judged, counted, Loaded) : RowIs(who, row)
    BY LoadedIs, LoadedIsTheirs, CombinedAre
<1>2. HandIs(who, x)
    BY <1>1 DEF HandIs
<1>3. hand' = [hand EXCEPT ![t] = x] /\ UNCHANGED <<cards, of, manifest>> /\ Load
    BY DEF BeginPass
<1> HIDE DEF x
<1>4. QED
    BY <1>2, <1>3, TheirsInHand

LEMMA RowTheirs ==
    ASSUME PeopleShapes, NEW who \in [CardIds -> Labels], EverythingIs(who),
           NEW t \in Tasks, NEW row \in hand[t].todo, LoadRow(t, row)
    PROVE  EverythingIs(who)'
<1> DEFINE rest == hand[t].todo \ {row}
           put == [row EXCEPT !.m = ToStore(row)]
           x == [at |-> "pass", todo |-> rest]
           y == [at |-> "loaded", todo |-> rest, row |-> put]
<1>1. /\ hand[t] \in Hands /\ hand[t].at = "pass" /\ hand[t].todo \subseteq Rows
      /\ \A r \in hand[t].todo : RowIs(who, r)
    BY HandFields DEF LoadRow, PeopleShapes, EverythingIs, HandIs
<1>2. row \in Rows /\ row.id \in CardIds /\ row.m \in Metrics /\ RowIs(who, row)
    BY <1>1 DEF Rows
<1>3. Earned(who, ToStore(row).trust, who[row.id])
    <2>1. CASE Exists(row.id)
        <3>1. cards[row.id] \in Cards /\ Earned(who, cards[row.id].trust, who[row.id])
            BY <1>2, <2>1 DEF PeopleShapes, Readings, EverythingIs, ReadingIs, CardIs, Exists
        <3>2. ToStore(row).trust \in {cards[row.id].trust, row.m.trust}
            BY <1>2, <2>1, <3>1, ValuesAre, OverIs DEF ToStore, Values
        <3>3. QED
            BY <1>2, <3>1, <3>2 DEF RowIs
    <2>2. CASE ~Exists(row.id)
        BY <1>2, <2>2 DEF ToStore, RowIs
    <2>3. QED
        BY <2>1, <2>2
<1>4. /\ put.id = row.id /\ put.tid = row.tid /\ put.name = row.name /\ put.of = row.of
      /\ put.m = ToStore(row)
    BY <1>2 DEF Rows
<1> HIDE DEF put
<1>5. RowIs(who, put)
    BY <1>2, <1>3, <1>4 DEF RowIs
<1>6. HandIs(who, x)
    BY <1>1 DEF HandIs
<1>7. HandIs(who, y)
    BY <1>1, <1>5 DEF HandIs
<1>8. PICK z \in {x, y} : hand' = [hand EXCEPT ![t] = z]
    BY DEF LoadRow, put
<1> HIDE DEF x, y
<1>9. UNCHANGED <<cards, of, manifest, cache>>
    BY DEF LoadRow
<1>10. HandIs(who, z)
    BY <1>6, <1>7
<1>11. QED
    BY <1>8, <1>9, <1>10, TheirsInHand

LEMMA CardReadTheirs ==
    ASSUME PeopleShapes, NEW who \in [CardIds -> Labels], WordsAreOf(who), EverythingIs(who),
           NEW t \in Tasks, ReadCardOf(t)
    PROVE  EverythingIs(who)'
<1> DEFINE h == hand[t]
           c == Canonicalize(h.row.id, h.row.tid, Loaded)
           x == [at |-> "read", todo |-> h.todo, row |-> h.row, card |-> c, note |-> cards[c]]
<1>1. /\ h \in Hands /\ h.at = "loaded" /\ h.row \in Rows
      /\ RowIs(who, h.row) /\ \A row \in h.todo : RowIs(who, row)
    BY HandFields DEF ReadCardOf, PeopleShapes, EverythingIs, HandIs
<1>2. hand' = [hand EXCEPT ![t] = x] /\ UNCHANGED <<cards, of, manifest>> /\ Load
    BY DEF ReadCardOf, PeopleShapes
<1> HIDE DEF h
<1>3. h.row.id \in CardIds /\ h.row.tid \in Ids
      /\ (h.row.tid # NoId => who[h.row.tid] = who[h.row.id])
    BY <1>1 DEF Rows, RowIs
<1>4. c \in CardIds /\ who[c] = who[h.row.id]
    BY <1>3, LoadedIs, LoadedIsTheirs, CanonicalizeIs, CanonicalizeIsTheirs
<1> HIDE DEF c
<1>5. HandIs(who, x)
    BY <1>1, <1>4 DEF HandIs, EverythingIs
<1> HIDE DEF x
<1>6. QED
    BY <1>2, <1>5, TheirsInHand

LEMMA StoredTheirs ==
    ASSUME PeopleShapes, NEW who \in [CardIds -> Labels], EverythingIs(who),
           NEW t \in Tasks, StoreSnapshot(t)
    PROVE  EverythingIs(who)'
<1> DEFINE h == hand[t]
           p == who[h.card]
           m == IF h.note = NoCard THEN Over(Zero, h.row.m) ELSE Over(Values(h.note), h.row.m)
           new == NewCard(h.row.tid, h.row.name, m, 0)
           old == [h.note EXCEPT !.trust = m.trust, !.count = m.count]
           x == [at |-> "rebuild", then |-> "pass", todo |-> h.todo]
           y == [at |-> "pass", todo |-> h.todo]
<1>1. /\ h \in Hands /\ h.at = "read" /\ h.row \in Rows /\ h.card \in CardIds
      /\ h.note \in Readings /\ ReadingIs(who, h.note, h.card)
      /\ RowIs(who, h.row) /\ \A row \in h.todo : RowIs(who, row)
      /\ p = who[h.row.id]
    BY HandFields DEF StoreSnapshot, PeopleShapes, EverythingIs, HandIs
<1>2. /\ \/ h.note = NoCard /\ Put(h.card, new) /\ hand' = [hand EXCEPT ![t] = x]
         \/ h.note # NoCard /\ Put(h.card, old) /\ hand' = [hand EXCEPT ![t] = y]
      /\ of' = [of EXCEPT ![h.card] = @ \cup h.row.of] /\ UNCHANGED <<manifest, cache>>
    BY DEF StoreSnapshot
<1> HIDE DEF h
<1>3. m \in Metrics /\ Earned(who, m.trust, p)
    <2>1. h.row.m \in Metrics /\ Zero \in Metrics /\ Zero.trust = 0 /\ Earned(who, h.row.m.trust, p)
        BY <1>1 DEF Rows, Zero, Metrics, Trusts, Counts, RowIs
    <2>2. CASE h.note = NoCard
        <3>1. m.trust \in {0, h.row.m.trust} /\ m \in Metrics
            BY <2>1, <2>2, OverIs
        <3>2. QED
            BY <2>1, <3>1 DEF Earned
    <2>3. CASE h.note # NoCard
        <3>1. h.note \in Cards /\ Earned(who, h.note.trust, p)
            BY <1>1, <2>3 DEF Readings, ReadingIs, CardIs
        <3>2. m.trust \in {h.note.trust, h.row.m.trust} /\ m \in Metrics
            BY <2>1, <2>3, <3>1, OverIs, ValuesAre DEF Values
        <3>3. QED
            BY <2>1, <3>1, <3>2
    <2>4. QED
        BY <2>2, <2>3
<1> HIDE DEF m
<1>4. \A d \in CardIds : \A a \in of'[d] : who[a] = who[d]
    BY <1>1, <1>2 DEF PeopleShapes, EverythingIs, RowIs
<1>5. HandIs(who, x) /\ HandIs(who, y)
    BY <1>1 DEF HandIs
<1>6. IndexIs(who, manifest') /\ IndexIs(who, cache'.index)
    BY <1>2 DEF EverythingIs
<1>7. CardIs(who, new, p)
    BY <1>1, <1>3 DEF CardIs, NewCard, RowIs
<1>8. h.note # NoCard => CardIs(who, old, p)
    <2> SUFFICES ASSUME h.note # NoCard PROVE CardIs(who, old, p)
        OBVIOUS
    <2>1. h.note \in Cards /\ CardIs(who, h.note, p)
        BY <1>1 DEF Readings, ReadingIs
    <2>2. old.tid = h.note.tid /\ old.aliases = h.note.aliases /\ old.trust = m.trust
        BY <2>1 DEF Cards
    <2>3. QED
        BY <1>3, <2>1, <2>2 DEF CardIs
<1> HIDE DEF x, y, new, old
<1>9. \/ hand' = [hand EXCEPT ![t] = x] /\ cards' = [cards EXCEPT ![h.card] = new]
      \/ hand' = [hand EXCEPT ![t] = y] /\ cards' = [cards EXCEPT ![h.card] = old] /\ h.note # NoCard
    BY <1>2 DEF Put
<1>10. p = who[h.card]
    OBVIOUS
<1>11. CASE hand' = [hand EXCEPT ![t] = x] /\ cards' = [cards EXCEPT ![h.card] = new]
    <2>1. \E card : cards' = [cards EXCEPT ![h.card] = card] /\ CardIs(who, card, who[h.card])
        BY <1>7, <1>10, <1>11
    <2>2. QED
        BY <1>1, <1>2, <1>4, <1>5, <1>6, <1>10, <1>11, <2>1, TheirsKept
<1>12. CASE hand' = [hand EXCEPT ![t] = y] /\ cards' = [cards EXCEPT ![h.card] = old] /\ h.note # NoCard
    <2>1. \E card : cards' = [cards EXCEPT ![h.card] = card] /\ CardIs(who, card, who[h.card])
        BY <1>8, <1>10, <1>12
    <2>2. QED
        BY <1>1, <1>2, <1>4, <1>5, <1>6, <1>10, <1>12, <2>1, TheirsKept
<1>13. QED
    BY <1>9, <1>11, <1>12

LEMMA FactReadTheirs ==
    ASSUME PeopleShapes, NEW who \in [CardIds -> Labels], WordsAreOf(who), EverythingIs(who),
           NEW t \in Tasks, NEW fact \in hand[t].todo, ReadFact(t, fact)
    PROVE  EverythingIs(who)'
<1> DEFINE c == Canonicalize(fact.ref, fact.tid, Loaded)
           x == [at |-> "fact", todo |-> hand[t].todo \ {fact}, fact |-> fact,
                 card |-> c, note |-> cards[c]]
<1>1. hand[t] \in Hands /\ hand[t].at = "plan" /\ fact \in Facts
    BY HandFields DEF ReadFact, PeopleShapes
<1>2. /\ fact.ref \in CardIds /\ fact.tid \in Ids /\ who[fact.ref] = who[fact.of]
      /\ (fact.tid # NoId => who[fact.tid] = who[fact.ref])
    BY <1>1, PeopleAssumption DEF CardIds, Ids, WordsAreOf
<1>3. c \in CardIds /\ who[c] = who[fact.of]
    BY <1>2, LoadedIs, LoadedIsTheirs, CanonicalizeIs, CanonicalizeIsTheirs
<1>4. hand' = [hand EXCEPT ![t] = x] /\ UNCHANGED <<cards, of, manifest>> /\ Load
    BY DEF ReadFact, PeopleShapes
<1> HIDE DEF c
<1>5. HandIs(who, x)
    BY <1>3 DEF HandIs, EverythingIs
<1> HIDE DEF x
<1>6. QED
    BY <1>4, <1>5, TheirsInHand

LEMMA FactWrittenTheirs ==
    ASSUME PeopleShapes, NEW who \in [CardIds -> Labels], WordsAreOf(who), EverythingIs(who),
           NEW t \in Tasks, WriteFact(t)
    PROVE  EverythingIs(who)'
<1> DEFINE h == hand[t]
           f == h.fact
           p == who[h.card]
           new == NewCard(f.tid, f.ref, None, 1)
           old == [h.note EXCEPT !.tid = IF f.tid = NoId THEN @ ELSE f.tid,
                                 !.aliases = @ \cup {f.ref}, !.body = @ + 1]
           x == IF h.todo # {} THEN [at |-> "plan", todo |-> h.todo]
                ELSE [at |-> "rebuild", then |-> "idle"]
           put == IF h.note = NoCard THEN new ELSE old
<1>1. /\ h \in Hands /\ h.at = "fact" /\ f \in Facts /\ h.card \in CardIds
      /\ h.note \in Readings /\ ReadingIs(who, h.note, h.card) /\ p = who[f.of]
    BY HandFields DEF WriteFact, PeopleShapes, EverythingIs, HandIs
<1>2. /\ Put(h.card, put) /\ hand' = [hand EXCEPT ![t] = x]
      /\ of' = [of EXCEPT ![h.card] = @ \cup {f.of}] /\ UNCHANGED <<manifest, cache>>
    BY DEF WriteFact
<1>3. (f.tid # NoId => who[f.tid] = p) /\ who[f.ref] = p
    BY <1>1, PeopleAssumption DEF WordsAreOf
<1> HIDE DEF h, f, p
<1>4. CardIs(who, new, p)
    BY <1>3 DEF CardIs, NewCard, None, Earned
<1>5. ASSUME h.note # NoCard PROVE CardIs(who, old, p)
    <2>1. h.note \in Cards /\ CardIs(who, h.note, p)
        BY <1>1, <1>5 DEF Readings, ReadingIs, p
    <2>2. /\ old.tid \in {h.note.tid, f.tid} /\ old.aliases = h.note.aliases \cup {f.ref}
          /\ old.trust = h.note.trust
        BY <2>1 DEF Cards
    <2> HIDE DEF old
    <2>3. QED
        BY <1>3, <2>1, <2>2 DEF CardIs
<1> HIDE DEF new, old
<1>6. CardIs(who, put, p)
    BY <1>4, <1>5
<1>7. \A d \in CardIds : \A a \in of'[d] : who[a] = who[d]
    BY <1>1, <1>2 DEF PeopleShapes, EverythingIs, p
<1>8. HandIs(who, x)
    BY DEF HandIs
<1>9. IndexIs(who, manifest') /\ IndexIs(who, cache'.index)
    BY <1>2 DEF EverythingIs
<1> HIDE DEF x, put
<1>10. cards' = [cards EXCEPT ![h.card] = put]
    BY <1>2 DEF Put
<1>11. QED
    BY <1>1, <1>2, <1>6, <1>7, <1>8, <1>9, <1>10, TheirsKept DEF p

LEMMA RebuiltTheirs ==
    ASSUME PeopleShapes, NEW who \in [CardIds -> Labels], EverythingIs(who),
           NEW t \in Tasks, Rebuild(t)
    PROVE  EverythingIs(who)'
<1> DEFINE h == hand[t]
           x == IF h.then = "idle" THEN Free ELSE [at |-> "pass", todo |-> h.todo]
           built == BuildPeopleIndex
<1>1. /\ h \in Hands /\ h.at = "rebuild"
      /\ h.then = "idle" \/ (h.then = "pass" /\ \A row \in h.todo : RowIs(who, row))
    BY HandFields DEF Rebuild, PeopleShapes, EverythingIs, HandIs
<1>2. HandIs(who, x)
    BY <1>1 DEF HandIs, Free
<1>3. /\ hand' = [hand EXCEPT ![t] = x] /\ UNCHANGED <<cards, of>>
      /\ manifest' = built /\ cache'.index = built
    BY DEF Rebuild
<1>4. IndexIs(who, built)
    <2>1. \A c \in CardIds : Exists(c) => cards[c] \in Cards /\ CardIs(who, cards[c], who[c])
        BY DEF Exists, PeopleShapes, Readings, EverythingIs, ReadingIs
    <2>2. /\ built \in Indices
          /\ \A a \in Accounts : built.tid[a] # NoCard =>
                 Exists(built.tid[a]) /\ cards[built.tid[a]].tid = a
          /\ \A w \in CardIds : built.alias[w] # NoCard =>
                 Exists(built.alias[w]) /\ w \in cards[built.alias[w]].aliases
        BY BuiltIndex DEF PeopleShapes
    <2> HIDE DEF built
    <2>3. /\ \A a \in Accounts : built.tid[a] # NoCard => built.tid[a] \in CardIds
          /\ \A w \in CardIds : built.alias[w] # NoCard => built.alias[w] \in CardIds
        BY <2>2 DEF Indices
    <2>4. \A a \in Accounts : built.tid[a] # NoCard => who[built.tid[a]] = who[a]
        BY <2>1, <2>2, <2>3, PeopleAssumption DEF CardIs
    <2>5. \A w \in CardIds : built.alias[w] # NoCard =>
              w \in Spellings /\ who[built.alias[w]] = who[w]
        BY <2>1, <2>2, <2>3 DEF CardIs, Cards
    <2>6. QED
        BY <2>4, <2>5 DEF IndexIs
<1> HIDE DEF x, built
<1>5. \A d \in CardIds : ReadingIs(who, cards'[d], d) /\ \A a \in of'[d] : who[a] = who[d]
    BY <1>3 DEF EverythingIs
<1>6. \A u \in Tasks : HandIs(who, hand'[u])
    BY <1>2, <1>3 DEF EverythingIs, PeopleShapes
<1>7. QED
    BY <1>3, <1>4, <1>5, <1>6 DEF EverythingIs

LEMMA PortraitTheirs ==
    ASSUME PeopleShapes, NEW who \in [CardIds -> Labels], EverythingIs(who), NEW t \in Tasks,
           (\E c \in CardIds : ReadDossier(t, c)) \/ WritePortrait(t)
    PROVE  EverythingIs(who)'
<1>1. IndexIs(who, manifest') /\ IndexIs(who, cache'.index)
    BY DEF ReadDossier, WritePortrait, EverythingIs
<1>2. ASSUME NEW c \in CardIds, ReadDossier(t, c) PROVE EverythingIs(who)'
    <2> DEFINE x == [at |-> "dossier", card |-> c, note |-> cards[c]]
    <2>1. hand' = [hand EXCEPT ![t] = x] /\ UNCHANGED <<cards, of>>
        BY <1>2 DEF ReadDossier
    <2>2. HandIs(who, x) /\ x.card = c
        BY DEF HandIs, EverythingIs
    <2>3. \A d \in CardIds : \A a \in of'[d] : who[a] = who[d]
        BY <2>1 DEF EverythingIs
    <2> HIDE DEF x
    <2>4. QED
        BY <1>1, <2>1, <2>2, <2>3, TheirsKept
<1>3. ASSUME WritePortrait(t) PROVE EverythingIs(who)'
    <2> DEFINE h == hand[t]
               new == [h.note EXCEPT !.portrait = Dossier(h.note)]
    <2>1. /\ h \in Hands /\ h.at = "dossier" /\ h.card \in CardIds /\ h.note \in Cards
          /\ h.note # NoCard /\ ReadingIs(who, h.note, h.card)
        BY <1>3, HandFields DEF WritePortrait, PeopleShapes, EverythingIs, HandIs
    <2>2. /\ cards' = [cards EXCEPT ![h.card] = new] \/ UNCHANGED cards
          /\ hand' = [hand EXCEPT ![t] = Free] /\ \A d \in CardIds : \A a \in of'[d] : who[a] = who[d]
        BY <1>3 DEF WritePortrait, Put, EverythingIs
    <2> HIDE DEF h
    <2>3. new.tid = h.note.tid /\ new.aliases = h.note.aliases /\ new.trust = h.note.trust
        BY <2>1 DEF Cards
    <2> HIDE DEF new
    <2>4. CardIs(who, new, who[h.card])
        BY <2>1, <2>3 DEF CardIs, ReadingIs
    <2>5. HandIs(who, Free)
        BY DEF HandIs, Free
    <2>6. QED
        BY <1>1, <2>1, <2>2, <2>4, <2>5, TheirsKept
<1>4. QED
    BY <1>2, <1>3

LEMMA StepTheirs ==
    ASSUME NEW who \in [CardIds -> Labels], WordsAreOf(who), PeopleShapes, EverythingIs(who),
           [PeopleNext]_peopleVars
    PROVE  EverythingIs(who)'
<1>1. CASE UNCHANGED peopleVars
    BY <1>1 DEF peopleVars, EverythingIs, Exists
<1>2. ASSUME NEW t \in Tasks, NEW kind \in Duties[t], NEW counted \in SUBSET Accounts,
             NEW judged, BeginPass(t, kind, judged, counted),
             judged = {} \/ \E f \in Facts, score \in Scores : judged = {Judgement(f, score)}
      PROVE  EverythingIs(who)'
    <2>1. judged \in SUBSET Judgements
        BY <1>2, JudgedAre
    <2>2. \A j \in judged : who[j.ref] = who[j.of] /\ j.tid \in {j.of, NoId}
        BY <1>2, PeopleAssumption DEF Judgement, WordsAreOf
    <2>3. QED
        BY <1>2, <2>1, <2>2, PassTheirs
<1>3. ASSUME NEW t \in Tasks, EndPass(t) PROVE EverythingIs(who)'
    <2>1. HandIs(who, Free)
        BY DEF HandIs, Free
    <2>2. QED
        BY <1>3, <2>1, TheirsInHand DEF EndPass
<1>4. ASSUME NEW t \in Tasks, NEW facts, BeginPlan(t, facts) PROVE EverythingIs(who)'
    <2> DEFINE x == [at |-> "plan", todo |-> facts]
    <2>1. HandIs(who, x)
        BY DEF HandIs
    <2>2. hand' = [hand EXCEPT ![t] = x] /\ UNCHANGED <<cards, of, manifest, cache>>
        BY <1>4 DEF BeginPlan
    <2> HIDE DEF x
    <2>3. QED
        BY <2>1, <2>2, TheirsInHand
<1>5. QED
    BY <1>1, <1>2, <1>3, <1>4, RowTheirs, CardReadTheirs, StoredTheirs, FactReadTheirs,
       FactWrittenTheirs, RebuiltTheirs, PortraitTheirs DEF PeopleNext

\* Words that pass for one another may mix the cards of their people, and mix no
\* further: an index, however old, gives for an account a card that tells of nobody
\* out of a circle of theirs, and where no owner is, trust is a score.
THEOREM CardsAreOfCircles == PeopleSpec => []CardsStayInCircles
<1>1. ASSUME NEW G \in Circles
      PROVE  PeopleSpec => [](AttitudeStaysIn(G) /\ GuestsAreJudged(G))
    <2> DEFINE who == [v \in CardIds |-> IF v \in G THEN 1 ELSE 0]
    <2>1. /\ who \in [CardIds -> Labels] /\ G \subseteq CardIds
          /\ \A v \in CardIds : v \in G <=> who[v] = 1
          /\ \A v \in CardIds : who[v] = 1 \/ who[v] = 0
        BY DEF Labels, Circles
    <2> HIDE DEF who
    <2>2. WordsAreOf(who)
        <3>1. \A v, w \in CardIds : (v \in G <=> w \in G) => who[v] = who[w]
            BY <2>1
        <3>2. /\ \A a \in Accounts : a \in CardIds /\ NameOf[a] \in CardIds
              /\ \A f \in Facts : f.ref \in CardIds /\ f.of \in CardIds
              /\ Spellings \subseteq CardIds
            BY PeopleAssumption DEF CardIds
        <3>3. QED
            BY <3>1, <3>2 DEF WordsAreOf, Circles, IsCircle
    <2>3. PeopleInit => EverythingIs(who)
        BY <2>1, InitTheirs
    <2>4. PeopleShapes /\ EverythingIs(who) /\ [PeopleNext]_peopleVars => EverythingIs(who)'
        BY <2>1, <2>2, StepTheirs
    <2>5. PeopleShapes /\ EverythingIs(who) => AttitudeStaysIn(G) /\ GuestsAreJudged(G)
        <3> SUFFICES ASSUME PeopleShapes, EverythingIs(who)
                     PROVE  AttitudeStaysIn(G) /\ GuestsAreJudged(G)
            OBVIOUS
        <3>1. AttitudeStaysIn(G)
            <4> SUFFICES ASSUME NEW index \in {manifest, cache.index}, NEW a \in Accounts \cap G,
                                index.tid[a] # NoCard
                         PROVE  of[index.tid[a]] \subseteq G
                BY DEF AttitudeStaysIn
            <4>1. index \in Indices /\ IndexIs(who, index)
                BY DEF PeopleShapes, EverythingIs
            <4>2. index.tid[a] \in CardIds /\ who[index.tid[a]] = who[a] /\ who[a] = 1
                BY <2>1, <4>1 DEF Indices, IndexIs, CardIds
            <4>3. of[index.tid[a]] \subseteq CardIds
                BY <4>2 DEF PeopleShapes, CardIds
            <4>4. QED
                BY <2>1, <4>2, <4>3 DEF EverythingIs
        <3>2. GuestsAreJudged(G)
            <4> SUFFICES ASSUME NEW c \in G, Exists(c), G \cap Owners = {}
                         PROVE  cards[c].trust \in Scores \cup {0, Unknown}
                BY DEF GuestsAreJudged
            <4>1. c \in CardIds /\ who[c] = 1 /\ Earned(who, cards[c].trust, who[c])
                BY <2>1 DEF EverythingIs, ReadingIs, CardIs, Exists
            <4>2. \A o \in Owners : who[o] # 1
                BY <2>1, PeopleAssumption DEF CardIds
            <4>3. QED
                BY <4>1, <4>2 DEF Earned
        <3>3. QED
            BY <3>1, <3>2
    <2>6. QED
        BY <2>3, <2>4, <2>5, PeopleInvariant, PTL DEF PeopleSpec
<1>2. QED
    BY <1>1 DEF CardsStayInCircles

\* A task that knows its card as it is only adds to it.
LEMMA WriteAdds ==
    ASSUME PeopleShapes, NEW t \in Tasks, NEW c \in CardIds,
           StoreSnapshot(t) \/ WriteFact(t) \/ WritePortrait(t),
           hand[t].card = c, hand[t].note = cards[c], Exists(c)
    PROVE  LET old == cards[c]
               new == cards'[c]
           IN  /\ old.trust # Unknown => new.trust # Unknown
               /\ old.count # Unknown => new.count # Unknown
               /\ old.aliases \subseteq new.aliases /\ old.body <= new.body
               /\ old.tid # NoId => new.tid # NoId
               /\ new.tid = old.tid \/ (WriteFact(t) /\ new.tid = hand[t].fact.tid)
<1> DEFINE h == hand[t]
           card == cards[c]
<1>1. /\ h \in Hands /\ card \in Cards /\ h.note = card /\ h.note # NoCard /\ h.card = c
      /\ card.body \in Nat
    BY DEF PeopleShapes, Readings, Exists, Cards
<1>2. cards \in [CardIds -> Readings]
    BY DEF PeopleShapes
<1>3. ASSUME StoreSnapshot(t)
      PROVE  /\ card.trust # Unknown => cards'[c].trust # Unknown
             /\ card.count # Unknown => cards'[c].count # Unknown
             /\ card.aliases \subseteq cards'[c].aliases /\ card.body <= cards'[c].body
             /\ cards'[c].tid = card.tid
    <2> DEFINE m == Over(Values(card), h.row.m)
    <2>1. h.row.m \in Metrics /\ Values(card) \in Metrics
        BY <1>1, <1>3, HandFields, ValuesAre DEF StoreSnapshot, Rows
    <2>2. /\ card.trust # Unknown => m.trust # Unknown
          /\ card.count # Unknown => m.count # Unknown
        BY <2>1, OverIs DEF Values
    <2>3. cards' = [cards EXCEPT ![c] = [card EXCEPT !.trust = m.trust, !.count = m.count]]
        BY <1>1, <1>3 DEF StoreSnapshot, Put
    <2> HIDE DEF m, card
    <2>4. cards'[c] = [card EXCEPT !.trust = m.trust, !.count = m.count]
        BY <1>2, <2>3
    <2>5. QED
        BY <1>1, <2>2, <2>4 DEF Cards
<1>4. ASSUME WriteFact(t)
      PROVE  /\ cards'[c].trust = card.trust /\ cards'[c].count = card.count
             /\ card.aliases \subseteq cards'[c].aliases /\ card.body <= cards'[c].body
             /\ card.tid # NoId => cards'[c].tid # NoId
             /\ cards'[c].tid = card.tid \/ cards'[c].tid = h.fact.tid
    <2> DEFINE f == h.fact
               new == [card EXCEPT !.tid = IF f.tid = NoId THEN @ ELSE f.tid,
                                   !.aliases = @ \cup {f.ref}, !.body = @ + 1]
    <2>3. cards' = [cards EXCEPT ![c] = new]
        BY <1>1, <1>4 DEF WriteFact, Put
    <2> HIDE DEF f, card
    <2>4. cards'[c] = new
        BY <1>2, <2>3
    <2>5. /\ new.trust = card.trust /\ new.count = card.count
          /\ new.aliases = card.aliases \cup {f.ref} /\ new.body = card.body + 1
          /\ new.tid = IF f.tid = NoId THEN card.tid ELSE f.tid
        BY <1>1 DEF Cards
    <2> HIDE DEF new
    <2>6. QED
        BY <1>1, <2>4, <2>5 DEF f
<1>5. ASSUME WritePortrait(t)
      PROVE  /\ cards'[c].trust = card.trust /\ cards'[c].count = card.count
             /\ card.aliases = cards'[c].aliases /\ card.body = cards'[c].body
             /\ cards'[c].tid = card.tid
    <2>1. \/ cards' = [cards EXCEPT ![c] = [card EXCEPT !.portrait = Dossier(card)]]
          \/ UNCHANGED cards
        BY <1>1, <1>5 DEF WritePortrait, Put
    <2> HIDE DEF card
    <2>2. CASE UNCHANGED cards
        BY <2>2 DEF card
    <2>3. CASE cards' = [cards EXCEPT ![c] = [card EXCEPT !.portrait = Dossier(card)]]
        <3>1. cards'[c] = [card EXCEPT !.portrait = Dossier(card)]
            BY <1>2, <2>3
        <3>2. QED
            BY <1>1, <3>1 DEF Cards
    <2>4. QED
        BY <2>1, <2>2, <2>3
<1>6. QED
    BY <1>1, <1>3, <1>4, <1>5

\* Whatever words people use, a write of a task whose reading is up to date drops
\* nothing that is on the card, but that a plan may put its id there.
THEOREM CardsOnlyGrow == PeopleSpec => WritesOnlyAdd
<1> DEFINE Added ==
        \A t \in Tasks, c \in CardIds :
          (StoreSnapshot(t) \/ WriteFact(t) \/ WritePortrait(t))
          /\ hand[t].card = c /\ hand[t].note = cards[c] /\ Exists(c) =>
              LET old == cards[c]
                  new == cards'[c]
              IN  /\ old.trust # Unknown => new.trust # Unknown
                  /\ old.count # Unknown => new.count # Unknown
                  /\ old.aliases \subseteq new.aliases /\ old.body <= new.body
                  /\ old.tid # NoId => new.tid # NoId
                  /\ new.tid = old.tid \/ (WriteFact(t) /\ new.tid = hand[t].fact.tid)
<1>1. PeopleShapes /\ [PeopleNext]_peopleVars => [Added]_peopleVars
    BY WriteAdds
<1>2. WritesOnlyAdd <=> [][Added]_peopleVars
    BY DEF WritesOnlyAdd
<1> HIDE DEF Added
<1>3. QED
    BY <1>1, <1>2, PeopleInvariant, PTL DEF PeopleSpec
===============================================================================
