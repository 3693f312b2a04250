------------------------------- MODULE People -------------------------------
(* The cards of the people in the vault: whom a word or an account stands  *)
(* for (knowledge/people, knowledge/index), the attitude to them           *)
(* (knowledge/metrics) and their portraits (knowledge/portraits).  Tasks   *)
(* of the worker read a card, wait, and write it whole: the lock of the    *)
(* vault is held for one read or write at a time.  The worker never fills  *)
(* its cache of nicknames, so that the roster is empty there.              *)
EXTENDS Integers, FiniteSets

CONSTANTS
    Accounts,   \* Telegram ids; also the words "user-<id>"
    Spellings,  \* what people are called
    NameOf,     \* the display name of each account
    Facts,      \* what planners may say: of whom, by which word, with which id
    Alike,      \* pairs of words that pass for one identity
    PathOrder,  \* the rank of each card's path
    Owners,     \* accounts under the handicap
    Floor,      \* the trust it guarantees
    Scores,     \* what the planner may give
    Duties,      \* what each task of the worker may do
    MaxRounds,  \* bound: rounds of each task
    MaxCounted, \* bound: senders that one sweep counts
    MaxFacts,   \* bound: updates of one memory plan
    NoId, NoCard, Unknown

Tasks == DOMAIN Duties
CardIds == Spellings \cup Accounts

ASSUME PeopleAssumption ==
    /\ NameOf \in [Accounts -> Spellings]
    /\ Facts \subseteq [of : Accounts, ref : Spellings, tid : Accounts \cup {NoId}]
    /\ \A f \in Facts : f.tid \in {f.of, NoId}
    /\ NoId \notin Accounts /\ Owners \subseteq Accounts
    /\ Floor \in 1..100 /\ Scores \subseteq 0..100
    /\ IsFiniteSet(CardIds) /\ PathOrder \in [CardIds -> 1..Cardinality(CardIds)]

(* A circle: some people with every word they go by and every word that    *)
(* passes for one of these.  People who share a word are in one circle.    *)
IsCircle(G) ==
    /\ \A a \in Accounts : a \in G <=> NameOf[a] \in G
    /\ \A f \in Facts : f.ref \in G <=> f.of \in G
    /\ \A v \in CardIds, w \in Spellings : <<v, w>> \in Alike => (v \in G <=> w \in G)
Circles == {G \in SUBSET CardIds : IsCircle(G)}

VARIABLES
    cards,   \* the notes of the folder
    stamp,   \* their signature: how often one was written
    manifest, \* what is in _index.yaml
    cache,   \* the manifest the worker has, and the signature it is for
    hand,    \* what each task is doing, and what it has read
    rounds,  \* how often each task has run
    of       \* history: whose values each card holds

peopleVars == <<cards, stamp, manifest, cache, hand, rounds, of>>

Free == [at |-> "idle"]
Exists(c) == cards[c] # NoCard

PeopleTypeOK ==
    /\ \A c \in CardIds : Exists(c) =>
          /\ cards[c].tid \in Accounts \cup {NoId}
          /\ cards[c].aliases \subseteq CardIds
          /\ cards[c].trust \in 0..100 \cup {Unknown}
          /\ cards[c].count \in {0, 1, Unknown}
          /\ cards[c].body \in 0..stamp
    /\ \A t \in Tasks : hand[t].at \in {"idle", "pass", "loaded", "read", "plan",
                                        "fact", "dossier", "rebuild"}
    /\ of \in [CardIds -> SUBSET Accounts]

EmptyIndex == [tid |-> [a \in Accounts |-> NoCard], alias |-> [w \in CardIds |-> NoCard]]

PeopleInit ==
    /\ cards = [c \in CardIds |-> NoCard]
    /\ stamp = 0 /\ manifest = EmptyIndex
    /\ cache = [stamp |-> 0, index |-> EmptyIndex]
    /\ hand = [t \in Tasks |-> Free]
    /\ rounds = [t \in Tasks |-> 0]
    /\ of = [c \in CardIds |-> {}]
-----------------------------------------------------------------------------
(* The manifest of the folder                                              *)

FirstCard(S) == IF S = {} THEN NoCard
            ELSE CHOOSE c \in S : \A d \in S : PathOrder[c] <= PathOrder[d]
LastCard(S) == IF S = {} THEN NoCard
           ELSE CHOOSE c \in S : \A d \in S : PathOrder[c] >= PathOrder[d]
CardsOf(a) == {c \in CardIds : Exists(c) /\ cards[c].tid = a}

(* The first card keeps an account; the words of a card that lost it are   *)
(* left out.  Of the others the last one keeps a word.                     *)
BuildPeopleIndex ==
    LET listed == {c \in CardIds : Exists(c) /\
                      (cards[c].tid = NoId \/ c = FirstCard(CardsOf(cards[c].tid)))}
    IN  [tid   |-> [a \in Accounts |-> FirstCard(CardsOf(a))],
         alias |-> [w \in CardIds |-> LastCard({c \in listed : w \in cards[c].aliases})]]

(* load_folder: the cached manifest while the notes have the signature it  *)
(* was cached under, or else what the file says now.                       *)
Loaded == IF cache.stamp = stamp THEN cache.index ELSE manifest
Load == cache' = [stamp |-> stamp, index |-> Loaded]

(* canonicalize_person: by account, by a known word, by a word like it, or *)
(* else a card of its own.                                                 *)
LikeOf(w, index) == {v \in CardIds : index.alias[v] # NoCard /\ <<w, v>> \in Alike}
Canonicalize(w, tid, index) ==
    IF tid # NoId /\ index.tid[tid] # NoCard THEN index.tid[tid]
    ELSE IF index.alias[w] # NoCard THEN index.alias[w]
    ELSE IF LikeOf(w, index) # {} THEN index.alias[CHOOSE v \in LikeOf(w, index) : TRUE]
    ELSE w

\* Mutant of ByAccount: an account without a card goes by the first word
\* that the index knows.
ByAccountGuessed(a, index) ==
    LET known == {v \in CardIds : index.alias[v] # NoCard}
    IN  IF index.tid[a] # NoCard THEN index.tid[a]
        ELSE IF known # {} THEN index.alias[CHOOSE v \in known : TRUE] ELSE a

(* resolve_by_telegram_id                                                  *)
ByAccount(a, index) ==
    IF index.tid[a] # NoCard THEN index.tid[a]
    ELSE IF index.alias[NameOf[a]] # NoCard THEN index.alias[NameOf[a]]
    ELSE a
-----------------------------------------------------------------------------
(* The attitude: trust stands for what the planner judges, count for what  *)
(* is counted                                                              *)

Values(r) == [trust |-> r.trust, count |-> r.count]
\* Mutant of Over: the new values as they are, empty ones too.
OverBare(base, new) == new

Over(base, new) ==
    [trust |-> IF new.trust = Unknown THEN base.trust ELSE new.trust,
     count |-> IF new.count = Unknown THEN base.count ELSE new.count]
Zero == [trust |-> 0, count |-> 0]
None == [trust |-> Unknown, count |-> Unknown]

Handicapped(tid, m) ==
    IF tid \in Owners
    THEN [m EXCEPT !.trust = IF @ = Unknown \/ @ < Floor THEN Floor ELSE @]
    ELSE m

(* Whom a pass counts: the sender of the turn, or whoever wrote.           *)
Counted(kind) ==
    IF kind = "turn" THEN {{a} : a \in Accounts}
    ELSE {S \in SUBSET Accounts : Cardinality(S) <= MaxCounted}
CountOf(senders) == IF senders = {} THEN Unknown ELSE 1

(* What the planner says of one person                                     *)
Judgement(f, score) == [of |-> f.of, ref |-> f.ref, tid |-> f.tid, trust |-> score]

(* What one pass knows of whom: judged is a set of at most one snapshot.   *)
Combined(judged, counted, index) ==
    LET cardOf(s) == Canonicalize(s.ref, s.tid, index)
        snaps(c) == {s \in judged : cardOf(s) = c}
        senders(c) == {a \in counted : ByAccount(a, index) = c}
        tids(c) == {s.tid : s \in snaps(c)} \ {NoId}
        tid(c) == IF tids(c) # {} THEN CHOOSE a \in tids(c) : TRUE
                  ELSE IF senders(c) # {} THEN CHOOSE a \in senders(c) : TRUE ELSE NoId
        name(c) == IF snaps(c) # {} THEN (CHOOSE s \in snaps(c) : TRUE).ref
                   ELSE NameOf[CHOOSE a \in senders(c) : TRUE]
        said(c) == [trust |-> IF snaps(c) = {} THEN Unknown
                              ELSE (CHOOSE s \in snaps(c) : TRUE).trust,
                    count |-> CountOf(senders(c))]
    IN  {[id |-> c, tid |-> tid(c), name |-> name(c), m |-> Handicapped(tid(c), said(c)),
          of |-> {s.of : s \in snaps(c)} \cup senders(c)]
            : c \in {cardOf(s) : s \in judged} \cup {ByAccount(a, index) : a \in counted}}

Start(t, kind) == kind \in Duties[t] /\ hand[t].at = "idle" /\ rounds[t] < MaxRounds[t]
                  /\ rounds' = [rounds EXCEPT ![t] = @ + 1]

(* MetricsPipeline.run up to its rows.  A pass after a turn has nobody     *)
(* judged; the sweep has somebody judged, or nobody.                       *)
BeginPass(t, kind, judged, counted) ==
    /\ kind \in {"sweep", "turn"} /\ Start(t, kind) /\ counted \in Counted(kind)
    /\ kind = "turn" => judged = {}
    /\ Load
    /\ hand' = [hand EXCEPT ![t] =
           [at |-> "pass", todo |-> Combined(judged, counted, Loaded)]]
    /\ UNCHANGED <<cards, stamp, manifest, of>>

(* persist_combined: the row over what the card has.                       *)
ToStore(row) == IF Exists(row.id) THEN Over(Values(cards[row.id]), row.m) ELSE row.m

(* load_snapshot; a row that changes nothing is skipped.                   *)
LoadRow(t, row) ==
    LET rest == hand[t].todo \ {row}
        same == Exists(row.id) /\ Values(cards[row.id]) # None
                /\ ToStore(row) = Values(cards[row.id])
    IN  /\ hand[t].at = "pass" /\ row \in hand[t].todo
        /\ hand' = [hand EXCEPT ![t] =
               IF same THEN [at |-> "pass", todo |-> rest]
               ELSE [at |-> "loaded", todo |-> rest,
                     row |-> [row EXCEPT !.m = ToStore(row)]]]
        /\ UNCHANGED <<cards, stamp, manifest, cache, rounds, of>>

(* store_snapshot finds the card anew and reads it.                        *)
ReadCardOf(t) ==
    LET c == Canonicalize(hand[t].row.id, hand[t].row.tid, Loaded)
    IN  /\ hand[t].at = "loaded"
        /\ Load
        /\ hand' = [hand EXCEPT ![t] = [at |-> "read", todo |-> @.todo, row |-> @.row,
                                        card |-> c, note |-> cards[c]]]
        /\ UNCHANGED <<cards, stamp, manifest, rounds, of>>

NewCard(tid, name, m, body) ==
    [tid |-> tid, aliases |-> {name}, trust |-> m.trust, count |-> m.count,
     body |-> body, portrait |-> NoCard]

Put(c, card) == cards' = [cards EXCEPT ![c] = card] /\ stamp' = stamp + 1

(* The new values over those that were read, and all else as it was read;  *)
(* somebody new starts from zero, with a new index.                        *)
StoreSnapshot(t) ==
    LET h == hand[t]
        m == IF h.note = NoCard THEN Over(Zero, h.row.m) ELSE Over(Values(h.note), h.row.m)
    IN  /\ h.at = "read"
        /\ IF h.note = NoCard
           THEN /\ Put(h.card, NewCard(h.row.tid, h.row.name, m, 0))
                /\ hand' = [hand EXCEPT ![t] = [at |-> "rebuild", then |-> "pass", todo |-> h.todo]]
           ELSE /\ Put(h.card, [h.note EXCEPT !.trust = m.trust, !.count = m.count])
                /\ hand' = [hand EXCEPT ![t] = [at |-> "pass", todo |-> h.todo]]
        /\ of' = [of EXCEPT ![h.card] = @ \cup h.row.of]
        /\ UNCHANGED <<manifest, cache, rounds>>

EndPass(t) ==
    /\ hand[t].at = "pass" /\ hand[t].todo = {}
    /\ hand' = [hand EXCEPT ![t] = Free]
    /\ UNCHANGED <<cards, stamp, manifest, cache, rounds, of>>
-----------------------------------------------------------------------------
(* The memory writer: a plan of updates, and the index after all of them   *)

BeginPlan(t, facts) ==
    /\ Start(t, "memory")
    /\ hand' = [hand EXCEPT ![t] = [at |-> "plan", todo |-> facts]]
    /\ UNCHANGED <<cards, stamp, manifest, cache, of>>

ReadFact(t, fact) ==
    LET c == Canonicalize(fact.ref, fact.tid, Loaded)
    IN  /\ hand[t].at = "plan" /\ fact \in hand[t].todo
        /\ Load
        /\ hand' = [hand EXCEPT ![t] = [at |-> "fact", todo |-> @.todo \ {fact},
                                        fact |-> fact, card |-> c, note |-> cards[c]]]
        /\ UNCHANGED <<cards, stamp, manifest, rounds, of>>

(* merge_meta: an id that was given is put on the card, the words add up.  *)
WriteFact(t) ==
    LET h == hand[t]
        f == h.fact
    IN  /\ h.at = "fact"
        /\ Put(h.card,
               IF h.note = NoCard THEN NewCard(f.tid, f.ref, None, 1)
               ELSE [h.note EXCEPT !.tid = IF f.tid = NoId THEN @ ELSE f.tid,
                                   !.aliases = @ \cup {f.ref}, !.body = @ + 1])
        /\ hand' = [hand EXCEPT ![t] =
               IF h.todo # {} THEN [at |-> "plan", todo |-> h.todo]
               ELSE [at |-> "rebuild", then |-> "idle"]]
        /\ of' = [of EXCEPT ![h.card] = @ \cup {f.of}]
        /\ UNCHANGED <<manifest, cache, rounds>>

(* rebuild_folder                                                          *)
Rebuild(t) ==
    /\ hand[t].at = "rebuild"
    /\ manifest' = BuildPeopleIndex
    /\ cache' = [stamp |-> stamp, index |-> BuildPeopleIndex]
    /\ hand' = [hand EXCEPT ![t] = IF @.then = "idle" THEN Free
                                   ELSE [at |-> "pass", todo |-> @.todo]]
    /\ UNCHANGED <<cards, stamp, rounds, of>>
-----------------------------------------------------------------------------
(* The portrait worker: a card of an account whose dossier has changed     *)

Dossier(card) == [body |-> card.body, aliases |-> card.aliases, tid |-> card.tid]

ReadDossier(t, c) ==
    /\ Start(t, "portrait")
    /\ Exists(c) /\ cards[c].tid # NoId /\ cards[c].portrait # Dossier(cards[c])
    /\ hand' = [hand EXCEPT ![t] = [at |-> "dossier", card |-> c, note |-> cards[c]]]
    /\ UNCHANGED <<cards, stamp, manifest, cache, of>>

(* The planner has a portrait, or none.                                    *)
WritePortrait(t) ==
    LET h == hand[t]
    IN  /\ h.at = "dossier"
        /\ \/ Put(h.card, [h.note EXCEPT !.portrait = Dossier(h.note)])
           \/ UNCHANGED <<cards, stamp>>
        /\ hand' = [hand EXCEPT ![t] = Free]
        /\ UNCHANGED <<manifest, cache, rounds, of>>

PeopleNext ==
    \E t \in Tasks :
        \/ \E kind \in Duties[t], counted \in SUBSET Accounts :
              \/ BeginPass(t, kind, {}, counted)
              \/ \E f \in Facts, s \in Scores :
                    BeginPass(t, kind, {Judgement(f, s)}, counted)
        \/ hand[t].at = "pass" /\ \E row \in hand[t].todo : LoadRow(t, row)
        \/ ReadCardOf(t) \/ StoreSnapshot(t) \/ EndPass(t)
        \/ \E facts \in SUBSET Facts :
              Cardinality(facts) \in 1..MaxFacts /\ BeginPlan(t, facts)
        \/ hand[t].at = "plan" /\ \E fact \in hand[t].todo : ReadFact(t, fact)
        \/ WriteFact(t) \/ Rebuild(t)
        \/ (\E c \in CardIds : ReadDossier(t, c)) \/ WritePortrait(t)

PeopleSpec == PeopleInit /\ [][PeopleNext]_peopleVars
-----------------------------------------------------------------------------
(* Identities pass for one another on a shared word, one letter's          *)
(* difference or a long prefix, so cards of people with such words mix.    *)
(* They mix no further: a card that the index gives for an account,        *)
(* whichever process asks and however old its index is, tells of nobody    *)
(* out of a circle of theirs.  (people.py, metrics/retriever.py)           *)
AttitudeStaysIn(G) ==
    \A index \in {manifest, cache.index}, a \in Accounts \cap G :
        index.tid[a] # NoCard => of[index.tid[a]] \subseteq G

(* Testing turns of the owner are spared, and nobody else is: in a circle  *)
(* without an owner all trust is a score of the planner, or the baseline.  *)
(* (metrics/handicap.py)                                                   *)
GuestsAreJudged(G) ==
    G \cap Owners = {} => \A c \in G :
        Exists(c) => cards[c].trust \in Scores \cup {0, Unknown}

CardsStayInCircles == \A G \in Circles : AttitudeStaysIn(G) /\ GuestsAreJudged(G)

(* A task whose reading is up to date only adds to a card: no known value  *)
(* becomes unknown, no word or fact is dropped, and an id is replaced at   *)
(* most by the one the planner gives, whatever was done to the card in     *)
(* between other tasks.                                                    *)
WritesOnlyAdd ==
    [][\A t \in Tasks, c \in CardIds :
          (StoreSnapshot(t) \/ WriteFact(t) \/ WritePortrait(t))
          /\ hand[t].card = c /\ hand[t].note = cards[c] /\ Exists(c) =>
              LET old == cards[c]
                  new == cards'[c]
              IN  /\ old.trust # Unknown => new.trust # Unknown
                  /\ old.count # Unknown => new.count # Unknown
                  /\ old.aliases \subseteq new.aliases /\ old.body <= new.body
                  /\ old.tid # NoId => new.tid # NoId
                  /\ new.tid = old.tid \/ (WriteFact(t) /\ new.tid = hand[t].fact.tid)]_peopleVars

(* Both are merged with the existing card so no previously known value is  *)
(* lost (metrics/pipeline.py): a pass that judges nobody leaves the trust  *)
(* on the card as it is.                                                   *)
KnownValuesStay ==
    [][\A t \in Tasks :
          StoreSnapshot(t) /\ "turn" \in Duties[t] /\ hand[t].note # NoCard
          /\ hand[t].note.trust # Unknown =>
              cards'[hand[t].card].trust = hand[t].note.trust]_peopleVars

(* Duplicate spellings never create new cards (people.py): an account has  *)
(* one card.                                                               *)
OneCardEach == \A a \in Accounts : Cardinality(CardsOf(a)) <= 1

(* What people.py cannot keep once two people share a word: the attitude   *)
(* shown to somebody was earned by them alone.                             *)
AttitudeOfOne == \A a \in Accounts : manifest.tid[a] # NoCard => of[manifest.tid[a]] \subseteq {a}
=============================================================================
