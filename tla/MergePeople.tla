---------------------------- MODULE MergePeople -----------------------------
(***************************************************************************)
(* scripts/merge_people: cards of one person, found by telegram id and by  *)
(* the likeness of their names, are merged into one and their files are    *)
(* deleted.  The tool is run by hand; it reads the folder once, plans, and *)
(* works from what it has read.  It may be stopped anywhere and be run     *)
(* again.  Cards and names are numbers, in the order of the files; a card  *)
(* is called by its own id too.                                            *)
(***************************************************************************)
EXTENDS Naturals, Sequences, FiniteSets, FiniteSetsExt, Relation, Ordering

CONSTANTS Folders,   \* what the folder may hold: a card or Gone for each id
          CardIds,
          Similar,   \* pairs of names that identity_similar finds alike
          Cyrillic,  \* ids in Cyrillic spelling
          Commands,  \* what the tool may be called with, beside --apply --yes
          NoTelegram, Gone

Merging(to, from) == [does |-> "merge", to |-> to, from |-> from]
Deleting(c) == [does |-> "delete", card |-> c]

(* Cards as the folder may hold them, whole or merged.                     *)
Given == UNION {{f[c] : c \in CardIds} \ {Gone} : f \in Folders}
CardLines == UNION {k.lines : k \in Given}
Cards == [telegram : {k.telegram : k \in Given} \cup {NoTelegram},
          names : SUBSET UNION {k.names : k \in Given},
          lines : SUBSET CardLines]

Works == [does : {"merge"}, to : Nat, from : SUBSET Nat]
         \cup [does : {"delete", "unlink"}, card : Nat]

ASSUME MergeAssumption ==
    /\ CardIds \subseteq Nat \ {0} /\ IsFiniteSet(CardIds) /\ Cyrillic \subseteq CardIds
    /\ Similar \subseteq SUBSET Nat
    /\ Folders \subseteq [CardIds -> Cards \cup {Gone}] /\ Gone \notin Cards /\ IsFiniteSet(CardLines)
    /\ \A extra \in Commands :
           extra \in Seq(Works) /\ \A i \in DOMAIN extra : extra[i].does # "unlink"

VARIABLES folder,   \* the files
          people,   \* what load_people read, for as long as the tool runs
          todo,     \* what the tool still has to do
          touched,  \* cards it has merged in this run
          had,      \* the lines the cards had to begin with
          deleted,  \* those that --delete threw away
          misused   \* whether a merge named a card that was merged before

mergeVars == <<folder, people, todo, touched, had, deleted, misused>>

LinesIn(f) == UNION {f[c].lines : c \in {d \in CardIds : f[d] # Gone}}
NothingRead == [c \in CardIds |-> Gone]

(* Cards stay cards of the folder, and the tool has only its own work.     *)
MergeTypeOK ==
    /\ folder \in [CardIds -> Cards \cup {Gone}] /\ people \in [CardIds -> Cards \cup {Gone}]
    /\ todo \in Seq(Works)
    /\ touched \subseteq CardIds /\ misused \in BOOLEAN

MergeInit ==
    /\ folder \in Folders /\ people = NothingRead /\ todo = <<>>
    /\ touched = {} /\ deleted = {} /\ had = LinesIn(folder) /\ misused = FALSE
-----------------------------------------------------------------------------
(* Who a card is about.  The roster names each telegram id by the last     *)
(* card that has it.                                                       *)
There == {c \in CardIds : people[c] # Gone}
WithTelegram(t) == {c \in There : people[c].telegram = t}
Telegrams == {people[c].telegram : c \in There} \ {NoTelegram}
Roster == [t \in Telegrams |-> Max(WithTelegram(t))]

Alike(m, n) == m = n \/ {m, n} \in Similar
Called(c, name) == \E n \in people[c].names : Alike(n, name)

(* The card of the roster a card belongs to, 0 for none: by its telegram   *)
(* id if its names agree, else by its names alone.                         *)
Affiliation(c) ==
    IF people[c].telegram # NoTelegram
    THEN IF Called(c, Roster[people[c].telegram]) THEN Roster[people[c].telegram] ELSE 0
    ELSE LET mine == {t \in Telegrams : Called(c, Roster[t])}
         IN  IF mine = {} THEN 0
             ELSE Roster[CHOOSE t \in mine : \A u \in mine : Min(WithTelegram(t)) <= Min(WithTelegram(u))]

SharedTelegram(a, b) ==
    /\ people[a].telegram = people[b].telegram /\ people[a].telegram # NoTelegram
    /\ Affiliation(a) = Roster[people[a].telegram] /\ Affiliation(b) = Affiliation(a)
RosterConflict(a, b) == Affiliation(a) # 0 /\ Affiliation(b) # 0 /\ Affiliation(a) # Affiliation(b)
SameIdentity(a, b) == ~RosterConflict(a, b) /\ \E n \in people[b].names : Called(a, n)
Linked == [a, b \in There |-> a # b /\ (SharedTelegram(a, b) \/ SameIdentity(a, b))]

(* Groups of linked cards, each with the card it is merged into: that of   *)
(* the roster, the one in Cyrillic, or the richest.                        *)
Groups ==
    LET joined == TransitiveClosure(Linked, There)
    IN  {g \in {{b \in There : b = a \/ joined[a, b]} : a \in There} : Cardinality(g) > 1}

PickTarget(g) ==
    LET own == {c \in g : Affiliation(c) = c}
        russian == g \cap Cyrillic
        Rank(c) == (IF c \in russian THEN 1000 ELSE 0) + Cardinality(people[c].lines)
    IN  IF own # {} THEN Min(own)
        ELSE IF Cardinality(russian) = 1 THEN Min(russian)
        ELSE Min({c \in g : \A d \in g : Rank(d) <= Rank(c)})

AutoMerges ==
    LET targets == Ascending({PickTarget(g) : g \in Groups})
        Of(to) == CHOOSE g \in Groups : PickTarget(g) = to
    IN  [k \in DOMAIN targets |-> Merging(targets[k], Of(targets[k]) \ {targets[k]})]
-----------------------------------------------------------------------------
(* --apply: the folder is read and the groups are planned, in one go with  *)
(* what the command adds.                                                  *)
Load ==
    /\ todo = <<>>
    /\ people' = folder /\ touched' = {}
    /\ UNCHANGED <<folder, todo, had, deleted, misused>>

Start ==
    /\ todo = <<>> /\ people = folder /\ touched = {}
    /\ \E extra \in Commands : todo' = AutoMerges \o extra
    /\ UNCHANGED <<folder, people, touched, had, deleted, misused>>

(* One card of several: their lines and names, the target's telegram id or *)
(* the first there is.                                                     *)
Absorbed(to, from) ==
    LET all == {to} \cup from
        known == {c \in all : people[c].telegram # NoTelegram}
    IN  [telegram |-> IF to \in known \/ known = {} THEN people[to].telegram
                      ELSE people[Min(known)].telegram,
         names |-> UNION {people[c].names : c \in all},
         lines |-> UNION {people[c].lines : c \in all}]

Unlinking(from) ==
    LET cards == Ascending(from)
    IN  [k \in DOMAIN cards |-> [does |-> "unlink", card |-> cards[k]]]

(* A card that was not read stops the tool.  The target is written from    *)
(* what was read, then the files of the others go, one by one.             *)
MergeAfterUnlinking ==
    /\ todo # <<>> /\ Head(todo).does = "merge"
    /\ LET to == Head(todo).to
           from == Head(todo).from
       IN  /\ {to} \cup from \subseteq There
           /\ IF \E c \in from : folder[c] # Gone
              THEN /\ folder' = [c \in CardIds |-> IF c \in from THEN Gone ELSE folder[c]]
                   /\ UNCHANGED <<todo, touched>>
              ELSE /\ folder' = [folder EXCEPT ![to] = Absorbed(to, from)]
                   /\ todo' = Tail(todo)
                   /\ touched' = touched \cup {to} \cup from
           /\ misused' = (misused \/ to \in from \/ ({to} \cup from) \cap touched # {})
    /\ UNCHANGED <<people, had, deleted>>

MergeCards ==
    /\ todo # <<>> /\ Head(todo).does = "merge"
    /\ LET to == Head(todo).to
           from == Head(todo).from
       IN  IF {to} \cup from \subseteq There
           THEN /\ folder' = [folder EXCEPT ![to] = Absorbed(to, from)]
                /\ todo' = Unlinking(from) \o Tail(todo)
                /\ touched' = touched \cup {to} \cup from
                /\ misused' = (misused \/ to \in from \/ ({to} \cup from) \cap touched # {})
           ELSE todo' = <<>> /\ UNCHANGED <<folder, touched, misused>>
    /\ UNCHANGED <<people, had, deleted>>

Unlink ==
    /\ todo # <<>> /\ Head(todo).does = "unlink"
    /\ folder' = [folder EXCEPT ![Head(todo).card] = Gone]
    /\ todo' = Tail(todo)
    /\ UNCHANGED <<people, touched, had, deleted, misused>>

DeleteCard ==
    /\ todo # <<>> /\ Head(todo).does = "delete"
    /\ LET c == Head(todo).card
       IN  IF c \in There
           THEN /\ deleted' = deleted \cup (IF folder[c] = Gone THEN {} ELSE folder[c].lines)
                /\ folder' = [folder EXCEPT ![c] = Gone]
                /\ todo' = Tail(todo)
           ELSE todo' = <<>> /\ UNCHANGED <<deleted, folder>>
    /\ UNCHANGED <<people, touched, had, misused>>

(* The tool is stopped between two writes.                                 *)
Stop ==
    /\ todo # <<>> /\ todo' = <<>>
    /\ UNCHANGED <<folder, people, touched, had, deleted, misused>>

MergeNext == Load \/ Start \/ MergeCards \/ Unlink \/ DeleteCard \/ Stop
MergeSpec == MergeInit /\ [][MergeNext]_mergeVars
-----------------------------------------------------------------------------
(* However often the tool is stopped and run again, a line of a card is    *)
(* thrown away by --delete alone, as long as no --merge names a card that  *)
(* the run has merged before.  When one does, the card is written from     *)
(* what was read before the first merge, and what that brought is lost.    *)
LinesSurviveTheMerge == ~misused => LinesIn(folder) \cup deleted = had
=============================================================================
