----------------------------- MODULE MCKnowledge -----------------------------
(* What she learns and keeps, in parts that share no state, each explored  *)
(* on its own: `part' says which of them a behaviour is about, the others  *)
(* stay as they begin.                                                     *)
EXTENDS MemoryIntake, VaultCards, MergePeople, ChatTurn

CONSTANTS t1, t2, g1, g2

VARIABLE part

MCText ==
    [i \in 1..MaxRow |-> CASE i = 1 -> {"contentful", "quote", "disclosure"}
                           [] i = 2 -> {}
                           [] OTHER -> {"contentful", "long"}]

(* What a card is told: two facts, two quotes and, of a place, one line.   *)
Fact(t) == [file |-> "card", to |-> "context", text |-> t, alias |-> "a1"]
Quote(t) == [file |-> "card", to |-> "quotes", text |-> t, alias |-> "a1"]
MCUpdates == {Fact("f1"), Fact("f2"), Quote("q1"), Quote("q2"),
              [file |-> "lore", to |-> "body", text |-> "d1", alias |-> "a1"]}
MCBucketAges == <<1>>

(* Four cards: 1 and 2 are alike, 3 has an account of its own, that of 1   *)
(* or none, and is alike to 2; 4 is alike to a nickname of 3.              *)
CardOf(t, ns, ls) == [telegram |-> t, names |-> ns, lines |-> ls]
MCFolders ==
    {<<CardOf("a1", {1}, {"l1"}), CardOf(NoTelegram, {2}, {"l2", "l3"}),
       CardOf(t, {3, 5}, {"l4"}), CardOf(NoTelegram, {4}, {"l5"})>> :
       t \in {"a1", "a2", NoTelegram}}
MCSimilar == {{1, 2}, {2, 3}, {4, 5}}
MCCommands == {<<>>, <<Merging(1, {4})>>, <<Merging(4, {4})>>, <<Deleting(1)>>,
               <<Merging(3, {4}), Deleting(1)>>}

MCInit ==
    /\ part \in {"turns", "intake", "cards", "merge"}
    /\ Init /\ IntakeInit /\ CardInit /\ MergeInit
    /\ part # "merge" => folder = CHOOSE f \in MCFolders : TRUE

MCNext ==
    /\ part' = part
    /\ \/ part = "turns" /\ Next /\ UNCHANGED <<intakeVars, cardVars, mergeVars>>
       \/ part = "intake" /\ IntakeNext /\ UNCHANGED <<vars, cardVars, mergeVars>>
       \/ part = "cards" /\ CardNext /\ UNCHANGED <<vars, intakeVars, mergeVars>>
       \/ part = "merge" /\ MergeNext /\ UNCHANGED <<vars, intakeVars, cardVars>>

MCFairness == \A r \in Runners : WF_intakeVars(part = "intake" /\ SweepStep(r))

MCSpec == MCInit /\ [][MCNext]_<<part, vars, intakeVars, cardVars, mergeVars>> /\ MCFairness
-----------------------------------------------------------------------------
(* Each part keeps its variables well typed.                               *)
KnowledgeTypeOK == TypeOK /\ IntakeTypeOK /\ CardTypeOK /\ MergeTypeOK

(* A card loses no line and gets none twice but by another writer that had *)
(* read before it, and its lines survive the merging of cards              *)
(* (VaultCards, MergePeople).                                              *)
LinesAreSafe == CardsKeepLines /\ LinesSurviveTheMerge
=============================================================================
