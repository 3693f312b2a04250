---------------------------- MODULE MCBackground ----------------------------
(* Background work whose parts share no state, each explored on its own:   *)
(* `part' says which of them a behaviour is about, the others stay as they *)
(* begin.  The fairness of a part holds in its own behaviours.             *)
EXTENDS FollowUps, DeployNews, Outbox, People, Presence, TLC

CONSTANTS a1, a2, owner, guest, friend

VARIABLE part

MCSimilar == {{a1, a2}}

(* Two guests whose words pass for one another, one of them with a second  *)
(* name, and the owner, who shares no word with them; the accounts of the  *)
(* owner and of a guest, as words, pass for each other.                    *)
MCNameOf == owner :> "on" @@ guest :> "gn" @@ friend :> "fn"
MCFacts == {[of |-> owner, ref |-> "on", tid |-> owner],
            [of |-> guest, ref |-> "gn", tid |-> guest]}
MCAlike == {<<"gn", "fn">>, <<"fn", "gn">>, <<owner, guest>>, <<guest, owner>>}
MCPathOrder == owner :> 1 @@ guest :> 2 @@ friend :> 3 @@ "fn" :> 4 @@ "gn" :> 5 @@ "on" :> 6
MCDuties == "talk" :> {"turn", "sweep"} @@ "memory" :> {"memory", "portrait"}
MCMaxRounds == "talk" :> 2 @@ "memory" :> 1

(* Lines and packets with and without a message, screens of every shape.   *)
MCInputs ==
    {[via |-> "line", text |-> "hi"], [via |-> "line", text |-> ""],
     [via |-> "osc", address |-> "/vanessa/input", values |-> <<"name", "number", "hi">>],
     [via |-> "osc", address |-> "/vanessa/input", values |-> <<"", "number">>],
     [via |-> "osc", address |-> "/avatar/change", values |-> <<"hi">>]}
MCShots == {<<8, 4>>, <<40, 1>>, <<30, 30>>, <<25, 15>>}
MCSides == <<12, 9, 7>>
MCQualities == <<5, 2>>

MCInit ==
    /\ part \in {"followups", "news", "outbox", "people", "presence"}
    /\ FollowInit /\ NewsInit /\ OutboxInit /\ PeopleInit /\ PresenceInit
    /\ part # "presence" => listening

MCNext ==
    /\ part' = part
    /\ \/ part = "followups" /\ FollowNext /\ UNCHANGED <<newsVars, outboxVars, peopleVars, presenceVars>>
       \/ part = "news" /\ NewsNext /\ UNCHANGED <<followVars, outboxVars, peopleVars, presenceVars>>
       \/ part = "outbox" /\ OutboxNext /\ UNCHANGED <<followVars, newsVars, peopleVars, presenceVars>>
       \/ part = "people" /\ PeopleNext /\ UNCHANGED <<followVars, newsVars, outboxVars, presenceVars>>
       \/ part = "presence" /\ PresenceNext
          /\ UNCHANGED <<followVars, newsVars, outboxVars, peopleVars>>

MCFairness ==
    /\ \A a \in Asks : WF_followVars(part = "followups" /\ JobStep(a))
    /\ WF_newsVars(part = "news" /\ TickStep)
    /\ WF_newsVars(part = "news" /\ RefreshEnds)
    /\ WF_newsVars(part = "news" /\ CacheExpires)
    /\ \A r \in Relays : WF_outboxVars(part = "outbox" /\ RelayStep(r))
    /\ WF_presenceVars(part = "presence" /\ Consumer)
    /\ WF_presenceVars(part = "presence" /\ Cancel)

MCSpec ==
    /\ MCInit
    /\ [][MCNext]_<<part, followVars, newsVars, outboxVars, peopleVars, presenceVars>>
    /\ MCFairness
-----------------------------------------------------------------------------
(* Each part keeps its variables well typed.                               *)
BackgroundTypeOK ==
    FollowTypeOK /\ NewsTypeOK /\ OutboxTypeOK /\ PeopleTypeOK /\ PresenceTypeOK


(* Nothing of it hangs: jobs end, news arrive, rows are settled, turns are *)
(* taken.                                                                  *)
WorkEnds == JobsEnd /\ NewsArrive /\ RowsAreSettled /\ TurnsEnd
=============================================================================
