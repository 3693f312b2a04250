------------------------------ MODULE MCReminders ------------------------------
(* What a turn plans, in parts explored on their own: the plan and the prompt  *)
(* of a reply, the posts that turns schedule, list and cancel, and the ticks   *)
(* of the workers that publish them.                                           *)
EXTENDS Reminders, Schedule, Prompt

CONSTANTS w1, w2, agent1, agent2, l1, l2, x1, x2

VARIABLE part

(* A recurring and a one-shot post, two overlapping workers.                   *)
MCRows == {1, 2}
MCPeriod == [r \in MCRows |-> IF r = 1 THEN 1 ELSE 0]
MCWorkers == {w1, w2}

(* A post a day with a link that begins another, told in two ways, one on a    *)
(* day of the month or of the week, one too often, one on a day that never     *)
(* comes, and one at a moment; a list and every way to cancel.                 *)
MCAdd == [action |-> "add", cron |-> Once, at |-> 0, words |-> x1, links |-> {}, source |-> {},
          target |-> "none", numbers |-> {}]
Cron(slots, days, weekdays, anyDay, anyWeekday) ==
    [slots |-> slots, days |-> days, weekdays |-> weekdays, anyDay |-> anyDay,
     anyWeekday |-> anyWeekday]
Daily == Cron({1}, 0 .. MonthLen - 1, 0 .. WeekLen - 1, TRUE, TRUE)
Often == Cron({1, 2}, 0 .. MonthLen - 1, 0 .. WeekLen - 1, TRUE, TRUE)
Either == Cron({0}, {3}, {1}, FALSE, FALSE)
NoDay == Cron({0}, {}, 0 .. WeekLen - 1, FALSE, TRUE)
MCAdds ==
    {[MCAdd EXCEPT !.cron = Daily, !.links = {l2}, !.source = {l1, l2}],
     [MCAdd EXCEPT !.cron = Daily, !.links = {l2}, !.source = {l1, l2}, !.words = x2],
     [MCAdd EXCEPT !.at = 2, !.source = {l1}],
     [MCAdd EXCEPT !.cron = Either, !.words = x2],
     [MCAdd EXCEPT !.cron = Often], [MCAdd EXCEPT !.cron = NoDay]}
MCGone == [MCAdd EXCEPT !.action = "cancel"]
MCRequests == MCAdds \cup
    {MCGone, [MCGone EXCEPT !.target = "all"],
     [MCGone EXCEPT !.target = "words", !.words = x2],
     [MCGone EXCEPT !.target = "numbers", !.numbers = {1}]}
MCBegins == {<<l1, l2>>}

(* Turns that reach every part of the prompt, with some of them long.          *)
MCAsk == [telegram |-> TRUE, bot |-> FALSE, owner |-> FALSE, proxy |-> FALSE, dm |-> FALSE,
          card |-> "none", wants |-> "normal", photo |-> FALSE, album |-> FALSE,
          images |-> FALSE, scene |-> FALSE, quotes |-> FALSE, cold |-> FALSE,
          known |-> TRUE, paused |-> FALSE, long |-> {}]
MCAsked ==
    {MCAsk, [MCAsk EXCEPT !.paused = TRUE, !.long = {"session", "earlier", "web"}],
     [MCAsk EXCEPT !.photo = TRUE, !.wants = "detailed", !.long = {"message", "knowledge"}],
     [MCAsk EXCEPT !.album = TRUE, !.photo = TRUE, !.images = TRUE, !.cold = TRUE,
                   !.wants = "brief", !.long = {"album", "metrics", "menu"}],
     [MCAsk EXCEPT !.bot = TRUE, !.proxy = TRUE, !.card = "early", !.known = FALSE],
     [MCAsk EXCEPT !.bot = TRUE, !.proxy = TRUE, !.card = "late", !.known = FALSE],
     [MCAsk EXCEPT !.owner = TRUE, !.dm = TRUE, !.long = {"aliases"}],
     [MCAsk EXCEPT !.telegram = FALSE, !.scene = TRUE, !.album = TRUE, !.photo = TRUE,
                   !.long = {"scene", "session"}]}
MCSaid == [skip |-> FALSE, unclear |-> FALSE, search |-> TRUE, humor |-> "no", web |-> "no",
           hermes |-> "no", schedules |-> FALSE, reply |-> "open", detail |-> "normal"]
MCPayloads ==
    {[MCSaid EXCEPT !.skip = TRUE, !.unclear = TRUE],
     [MCSaid EXCEPT !.unclear = TRUE, !.detail = "detailed", !.hermes = "query"],
     [MCSaid EXCEPT !.humor = "bare", !.web = "bare", !.search = FALSE, !.hermes = "bare"],
     [MCSaid EXCEPT !.humor = "query", !.web = "bare", !.reply = "yes"],
     [MCSaid EXCEPT !.web = "query", !.hermes = "query", !.schedules = TRUE, !.reply = "no"],
     [MCSaid EXCEPT !.hermes = "card", !.detail = "brief"]}
MCRank == [k \in Keys |->
    CASE k = "message" -> 100 [] k = "knowledge" -> 80 [] k = "scene" -> 79
      [] k = "web" -> 78 [] k = "session" -> 70 [] k \in {"history", "earlier"} -> 60
      [] k = "humor" -> 50 [] k = "metrics" -> 45 [] k = "memes" -> 40 [] k = "menu" -> 30 [] OTHER -> 95]
MCCap == [k \in Keys |->
    CASE k \in {"history", "knowledge"} -> 5 [] k \in {"session", "earlier"} -> 4
      [] k = "web" -> 3 [] k = "humor" -> 1 [] k \in {"memes", "menu", "metrics"} -> 2 [] OTHER -> 0]
-----------------------------------------------------------------------------
MCInit ==
    /\ part \in {"ticks", "posts", "prompt"}
    /\ Init /\ ScheduleInit /\ PromptInit
    /\ part # "prompt" => request = MCAsk

MCNext ==
    /\ part' = part
    /\ \/ part = "ticks" /\ Next /\ UNCHANGED <<scheduleVars, promptVars>>
       \/ part = "posts" /\ ScheduleNext /\ UNCHANGED <<vars, promptVars>>
       \/ part = "prompt" /\ PromptNext /\ UNCHANGED <<vars, scheduleVars>>

MCFairness ==
    /\ \A w \in Workers :
          /\ WF_vars(part = "ticks" /\ Claim(w))
          /\ WF_vars(part = "ticks"
                        /\ (Commit(w) \/ \E r \in Rows : Fire(w, r) \/ PostFails(w, r)))
    /\ \A r \in Rows :
          /\ SF_vars(part = "ticks" /\ \E w \in Workers : Fire(w, r))
          /\ SF_vars(part = "ticks" /\ \E w \in Workers : r \in moved[w] /\ Commit(w))

MCSpec == MCInit /\ [][MCNext]_<<part, vars, scheduleVars, promptVars>> /\ MCFairness
-----------------------------------------------------------------------------
(* The parts keep their variables well typed.                                  *)
RemindersTypeOK == TypeOK /\ ScheduleTypeOK /\ PromptTypeOK
===============================================================================
