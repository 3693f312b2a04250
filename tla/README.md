# VanessaAI in TLA+

This is a formal model of VanessaAI, a persona that lives in Telegram group chats and in VRChat. It is written in
TLA+, model-checked with TLC and, for its core, proved with TLAPS. Every module is translated from the source and
says in its header which files it stands for. All paths below are relative to the repository.

- [The system](#the-system): its parts, their state, what is hard in each, what makes each correct
- [The modules](#the-modules) and how their state and actions correspond to the code
- [The runs](#the-runs): what each shows, its bounds and why they are enough
- [Fairness](#fairness)
- [The proofs](#the-proofs)
- [Where code and documentation disagree](#where-code-and-documentation-disagree)
- [What is not modelled](#what-is-not-modelled) and [what comes next](#plan)

To run it: `tlc -config MCTurnGate.cfg MCTurnGate`, and `tlapm M.tla` for a module `M` that ends in `Proofs`.

## The system

Four processes share Redis streams, a Postgres database and a directory of notes (the vault):

```
 Telegram ── bot ──turns──▶ agent ──tasks──▶ worker ──▶ bridge on the owner's computer
              ▲  ◀─replies─┘                   │
              └────────────── outbound ◀───────┘
 VRChat ── presence ──turns──▶ agent
```

The **bot** turns Telegram messages into requests on the `turns` stream, waits on a reply stream of its own and
posts what it gets; it also posts what arrives on `outbound`. The **agent** runs each request through a pipeline
(ingress, gate, retrieve, compose, finalize) on one database session. The **worker** runs the slow tasks (memory,
captions, questions to the owner's computer), the reminders, announcements, the sweep of the memory and the
retention of the streams. **presence** is the VRChat counterpart of the bot.

Below, for each component: its state; its operations; what is hard; what makes it correct; the modules that have it.

| Component | State | Operations | What is hard | Correct when | Modules |
|---|---|---|---|---|---|
| Stream delivery (`vanessa/infrastructure/broker`) | entries of a stream, groups, pending entries, dedup keys, DLQ | publish, read, dedup, handle, ack, reject | every command can be applied with its answer lost; processes die; nobody claims pending entries; keys expire | no entry vanishes without a trace; a handler runs once per dedup window | StreamDelivery, DeliveryContract |
| Stream retention (`janitor.py`, `consumers.py`, `retention.py`) | the answers a pass works from | dead-letter the abandoned, trim by age, remove idle names | its answers are stale by its next command; loops read and ack meanwhile | it trims nothing unread or pending; everything abandoned settles in the end | StreamJanitor |
| Chat turn (`services/bot`, `services/agent`, `pipeline/orchestrator`) | the waiting handler, the reply stream, the session's rows, tasks | ask, gate, signal, retrieve, compose, finalize, commit, reply, time out | two commits per turn; tasks leave before the last; the asker gives up; two agents in a rolling restart | what was shown is recorded and understood by the next turn; no answer without its message | ChatTurn |
| Decision gate (`pipeline/decision`, `stages/gate*.py`, `core/session`) | session of the chat, listen window, ignore list (in memory) | prefilter, planner, reaction gate, rules, compose gate | more than a dozen rules in order, over a sliding session; an overlay in memory that outlives failed turns | the muted stay unanswered; "stop" works; who addresses her is heard | ReplyRules, TurnGate |
| Reply limits (`decision/bot_peer_budget.py`, `detectors/rate_limit.py`, `memes/decider.py`) | counters and times in memory | ask, count, cool down, defer | asked at the gate and counted at the end; deferred answers; a restart | two bots cannot talk to each other forever; no window is overrun | PeerBudget, ReplyPace, ReplyLimits |
| Language model calls (`pipeline/llm`, `stages/retrieve*.py`, `stages/compose*.py`, `stages/finalize.py`) | the plan, the parts of the prompt, the draft | plan, ask the sources, budget, complete, retry, refuse, split | sources fail in any order; nested retries; tags in any number and order, inside code too | the message is never cut, no note lies; reasoning stays inside, the answer arrives whole | Prompt, Compose, ReplyText |
| Telegram bot (`services/bot/handlers`, `stickers`, `chat_access.py`) | one handler per update, known chats, sticker gaps | route, admit, ask, post blocks, photo, sticker, voice, note, other chat | each of a dozen sends may fail, or arrive unheard | the chat never goes silent; what she says went through did | BotUpdates |
| Albums (`services/bot/media_groups.py`) | entry and timer per album | add, restart the timer, flush | timers cancelled when already awake; downloads in any order; a cap | every photo is in one turn, which is never cut off | MediaGroups |
| Reminders (`services/worker/reminders`, `reminder_repository.py`, `pipeline/schedule`) | table of posts, row locks of a tick | add, list, cancel, claim, post, skip, move on | publish and commit are not atomic; overlapping workers; cancels during a tick; a turn delivered twice | nothing settled is posted again, nothing is forgotten, nothing stays due; the next run is the next one; only turns at once pass a limit | Reminders, Schedule |
| Hermes and outbound (`services/worker/hermes`, `infrastructure/hermes`, `services/bot/outbound`, `posted.py`) | jobs and their slots, recent answers, runs on the computer | ask, merge, poll, publish, post in parts, report, note | an answer that comes when nobody waits; parts that fail; full slots; restarts | one job per question, no run outlives its wait, what is saved was shown | FollowUps |
| Announcer, deploy watch (`services/worker/announce`, `deploys`, the bridge's deploy endpoint) | cache of the bridge, last seen marker | refresh, compare, word, publish, remember | a marker that is flushed or cannot be read, a publish that cannot be remembered or whose answer is lost | each event once but for these, none swallowed | DeployNews |
| Outbox (`infrastructure/outbox`) | event rows and attempts | stage, claim, publish, note, commit, give up | publish, then commit; two relays | every event at least once; each further entry is owed to a counted attempt or a crash | Outbox |
| Memory (`vanessa/knowledge/memory`, `pipeline/background.py`) | watermark per chat, cursor of the sweep, queue of jobs, cards | extract, sweep, write, compact | ids given out before commit; two runners of one cursor; writers and sweeps without a common lock; a full queue | no message is passed in silence or read twice; no line is lost | MemoryIntake, VaultCards |
| People (`vanessa/knowledge/people`, `index`, `metrics`, `portraits`, `store`) | cards, their index and its signature | resolve, judge, handicap, write, rebuild | a stale index, tasks that read, wait and write whole cards; names that pass for one another | the attitude to somebody was earned by them and those who share their words; writes only add | People |
| Merging cards (`scripts/merge_people*.py`) | the folder, what was loaded, the plan | load, plan, merge, unlink, delete | stopped anywhere and run again, works from what it read | no line is lost but by `--delete` | MergePeople |
| Tools (`infrastructure/mcp`) | closed, open, half open | allow, record | calls come back in any order, when the breaker has moved on | a failing server gets its pause | Breaker |
| VRChat presence (`services/presence`) | queue of turns, what is said, gestured, played | ingress, capture, ask, speak, breathe, stop | speech and idle gestures share one avatar; each step fails by itself | answers in order, one voice, a face at rest | Presence |

Interactions: **calls** inside a process (pipeline stages), **messages** over Redis streams (turns, tasks, outbound,
reply streams), **shared state** in Postgres (history, reminders) and in the vault, **callbacks** on the bot's event
loop (album timers, the typing indicator). What one part assumes of another is stated where it is used: ChatTurn,
Reminders and FollowUps treat a stream as something that hands an entry to one consumer or loses it, which is what
StreamDelivery shows of it; BotUpdates has one step where ChatTurn has a turn; TurnGate takes any value for the
limits, of which ReplyLimits says what they are.

## The modules

### StreamDelivery: one stream, its group, the delivery loop

`backends.py`, `redis_consumer.py`, `redis_entries.py`, `redis_dedup.py`, `redis_streams.py`.

| State | In the code |
|---|---|
| `top`, `body`, `stream`, `evicted` | what XADD appended, what is still there, what MAXLEN trimmed |
| `delivered`, `owner` | the group's last-delivered-id, its pending entries and their consumers |
| `seen`, `windows` | live dedup keys; how often each expired |
| `dlq` | entries with a copy in `<stream>:dlq` |
| `pc`, `cur` | where each `consume_forever` is, and on what |
| `taken`, `acquired`, `blind`, `handled`, `runs` | history, read by no action |

A consumer is a consumer *name*: each process start takes a new one, so a restarted process is another consumer and
the entries of the old one stay pending. Each await on Redis is one action with an answered and a failing form
(`Read`/`ReadFails`, `AcquireFirst` or `AcquireDuplicate`/`AcquireFails`, `Bury`/`BuryFails`, `Ack`/`AckFails`); the
failing form leaves open whether Redis applied the command. `AfterAckError` and `AfterBury` are the exception paths
of `_run_handler`, `_reject_delivery` and `_dlq_raw`.

**DeliveryContract** is what a group promises about each entry, without consumers or commands: an entry is queued,
held, and then handled, buried, skipped for another entry of the same message, or lost with its dedup lookup.
`ImplementsContract` states that the loop implements it, with `FateOf` as the refinement mapping.

### StreamJanitor: the retention pass beside the loops

`janitor.py`, `consumers.py`, `retention.py`. It extends StreamDelivery, so every delivery step interleaves with the
janitor's commands. The janitor's variables are the *answers* it got; the loops change the stream behind them. There
is no clock: "older than the retention window" is any prefix of the stream (stream ids are timestamps), and a
consumer counts as idle if it is gone or belongs to `Stalling`, the consumers that may be suspended, cut off or busy
in one handler for `consumer_idle_seconds`. What a pass buries is any set of pending entries: each read of
XPENDING sees ages of its own. `RemovedHeldNothing` excuses a stalling consumer that reads between the listing and
DELCONSUMER; that race (hazards, `consumers.py:47`) is in the model, and what it costs is that the entry is
unowned until it is trimmed; no property forbids it, for the code does not prevent it. The property says that nobody
else loses entries that way.

### ChatTurn: a turn across the processes

`broker_client.py`, `redis_rpc.py`, `dispatcher.py`, `broker_worker`, `orchestrator`, `retrieve.py`, `finalize.py`.
`bot`, `typing` and `seen` are the handler that waits; `stage` and `turn` an agent; `user` and `answer` the two rows
a turn writes ("open" until a commit keeps them, "none" after a roll-back); `task` the caption and memory tasks,
published by tasks of the event loop that nobody awaits. `Retrieve` commits in the middle of a turn, as
`RetrieveStage` does before its lookups; `Fail` and `Die` may come at every stage. What an answer says is left out.

### ReplyRules and TurnGate: does she answer?

`ReplyRules` is the deterministic part of the gate as operators over one *context*: the prefilter
(`PrefilterAllows`), the reaction gate (`Reactions`), the ordered rules, the compose gate (`Decide`). What the
detectors find in a message is the set of its traits; the regular expressions themselves are not modelled. The
prefilter, the reactions and the rules are tables of checks in the order of the code, and what a table says is said
by its first check that has an opinion (`FirstOf`). `low` is a low attitude or the planner's annoyance. `TurnGate`
puts them into the life of a group chat: `recent` (the committed rows a session is cut from), `quiet` and `spoke`
(ages of the last row and of her last one, in idle gaps), `ignored` (ChatIgnoreRegistry), and the ghost `wanted`
(whom the owner last wished ignored). A message is `Answer`ed, `Keep`ed or its turn `Fail`s before a commit; `Tick`
and `Restart` are time and a new agent process. The planner, the model of the reaction gate, the sender's metrics
and the reply limits are any value, so what is shown holds whatever they say.

Things a reader of the code may not expect, which the model has because the code does:

- `ConsecutiveReplyRule` never fires: the session a rule reads ends with the message under decision.
- A bare photo is answered before the rules are asked, so ignore list, dismissal and rate limit do not hold for it.
- After "stop", the planner's "yes", a bot's question for the owner, and a demand for more by the one she answered
  last still get an answer; `HushHolds` names these three and no others.
- The pronoun of "ignore him" may resolve to a second account of the owner.

### PeerBudget, ReplyPace, ReplyLimits: how often she answers

`bot_peer_budget.py`, `bot_peer.py`; `rate_limit.py`, `memes/decider.py`, `finalize.py`. Both are asked early in a
turn and fed at its end: `talk` and `reply` are the turn in between, while time passes and the turn may fail.
`inRow`, `last`, `hourly` are the counters and the deque of the budget, `bucket` and `sinceMeme` those of the pace;
stamps leave a deque at its left end when the code trims it, never by themselves. `owed` are the answers promised
but not posted: counted at the end of the turn, or never, if the turn fails once its question is with the broker
(`FailAsking`). `said`, `row`, `stale` and `sent` are history. A restart empties the memory and, with
it, the history the limits are about: they hold within one life of the agent.

### Breaker: calls to a tool server

`circuit_breaker.py`, `mcp/client.py`. A call begins when the breaker lets it through and comes back later, in any
order, when the breaker may be in another state; half open lets every caller through. `streak` and `trip` are kept
by an observer who sees only what came back.

### Prompt, Compose, ReplyText: from the plan to the messages

`planner`, `retrieve*.py`, `prompt_builder.py`, `budget.py`, `message_xml.py`; `compose*.py`, `completion_retry.py`,
`finalize.py`; `llm/format`. **Prompt** normalises what the planner writes into a plan, asks the sources side by
side (each answers or fails, in any order), lays out the parts of the prompt and cuts them, first to their sections'
caps, then to the cap of the whole, lowest rank first. A part is its name and its length; what is sent (`Sent`) is
the parts and a `Gap` of two line ends between each two, which the cap does not count. **Compose** asks the model
with its three nested retries, refuses an `[ignore]` or makes the messages and the row of the history. **ReplyText**
are its operators: where the answer begins, which markers are taken out (not those in closed blocks of code), how
the rest is cut into blocks. A text is the set of its lines, each with its kind and its place in the model's output,
because nothing in the code moves a line before another; the messages are a set of texts for the same reason. So
the operators are filters and cuts by place, with one fold where pieces are glued, and can be reasoned about without
induction. The model itself is any text of a set.

### BotUpdates: from an update to the last thing posted

`services/bot/handlers`, `stickers`, `chat_access.py`, `redis_streams.py`. A handler goes from routing and access
over the download and the request to the answer: reaction, blocks, photo, sticker, voice, a message to the owner or
to another chat, a note. Each send is done, refused, or done with its answer lost. `got` is what the chat received,
`reported` what the bot told the others, `remembered` and `notes` what it stored. `known` is the chat directory,
`since` the gap between stickers.

### MediaGroups: albums

`media_groups.py`, `message_photos.py`. One step is what one task does between two awaits. An entry is named for its
first photo and a timer for the photo that started it. `Wake` separates the end of a sleep from the timer's turn on
the loop: until then it can still be cancelled.

### Reminders and Schedule: posts she scheduled for herself

**Reminders**: `scheduler.py`, `reminder_repository.py`, and the bot's dedup window. A tick is one transaction:
`Claim` takes the row locks (FOR UPDATE SKIP LOCKED), `SkipStale`/`Post`/`PostFails` go through the claimed rows in
order, `Commit` or `Abort` releases them. A run is a row and its `next_run_at`, which is also what its message_id is
made of. The cron expression is a period.

**Schedule**: `pipeline/schedule`, `retrieve_schedule.py`. The turns of two agents that add, list and cancel: a turn
reads the rows in one session (`ReadToAdd`, `ReadToCancel`) and changes them in another (`Insert`, `Delete`), may die
in between, and is delivered again, when the planner may word it differently. `since`, kept with each row, is history:
the next id at the time its turn read the list. The cron is there in full but for the month: slots, days of the month, days of the week and how
the two combine, the search for the next run, the check of the frequency by samples.

### FollowUps: questions for the owner's computer

`retrieve_hermes.py`, `services/worker/hermes`, `infrastructure/hermes`, `services/bot/outbound`, `posted.py`,
`core/hermes_answers.py`. `stage` is where an ask is (task, job, outbound stream, posted, closed), `fate` what
became of it, `run` its run on the computer, which goes on without its job. Jobs and notes live in the memory of
their process. A job waits for a slot, is merged into another that asks the same, polls, and ends with one message;
the bot posts it in parts, each of which may fail, and reports those the chat got.

### DeployNews and Outbox: publish, then write down

**DeployNews**: `services/worker/announce`, `deploys`, `src/deploy/vanessa-bridge/bridge.py`. GitLab is `pipeline`;
the bridge looks at the last pipelines only (`Listed`), and answers from a cache that one request refreshes, with
retries, while the others get the old answer at once; the announcer compares with its marker, words, publishes and
then moves the marker. A publish reaches the stream or not, and is heard of or not. `slips`, `baseline` and `overdue`
say which deploys were told again or never had to be told. **Outbox**: `infrastructure/outbox`. Two relays claim
batches that do not overlap, publish row by row (each publish applied or not, with its answer or without) and commit
what became of all rows at the end. No code stages an
event yet; the model stages any.

### MemoryIntake, VaultCards: what she learns

**MemoryIntake**: `memory_stage.py`, `memory_prefilter.py`, `background.py`, `sweep.py`. The job after a reply reads
the messages behind its watermark, which is in memory; the sweep reads the rows behind its cursor, which is in the
vault, in overlapping windows. Row ids are given out before their transactions commit (`open`). Jobs wait in a
bounded queue that drops. The planner answers or fails. **VaultCards**: `writer*.py`, `compaction*.py`. A writer
reads a note, waits, merges its lines into what it read and writes the whole note; the compaction, of which each
process with a sweep has one, archives a section's surplus before it cuts the card, section by section, reading the
archive and writing it back in two steps, and may stop between any two. Facts have days and
fall into buckets by age; of each bucket the newest stay, which the code finds by a stable sort and the model by
counting, for each line, the newer ones of its bucket. **Ordering** has what both modules take from `sorted` and
ORDER BY: the members of a finite set one after the other.

### People, MergePeople: whose card it is

**People**: `knowledge/people`, `index`, `metrics`, `portraits`. A word or an account is resolved through the index
(`manifest`, and `cache` with the signature it was built for); a metrics pass, a memory write or a portrait holds
what it read (`hand`) and writes the card whole. `of` is history: whose values a card holds. Identities pass for one
another on a shared word, one letter's difference or a long prefix (`Alike`); a *circle* is a set of people with all
the words they go by and all that pass for these. **MergePeople**:
`scripts/merge_people*.py`. Groups are found by account, then by likeness; cards are merged from what was loaded at
the start and the merged ones deleted; `--merge` and `--delete` come in any combination of a set. It assumes what
the tool assumes: the nickname of the roster is the card's id and its file's name, and nobody writes cards
meanwhile.

### Presence: her body in VRChat

`services/presence`. Lines and OSC packets become turns in a queue; one consumer shoots the scene, scales and
compresses it to its caps, asks, and speaks with a gesture and a moving mouth, each step of which may fail; an idle
loop breathes in between; the end of the input cancels it all.

## The runs

Parts that share no state are explored in one run, each by itself: a constant variable `part` says which of them a
behaviour is about, and the others stay as they begin. A run so explores the sum of its parts, never their product.

| Run | Parts | Shows |
|---|---|---|
| `delivery` | | `NoSilentLoss`, `OneRunPerWindow`, `OneWorkerPerEntry`, and that the loop implements the contract (`ImplementsContract`) |
| `janitor` | | `CutoffIsSafe`, `RemovedHeldNothing`, `NoSilentLossJ` |
| `janitor_live` | | `EntriesSettle`: everything leaves the group in the end |
| `gate` | | `MutedStayUnanswered`, `HushHolds`, `AddressedAreHeard` |
| `reminders` | ticks, posts, prompt | `SettledStaysSilent`, `RunsAreNotForgotten`, `NothingStaysDue`; `ScheduleHolds`; `PromptHolds` |
| `replies` | budget, pace, breaker, compose, albums, bot | `LimitsHold`; `PausesAreWhole`; `ComposeHolds`; `AlbumsAreOwned`, `AddedGetsATurn`; `BotReplyHolds` |
| `knowledge` | turns, intake, cards, merge | `TurnsAreWhole`; `MessagesAreReadOnce`, `SweepCatchesUp`; `LinesAreSafe`, `CutsAreOld` |
| `background` | followups, news, outbox, people, presence | `FollowUpsHold`, `NewsAreToldOnce`, `RowsMatchTheStream`, `CardsStayInCircles`, `WritesOnlyAdd`, `PresenceHolds`, `WorkEnds` |
| `at_least_once`, `gate_spared`, `newest_quotes_stay`, `blocks_are_capped` | | violated: see [below](#where-code-and-documentation-disagree) |

Each batch has one type invariant, the conjunction of those of its parts. Properties with several sides are
conjunctions of named definitions, and the names say which side of the code each is about:

- `LimitsHold`: `LoopEnds` (a bot gets at most `MaxInRow` messages between two of a person, on top of what it was
  owed and of one for each turn that failed after it had asked), `HourHolds`, `AnswersAreSpaced`, `RateHolds`, `MemesAreSpaced`.
- `ComposeHolds`: `ReasoningStaysInside`, `NoControlInChat`, `AnswerArrivesWhole`. That requests are bounded through
  the three nested retries is `CallsAreBounded`, in the type invariant.
- `BotReplyHolds`: `NeverSilent`, `BlocksArriveInOrder`, `ClaimsAreTrue`, `NothingIsLost`.
- `PromptHolds`: `MessageComesFirst`, `CutsFollowRank`, `FitsInOrder`, `NotesAreTrue`. `ScheduleHolds`:
  `NextIsNext`, `LinksPostedOnce` (two posts with the same links on one schedule only where the later turn had read
  before the earlier post was there), `LinksAreKept`, `LimitIsKept` (one post more for each agent but one).
  `FitsInOrder` says of what is sent that it passes the cap by the gaps at most.
- `TurnsAreWhole`: `HistoryHoldsWholeTurns`, `ShownIsRecorded`, `SessionHoldsWhatWasShown`, `TypingAfterGate`,
  `OnlyRepliesAreLearned`, `CaptionFindsItsMessage`.
- `MessagesAreReadOnce`: `PassedRowsWereOffered`, `NeighboursShareAWindow`, `MarkedWasPlanned`,
  `NoRepeatedAnalysis`. `LinesAreSafe`: `LinesAreKept`, `LinesAreUnique`, `LinesSurviveTheMerge`.
- `FollowUpsHold`: `OneJobPerQuestion`, `JobsAreBounded`, `NoRunOutlivesItsWait`, `RowsWereShown`. `PresenceHolds`:
  `SpokenInOrder`, `OneVoice`, `AtRestBetween`, `SceneFits`. `CardsStayInCircles`: `AttitudeStaysIn`, `GuestsAreJudged`, of
  each circle. `RowsMatchTheStream`: `DeliveredWasSent`, `DuplicatesAreAccounted`.
  `WorkEnds`: `JobsEnd`, `NewsArrive`, `RowsAreSettled`, `TurnsEnd`.

The bounds, and why they are enough for the cases that matter:

- **delivery**: 2 consumers, 3 entries of 2 messages (one undecodable), 1 expiry per key, MAXLEN 2. Three entries
  give an original, a repetition of it that is skipped, and one more that trims or poisons. With one expiry the same
  message is handled in two windows. Two consumers are what a rolling restart has; a third would only repeat the
  pairwise cases, and for the safety properties the proofs remove the bound.
- **janitor**: 2 consumers, one of which may stall, 2 entries of one message: the cut-off can lie below, between and
  above them while one is pending and one unread. The liveness run has 1 entry: entries only compete for the
  janitor's list, and the fairness below is per entry.
- **gate**: owner, guest, bot; 7 messages; sessions of 4 rows, listen window 2, repeat window 3, continuation 3
  back, idle gap of one tick. Window 4 is the smallest session in which she answers someone, is told to stop, and
  the same person goes on. The real limits are 10 rows, 4 to listen, 8 to repeat, 6 back; sessions overflow, the
  listen window ends and a repetition falls out of its window in the model too. The distance of a continuation is
  the one limit that does not bite: in 4 rows the answer it continues is never further away than 3. The proofs hold
  for every window from two rows on.
- **reminders**, ticks: a recurring and a one-shot row, 2 workers, time 0..2, batches of 1, lateness 0. Every tick
  that is delayed at all makes a run stale; every second due row has to wait behind one that may fail. Posts: days
  of 3 slots, weeks of 2, months of 5 days, so that day of the month and day of the week fall together and apart in
  every way; 2 agents, 2 posts of a chat, 3 ids, so that one is refused, one comes back, and two turns at once pass
  the limit; crons that are daily, either-or,
  too frequent and never. Prompt: 8 turns that reach all 33 parts, 6 payloads, every outcome of every source, parts
  of length 1 or 6 and a cap of 18, so that the cap falls on each rank.
- **replies**, budget: 2 bots, 2 in a row, a cooldown of 1, 3 in an hour of 2, 4 answers: each limit is the tightest
  at some moment, and the sliding hour loses a stamp while it still has others. Pace: 2 answers in a window of 1, a
  gap of 3. Breaker: 3 callers, a threshold of 2, a timeout of 2, 5 ticks: late answers of before the opening, a
  failed probe and a second one. Compose: every output of up to four lines over the three alphabets that meet in the
  code, and of up to four more after a block of code and an end of its line, so that a marked block is longer than a
  message of 3 lines and its code is cut; 1 retry. Albums: an album of 4 with a cap of 3, another of 1. Bot: one update of each
  of 15 kinds with each of 9 answers; handlers share only the directory and the sticker gap.
- **knowledge**, turns: 2 messages (one of a bot), 2 agents; two turns are the smallest number with a *next* turn
  that must have seen the first. Intake: 3 rows, sweeps of 2 from 3 with windows of 2 that overlap by 1, a queue of
  1, one failure; two runners of one cursor. Cards: 6 lines told, sections of 1, 3 days, two processes that both
  write and compact. Merge: 4 cards whose likeness is a chain, with an account that is that of another, of none, or its own;
  five command lines.
- **background**: 2 asks alike and 1 slot; 3 pipelines, of which the bridge looks at 2 (8 in the code), so that a deploy falls
  behind two failures, and 2 mishaps; 3 rows, 2 relays in batches of 2, 2 attempts, one crash; the owner, a guest and
  a friend, the names of two of whom pass for each other, so that one circle has two people and one has one, two
  tasks with 2 and 1 rounds; 3 turns, a gesture or none,
  screens of every shape, 3 sides and 2 qualities.

`MaxEntries`, `MaxExpiries`, `MaxTime`, `Many`, `MaxClock`, `MaxSaid`, `MaxOwed`, `MaxPaceTime`, `MaxSent`,
`MaxTick`, `MaxStreak`, `LastNow`, `LastId`, `MaxRow`, `MaxFails`, `MaxDay`, `MaxTold`, `MaxPipeline`, `MaxMishaps`,
`MaxStaged`, `MaxCrashes`, `MaxRounds`, `MaxFacts`, `MaxCounted` and `MaxTurns` are bounds of the models, as guards (`MaxOwed` of `stale` too); `MaxPhotos`,
`MaxInRow`, `MaxPerHour`, `MaxReplies`, `MaxAttempts`, `MaxJobs`, `MaxPolls`, `MaxBlocks` and the like are the
code's own. Deadlock is not checked: in every run the bounded input runs out, and in most of them every process may
be down, or nothing obliges anyone to write.

## Fairness

Only five runs assume any, and there only the parts that have a liveness property.

- **janitor_live.** The consumers that stay up keep going with their loop (`Working`), the worker's `run_forever`
  always starts another pass, and time passes. Strong fairness says that Redis does not refuse the same command of
  one entry every single time, though it may refuse any of them arbitrarily often in between; `run_forever` catches
  every exception of a pass and tries again, which is why retries do come. The property has the premise that *some*
  consumer stays up from some moment on.
- **reminders**, ticks. `run_forever` catches everything and ticks on; broker and database do not refuse forever
  (strong fairness on firing and on committing a row).
- **replies**, albums. The event loop runs every ready task, sleeps end, and the turn of a flush ends because the
  wait for its reply has a timeout: weak fairness only.
- **knowledge**, intake. The sweep's `run_forever` catches everything and starts another cycle: weak fairness on
  each runner's next step; failures are bounded by `MaxFails`.
- **background.** A job of Hermes is a task whose polls are counted (`max_wait_seconds`), so each ends; the announcer and
  the relays tick on after every exception, the bridge's refresh has a timeout and its cache an age; the presence
  consumer is one task of a running loop, and the cancellation of it is delivered: weak fairness on their next
  steps, mishaps and crashes bounded. People has no liveness.

All other runs are safety runs without fairness. The agent's consume task has no fairness of this kind: it is
spawned without supervision, and an exception that leaves it ends it while the process lives on. `LoopRestarts`
tells the bot's supervised loop from it.

## The proofs

Every theorem holds for all messages, consumers, agents, workers, rows, photos, bots, callers and texts, and for all
values of the limits.

| Module | Theorem | States |
|---|---|---|
| `StreamProofs` | `DeliveryInvariant` | `Spec => []DeliveryInv` |
| | `TypeCorrect`, `NothingLostSilently`, `EntriesHaveOneWorker`, `PayloadsStay`, `HandlerRunsOnce` | `TypeOK`, `NoSilentLoss`, `OneWorkerPerEntry`, `PendingKeepsPayload`, `OneRunPerWindow` |
| | `LoopImplementsContract` | `DlqEnabled` gives `Spec => ImplementsContract` |
| | `JanitorTypes`, `TrimmingIsSafe`, `RemovalsAreSafe`, `NothingLostBesideJanitor` | `JTypeOK`, `CutoffIsSafe`, `RemovedHeldNothing`, `NoSilentLossJ` of `JSpec` |
| `TurnGateProofs` | `GateTypes`, `AddressedStayHeard` | `TypeOK`, `AddressedAreHeard` |
| | `MutedGetNoAnswer`, `HushStays` | `Window > 1` gives `Spec => MutedStayUnanswered`, `Spec => HushHolds` |
| `RemindersProofs` | `RemindersTypes`, `SettledRunsStaySilent`, `RunsAreKept` | `TypeOK`, `SettledStaysSilent`, `RunsAreNotForgotten` |
| | `ScheduleInvariant`, `RunsAreTheNext` | `ScheduleInv`, `NextIsNext` of `ScheduleSpec` |
| | `ScheduleIsKept` | `ScheduleSpec => []ScheduleHolds`, for any number of agents |
| | `PromptIsKept` | `PromptSpec => []PromptHolds` |
| | `RemindersStayTyped` | `RemindersTypeOK` of `MCSpec` |
| `RepliesProofs` | `BotLoopsEnd`, `CountsAreSpaced`, `HourStaysWhole`, `PaceStaysWhole`, `LimitsStayWhole` | the sides of `LimitsHold`, and `LimitsHold` |
| | `StreaksOpen`, `PausesStayWhole` | `StreakOpens`, `PausesAreWhole` |
| | `PhotosArePlaced`, `TimersAreOwned`, `AlbumsStayOwned`, `FlushesAreWhole` | `PhotosHaveOnePlace`, `BufferedHasItsTimer`, `AlbumsAreOwned`, `FlushedStaysWhole` |
| | `CallsStayBounded`, `ComposeStaysTyped` | `CallsAreBounded`, `ComposeTypeOK` of `ComposeSpec` |
| | `AnswersStayWhole` | `RefuseEnabled` gives `ComposeSpec => []ComposeHolds` |
| | `BotRepliesRight`, `BotStaysTyped` | `BotReplyHolds`, `BotTypeOK` of `BotSpec` |
| | `RepliesStayTyped` | `RepliesTypeOK` of `MCSpec` |
| `KnowledgeProofs` | `TurnTypes`, `TurnsStayWhole`, and one theorem for each of its six sides | `TypeOK`, `TurnsAreWhole` |
| | `MessagesStayReadOnce` | `IntakeSpec => []MessagesAreReadOnce` |
| | `CardsCut` | `CardSpec => CutsAreOld` |
| | `MergedLinesStay`, `LinesStaySafe` | `LinesSurviveTheMerge` of `MergeSpec`; `LinesAreSafe` of the composed `MCSpec` |
| | `KnowledgeStaysTyped` | `KnowledgeTypeOK` of `MCSpec` |
| `BackgroundProofs` | `RowsStayTrue`, `NewsStayTrue`, `FollowUpsStayTrue`, `PresenceStaysTrue` | `RowsMatchTheStream`, `NewsAreToldOnce`, `FollowUpsHold`, `PresenceHolds` |
| | `PartsStayTyped` | `BackgroundTypeOK` of `MCSpec` |
| `PeopleProofs` | `CardsAreOfCircles`, `CardsOnlyGrow` | `PeopleSpec => []CardsStayInCircles`, `PeopleSpec => WritesOnlyAdd` |

`OrderingProofs` has the lemmas about sorting and about the greatest of a set that the others cite: `InOrder` of a
strict total order is a sequence of exactly the members, each once, each before those it is less than; the members
before one of them are fewer the less it is, which is what makes the definition by ranks a sort. Of numbers there is
one such sequence only (`AscendingIsThe`), and what is selected from a sequence is the items at the positions
selected, in their order (`ItemsAre`): with these two, a selection is reasoned about without induction.

Assumed are the named assumptions on the constants (`ASSUME` in the modules), and nothing else. Most say that
bounds are naturals and that special values (`NoMark`, `Undated`, `Gone`) are none of the ordinary ones. What they
say beyond that: of the gate, which traits exclude each other (a bare photo has no words to dismiss her with); of
the asks, that they are finitely many; of the sides of a screenshot, that the first is the largest
(`frame_encode.py`); of the prompt, that the message outranks all else and has no cap of its own (`budget.py`); of a
cron, that its slots are moments of the day (`parse_cron`), and that a rewording of a request is a request; of an
answer, that its blocks can be told apart and are not what the bot itself says; of people, that a planner's update
with an account carries the account of its subject, and that the paths of cards are ranked; of the folder, that it
holds cards. TLC evaluates them in the runs. Some theorems have a premise of their own: `DlqEnabled`, `Window > 1`
and `RefuseEnabled`. They are explained below; the instances of the runs satisfy them.

Nearly no property is inductive by itself; each proof is about a strengthening, with one lemma per conjunct or per
action.

**Delivery.** A state in which a consumer is about to ack an entry that was neither handled nor buried satisfies
`NoSilentLoss` and breaks it in one step. `DeliveryInv` adds

- `PositionsOK`: a busy consumer's entry was taken, a taken one delivered, a delivered one appended; this makes what
  XREADGROUP returns *new*, and with it `OneWorkerPerEntry` inductive;
- `LoopOK`: what a consumer's place in the loop says of its entry. At "ack" its handler returned, at "skip" its
  lookup raised or another entry has the key, at "rejectAck" and "poisonAck" the DLQ has it;
- `KeysOK`: a live key was set for some entry, and an entry that left the group without being accounted for never
  set a key, and another entry of its message did. `NoSilentLoss` alone would have to follow chains of skips, each
  for an entry that is skipped in turn; an entry that set a key is never skipped without a trace, so the chain has
  length one.

`OneRunPerWindow` is inductive relative to typing and `PositionsOK`: only `AcquireFirst` raises `runs`, and it takes
the key of the window; only an expiry, which opens a window, gives it back.

**The contract.** `LoopImplementsContract` maps an entry to its fate (`FateOf`) and shows that every step of the
loop is one step of DeliveryContract or a stutter. What the invariant above does not say and the refinement needs
is: an entry stays in the stream until it is taken or trimmed; the entry a consumer works on is held; an entry that
set its key is held, finished or blind, so it never counts as skipped. Without a DLQ a rejected entry is acked with
no fate the contract has, hence the premise.

**The janitor.** `DeliveryInv` does not survive it: it acks entries that consumers are on. Typing, `PositionsOK` and
`OneWorkerPerEntry` do, and what the first part of the module shows of a step is used again. `JanitorInv` adds that the cut-off
is at most one past `delivered` from XINFO GROUPS on, and within the pending entries from XPENDING on, both of which
only move up (`CutoffOK`); that names on the removal list belong to processes that will not read again, or may stall
(`PruneOK`); that an entry about to be acked has its copy or was trimmed (`BuryOK`); and `LoopOK` and `KeysOK`
again, with "pending" widened by what the janitor records (`Traced`).

**Chat turn.** `TurnInv` ties the stage of an agent to the rows of its turn (`StageOK`), says that a message is
asked about once, so that one agent at most ever has it (`QueueOK`), and what is known of a message after every
agent has left it (`RecordOK`). Since the agents' steps touch one turn each, two frame lemmas (`AgentStep`,
`BotStep`) leave to the action lemmas only the agent and the turn that move.

**The gate.** Its properties are about single steps, so typing is all the invariant they need; the work is in the
tables. `FirstOfIs` says what a table returns: it has a first check that decides, because a nonempty set of natural
numbers has a least element (`LeastExists`), and its opinion is the table's. `DecideIs`, `DecisionsAre` and
`VerdictsAre` then say, for any opinions of the planner and the models, which checks can have been the first, and
each theorem excludes the others by what the message and the session hold. `NewestIs` does the same for the last row
of a kind, counted from the other end. With a session of one row the answer itself pushes the message out of the
session, and what the rule looks for is no longer there: hence the premise `Window > 1` of two of them; the code's
window is 10.

**Limits.** One argument serves the hour of the bots and the window of the pace. `Holds`: the deque holds the last
of the counted times, and what is not in it any more is as old as the window. So its length bounds the *young* times
(`YoungAreHeld`), which only get fewer while time passes (`YoungGetFewer`), and a turn that was let through with
room left still has that room when it is counted (`YoungAndOne`), whatever came in between but another count; one
turn at a time is in between, because the agent's loop runs one. For the row of a bot `RowOK` says that what a bot
saw and is owed is at most what is counted, and that a turn in progress left room; for the cooldown `StampOK`, that
the stamp is that of the last answer and a turn in progress began a cooldown later; for memes `MemeOK`, that the
counter is the distance from the last one.

**Breaker.** `BreakerInv`: the breaker is open exactly when the streak has reached the threshold; the moment it
opened at is never before the trip, and later only when it had counted to the threshold again. The pause, which the
code counts from its own moment, is therefore at least the one the observer counts.

**Reminders.** `RemindersInv`: a locked row is live, so a cancel cannot come between a claim and its commit; a
settled run is earlier than its row's current one (`NextRunIsLater` is the arithmetic of it); a row is on its way to
the next run only if the current one was published or too late.

**Posts.** `ScheduleInv`: the ids of the table ascend, and the next run of each row is the first moment after the
one before that its cron matches (`TableOK`, `DueOK`); that the search by days, and in a day by slots, finds this
first moment is arithmetic on divisions. The checks and the insert are in sessions of their own (`actions.py:49-56`), and there
may be more than one agent (a rolling restart, the autoscaler), so neither the limit of a chat nor the check for
duplicates holds as the code words it; the properties say how far they hold. For `LinksPostedOnce`, `OnceInv` says
that a row of the table that a turn about to insert does not know was added after it had read. For `LimitIsKept`,
`LimitInv` counts the turns about to insert together with the rows: each of them found room, so that all of them
but one may be too many.

**The prompt.** `PromptInv`: what each source has answered (`SourcesOK`), which parts the layout has and what each
says (`PartsOK`), and what the cuts left. A text is the set of its numbered characters, so that a cut is a
comparison of numbers: a section's cap keeps a beginning, and the cap of the whole takes from the lowest rank first
and never from the message, which outranks the others. The cap is one of the sum of the parts; what is sent has a gap
between each two of them on top (`SentIs`).

**Albums.** `AlbumInv`: the photos of an entry are in no other; the buffer names one open entry per album; the
timers still to run are exactly those of the buffered entries.

**Requests.** `CallsInv` counts what is spent when a request goes out (`Spent`): two for each attempt before this
one, one more if this one is strict, and all of a generation if it is the second.

**The answer.** `ComposeInv` says that a draft is what compose leaves of the reply (`Drafted`), and the reply that of
the output or the fixed line, however often the model was asked; a first reply that is kept for a second generation
is the reply of its own output. The rest is about operators. Fences are never taken out, so what is taken out of a
text leaves its code as it is (`WithoutIs`). A cut by places makes parts that are stretches of the text, in its
order, and lose nothing (`CutsAre`). A stretch that cuts no block of code has an even number of fences before it
(`EvenBefore`), so that what is code in it is code in the whole (`CodeOfPart`). Between two markers there is always
such a stretch (`MarkedBlocks`), for a marker in code is none. A message of the fallback is one only if no block of
code is longer than the target (`FallbackBlocks`): the exception that `NoControlInChat` makes is the one that the
proof needs. Which pieces are glued together, the fold, does not matter for any of this, and its value is never
used. The premise `RefuseEnabled` is the code's default (`settings_core.py:48`); without it an `[ignore]` is not
refused and goes to the chat.

**The bot.** `BotInv` says for each stage of a handler how far it can have come (`StageOK`): what was posted is a
beginning of what is to be posted (`Follows`), what the others were told is what the chat got (`Heard`), a photo was
remembered only if it was shown (`Pictured`), a claim is true of the sends before it (`TrueOf`). Most steps touch one
handler, or one handler and what it posts: two frame lemmas (`Alone`, `Speaks`) leave the rest aside. The proof
corrected the model twice: an answer has up to six things to post and not five, and the cap is taken after the claim
about another chat has replaced the blocks, so the claim is never cut off.

**The reading of messages.** `PassedRowsWereOffered` is about one cursor, and breaks at once when another poller
holds an older reading of it. `IntakeInv` says of every poller what it holds (`HeldIsCovered`): behind the cursor it
read nothing is passed in silence, what it fetched has every row up to its end that was not committed since, and
the windows before its next one were offered. That `NewerThan` leaves out no row between two that it gives, and the
windows no row between two of a batch, are lemmas about the operators (`NewerThanIs`, `WindowsShare`). The attempt
to prove it showed that an earlier definition of the history variable `late` was too narrow: with six rows and two
pollers, a row may be committed behind a cursor which one poller still holds after the other has set the cursor
back, and then be passed in silence. Such a row now counts as committed late (`Overtaken`); three rows, as in the
run, are too few for it. For a single executor `PlannedIsMarked` adds that what it holds is newer than its mark; with
two, which is the code's default (`settings_sections.py:45`), `NoRepeatedAnalysis` is false, and the property says
so by its premise `OneAtATime`.

**The cards.** `CardInv`: a section that is cut is in the archive already, or due to be (`CutIsCovered`); no note and
no reading of one has a line twice (`AllSingle`); with these, `LinesAreKept` is inductive, for a write drops only
what came since the reading, which is `lost`, or what the compaction settled to drop, which is archived. The work is
in the operators. What is kept of a section and what is cut make up the section and double nothing
(`CompactedSplits`); a bucket keeps `Limit` lines at most, and a line is cut only from one that keeps `Limit`, none
of them older (`BucketsKeepTheNewest`): what is cut has a rank of `Limit` or more in the order of its bucket, and
ranks do not skip a number. Hence `CutsAreOld`.

**Merging cards.** `MergeInv`: files are unlinked before anything else is merged, they are files of cards merged in
this run, and one card that stays has all their lines (`UnlinksAreCovered`). The tool works from what it loaded, so
the target has the lines that were loaded; that these are all there are is where `misused` comes in.

**Publish, then write down.** Outbox: what was given out has an entry (`CopiesCount`); each entry is owed to an attempt
that is counted as failed, because its answer was lost, to a transaction that was rolled back, or to the try going on
(`TriesCount`); and attempts end with the row (`AttemptsCount`). News: `SlipsCount` says of each deploy that the
messages about it are at most the slips, and one more once nothing will tell it again (`ToTell`); `NewsInOrder` that
the marker, the cache and the tick's own reading follow each other. A slip is a publish whose answer was lost, a
process that ended after it, or a marker that could not be written.

**Follow-ups.** `AsksInOrder` ties the run on the computer, the fate and the row of an ask to the stage of its job;
the bound on jobs is one lemma about sets that gain or lose one member (`AsksAreFew`).

**Presence.** `QueueRuns`: the queue is the run of turns between those taken and those that arrived; what was spoken
was taken, in order. `BodyFollows`: unless a speech broke off, the voice is that of the current turn, and mouth and
gesture move only in the steps between their beginning and their end. That a scene fits (`SceneFits`) is a lemma about the search for its size (`PicturesFit`): what it gives is the
scaling to one of the sides, and scaling keeps within them (`ResizedFits`, the arithmetic of the division).

**People.** Two people whose names pass for one another may share a card (`people_identity.py`), so nothing can be
said of a person alone; what can is said of a circle. For each circle, label every word and account by whether it is
in it (`who`). `EverythingIs(who)` says of every place where a value can be, that is cards, readings in hand, rows of
a pass, both indices and the history `of`, that it has the label of the card it is of or for. An index may be as old
as it likes, and a task may hold a reading while others write: what they give was true when it was built or read, and
the labels do not change. Resolving a word goes by likeness and stays within the label (`Canonicalize`). Nothing is
assumed of who shares which words. `WritesOnlyAdd` needs none of this: it follows from what merging and the writes do
with a reading.

Only model-checked is all liveness (`EntriesSettle`, `NothingStaysDue`, `AddedGetsATurn`, `SweepCatchesUp`,
`WorkEnds`), which is out of the prover's reach because fairness and ENABLED are. Every invariant and every action
property of the runs is proved, some under the premises named above.

## Where code and documentation disagree

Each of these has a run that TLC finds violated by what the code does.

1. `at_least_once`. `redis_streams.py:12` promises "At-least-once via consumer groups". When the dedup lookup
   raises, `backends.py:95` answers "already handled": the entry is acked and neither handled nor dead-lettered.
2. `gate_spared`. The owner's words for "do not ignore" (`user_ignore.py:28`) contain those for "ignore"
   (`user_ignore.py:14`), which `user_ignore.py:110` tries first: the pardoned stay ignored.
3. `newest_quotes_stay`. `compaction_body.py:176-179` keeps the last quotes of a section as the newest.
   `writer_merge.py:57` puts new lines at the top of a section: the newest are archived and the oldest stay.
4. `blocks_are_capped`. `message_blocks.py:17` promises that "every block is hard-capped at ``max_chars``". In the
   fallback that cuts by sentences, a piece of code sticks to the block before it whatever its length
   (`block_fallback.py:131`).

The modules state more sentences of docs and comments that their models do not satisfy, as definitions no run
checks. They are kept because they say exactly how far a sentence holds:

| Definition | The sentence | What happens |
|---|---|---|
| `StreamJanitor!TrimSparesUnsettled` | `retention.py:5-6`: an entry no consumer has read always stays | a stream whose group does not exist yet has no floor and is trimmed by age alone |
| `ChatTurn!LearnedAfterShown` | `README.md:39-40`: memory runs after the message is in the chat | tasks are submitted before the commit and the reply |
| `Reminders!RunPostedOnce` | `scheduler.py:7-8`: the bot drops a duplicate if a commit fails | a run is retried up to 180 minutes late, the bot's key lives one hour |
| `Breaker!OneProbe` | one probe request is allowed in half open | every caller is let through until the first one comes back |
| `VaultCards!WritersNeverInterleave` | `vault.py:3-5`: "concurrent writers never interleave" | the lock is held for one read or write, not for both |
| `VaultCards!ContentIsNotDuplicated` | `writer.py:3-6`: the stage and the sweep never duplicate content | lines are compared with their dates, so that one fact has a line for each day |
| `MemoryIntake!QuotesPassThePrefilter` | `memory_prefilter.py:7`: it never blocks quotes | one contentful message with a quote scores 1.3 of the 1.5 it needs |
| `MemoryIntake!NoRepeatedAnalysis` | `memory_stage.py:8-9`: no repeated analysis of a window | it holds for one executor, which is what the runs have, and not for two, which read the mark before they wait |
| `MemoryIntake!SweepIsDurable` | the sweep is the durable fallback for missed messages | the cursor passes windows whose planning failed |
| `FollowUps!NotesAreResults` | `hermes_answers.py:8`: a question is covered when its result was posted | what was posted may be an apology |
| `FollowUps!OpenUntilPosted` | `dedupe.py:4`: a job is open until its follow-up is posted | it is open until the follow-up is published |
| `People!KnownValuesStay` | `metrics/pipeline.py:5-7`: no known value is lost | in a pass that judges nobody, the handicap puts its floor in the place of the owner's known trust |
| `People!OneCardEach` | `people.py:3-6`: several spellings collapse onto one card | a name without an account makes a card of its own, which may get the account later |
| `People!AttitudeOfOne` | a card tells of one person | people whose words pass for one another, by a shared word, one letter or a long prefix, may share a card; `CardsStayInCircles` says that it goes no further |
| `Compose!MarkersStayInside` | `message_blocks.py:75-77`: a `[next]` "never reaches the chat as a literal control tag" | where a long marked block with code in it is cut, what follows the end of the code is taken for code itself, and a `[next]` in it stays; `NoControlInChat` says that it happens only then |
| `Compose!RowsHaveWords` | an answer in the history has words | an answer of nothing but markers is recorded as an empty row |
| `Prompt!CardIdIsKept` | `card_ping.py:6-7`: a card id guarantees the lookup and keeps the id | a query is cut to its length: an id late in a long message goes with the rest |
| `Schedule!PostsAreSpaced` | `schedule.yaml:70`: not more often than the minimum | the check samples runs, from the next one on, within a horizon |
| `Prompt!PromptIsCapped` | `budget.py:10`: "a global cap over the whole user prompt"; `test_prompt_budget.py:110-113`: the cap "is never exceeded" | the parts are summed without the two line ends that join them (`prompt_builder.py:195-196`): what is sent may pass the cap by two characters per gap, which `FitsInOrder` says is all |
| `Schedule!NumbersAreAsListed` | `matching.py:46`: numbers are positions in the list she gave | they are positions in the list at the time of the cancel |
| `BotUpdates!StickersAreSpaced` | `stickers/decider.py:20`: never more often than once per gap | a second handler decides while the sticker of the first is on its way |

Noticed on the way, and in the models: `merge_people --merge` of a card that the same run merged before writes what
was loaded before the first merge (`merge_people_apply.py:163-175`; hence the premise of `LinesSurviveTheMerge`),
`--merge A:A` deletes the card, and `--apply --merge` without `--yes` applies the groups it found by itself too; of
the deploy jobs the bridge takes the one of the newest pipeline, which need not be the newest job; a schedule
request whose note fails after the commit is told as an error; a voice that fails leaves gesture and mouth as they
are; a presence turn that is taken while the service stops is dropped; an answer of only a sticker drops the photo
that was promised with it; a message whose acknowledgement was lost is told as not sent. More of them, each
in a model too:

- Two agents that add a post at the same time may both insert it, past the limit of the chat and past the check for
  duplicates, for the checks are in another session than the insert (`actions.py:49-56`).
- A publish that was applied and whose answer was lost counts as failed: a deploy is told again at the next tick
  (`watcher.py:141-149`), a row of the outbox is published again (`relay.py:46-60`), with no crash; of a follow-up
  the worker says it failed while the chat gets it (`handler.py:94-104`).
- A question whose turn fails after it was submitted (`retrieve_hermes.py:87`) is answered, and counted nowhere.
- Behind as many unsuccessful pipelines as the bridge looks at (`bridge.py:34`, eight), it answers that there is no
  deploy.
- Two sweeps, one in each process, read the archive of a card before either writes it back
  (`compaction_archive.py:47-55`): the lines of the first are overwritten.
- The first text of an answer with a file is recorded as said even if neither the file nor the text in its place went
  through (`posted.py:20-28`).
- Merging the front matter of a note takes the new values over the old (`writer_merge.py:100`), the account id of a
  card included, which is what the model named last for that person (`attach_telegram_id`).
- Nothing fills `ctx.humor_quotes`, so that the humor part of a prompt (`prompt_context.py:63`) is in the model as an
  input that the code does not give yet.
- The limits of BotPeerBudget and the rate limit are in the memory of one agent; with more agents each counts for
  itself.

## What is not modelled

- **Turn data, requests, logging, time; contracts' fields; configuration and prompts**: data, formats, texts. What a
  module reads of them is in its records and constants.
- **Observability** (metrics, traces, alerting, evaluation): it reads what the others do and changes nothing of it.
- **Import of Telegram history; command line tools** but for `merge_people`; **Kubernetes, deployment**: run by
  hand, over one input, before or beside the system.
- **Language models, vision, speech, web search, MCP servers, GitLab, Telegram, VRChat**: outside services; any
  answer or failure where a modelled part calls them.
- **In the modelled parts.** Stream delivery: the probes of `redis_streams.py`. Retention: more than one group of a
  stream and the TTL of reply streams. Chat turn: a commit that Postgres applied and whose answer was lost. Gate:
  the VRChat channel's settings and the regular expressions. Reminders: how the planner reads a wish out of a
  sentence, time zones and their shifts. Bot: HTML formatting, the choice among the stickers of a pack; the owner's
  direct messages are taken to be configured. Hermes: the words of the late message. Bridge: the endpoints other
  than the deploys'. Memory: the drain of background jobs at shutdown, diary notes. Vault: search over nodes, the
  inbox, pinned notes, the Postgres store. People: nicknames of a chat, the words of a portrait. Vision: the calls
  and the choice of images. Presence: the bytes of JPEG and OSC, the analysis of sound. Database: mappers,
  migrations, the queries of the parts that are not modelled. Wiring: construction and health probes.

## Plan

What is left, in this order:

1. The VRChat channel's settings of the gate as a second profile of TurnGate; the choice of images and the calls to
   the vision model.
2. The drain of the background jobs, with the question what a shutdown may lose.
