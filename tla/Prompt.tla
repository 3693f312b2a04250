-------------------------------- MODULE Prompt --------------------------------
(***************************************************************************)
(* From the planner's words to the prompt a reply is written from: the     *)
(* plan of a turn (pipeline/llm/planner), the sources asked side by side   *)
(* in Retrieve (pipeline/stages/retrieve*.py), the parts of the user       *)
(* prompt (pipeline/llm/prompts) and the two caps on them (budget.py).     *)
(*                                                                         *)
(* A part is told by its name and its length.  What the sources answer,    *)
(* the planner's words and where a cut finds a sentence end are any value. *)
(***************************************************************************)
EXTENDS Integers, Sequences, SequencesExt, FiniteSetsExt, Ordering

CONSTANTS Asked,      \* the turns: what the message and its chat are like
          Payloads,   \* what the planner may write
          Rank,       \* PRIORITY_* of each part
          Cap,        \* the cap of the section a part belongs to, 0 for none
          MaxChars,   \* the cap of the whole user prompt, 0 for none
          Long        \* the length of a long part, the others have 1

\* build_user_prompt: the parts in the order they are written.
Layout ==
    <<"identity", "aliases", "proxy", "clarify", "tone", "attitude", "detail",
      "vision", "owner", "noPhotos", "history", "knowledge", "scene", "sceneRule",
      "web", "webRule", "asked", "offline", "answered", "nothingAsked", "retry",
      "schedule", "humor", "memes", "menu", "metrics", "earlier", "session",
      "album", "albumRule", "albumMust", "message", "task">>

Keys == ToSet(Layout)
Details == {"brief", "normal", "detailed"}
Given == {"no", "bare", "query"}     \* a flag of the planner: without its query, or with it

ASSUME PromptAssumption ==
    /\ MaxChars \in Nat /\ Long \in Nat \ {0}
    /\ Asked \subseteq [telegram : BOOLEAN, bot : BOOLEAN, owner : BOOLEAN, proxy : BOOLEAN,
                        dm : BOOLEAN, card : {"none", "early", "late"}, wants : Details,
                        photo : BOOLEAN, album : BOOLEAN, images : BOOLEAN, scene : BOOLEAN,
                        quotes : BOOLEAN, cold : BOOLEAN, known : BOOLEAN, paused : BOOLEAN,
                        long : SUBSET Keys]
    /\ Payloads \subseteq [skip : BOOLEAN, unclear : BOOLEAN, search : BOOLEAN,
                           humor : Given, web : Given, hermes : Given \cup {"card"},
                           schedules : BOOLEAN, reply : {"open", "yes", "no"}, detail : Details]
    /\ Rank \in [Keys -> Nat] /\ Cap \in [Keys -> Nat]
    \* PRIORITY_CURRENT is the highest, and no section cap is on the message.
    /\ \A key \in Keys \ {"message"} : Rank[key] < Rank["message"]
    /\ Cap["message"] = 0

Sources == {"web", "hermes", "schedule", "pinned"}

VARIABLES at,         \* where the turn is
          request,    \* the turn
          plan,       \* TurnPlan
          pending,    \* sources that have not answered
          found,      \* sources that brought something
          lookup,     \* hermes_status
          note,       \* the schedule note
          memes,      \* what of the catalog is offered
          retry,      \* false_promise_retry
          parts,      \* the prompt before the global cap
          prompt,     \* what the model reads
          submitted,  \* ghost: a hermes_ask was submitted
          applied     \* ghost: the schedule request changed the table

promptVars == <<at, request, plan, pending, found, lookup, note, memes, retry, parts,
                prompt, submitted, applied>>

PartSeqs == Seq([key : Keys, size : Nat])

NoPlan == [reply |-> "open", unclear |-> FALSE, humor |-> FALSE, web |-> FALSE,
           asks |-> FALSE, card |-> FALSE, schedules |-> FALSE, detail |-> "normal"]

PromptTypeOK ==
    /\ at \in {"plan", "gather", "memes", "build", "fit", "ready"}
    /\ request \in Asked
    /\ plan \in [reply : {"open", "yes", "no"}, detail : Details,
                 unclear : BOOLEAN, humor : BOOLEAN, web : BOOLEAN, asks : BOOLEAN,
                 card : BOOLEAN, schedules : BOOLEAN]
    /\ pending \subseteq Sources /\ found \subseteq {"web", "pinned"}
    /\ lookup \in {"none", "answered", "asked", "deferred", "offline"}
    /\ note \in {"none", "done", "refused", "error"}
    /\ memes \in {"none", "match", "menu"}
    /\ {retry, submitted, applied} \subseteq BOOLEAN
    /\ parts \in PartSeqs /\ prompt \in PartSeqs

PromptInit ==
    /\ at = "plan"
    /\ request \in Asked
    /\ plan = NoPlan
    /\ pending = Sources /\ found = {}
    /\ lookup = "none" /\ note = "none" /\ memes = "none"
    /\ retry = FALSE /\ submitted = FALSE /\ applied = FALSE
    /\ parts = <<>> /\ prompt = <<>>

-----------------------------------------------------------------------------
(* The plan *)

\* A flag without its query drops, but a web search falls back to search_query.
SearchPlan(p) ==
    [reply |-> IF p.schedules THEN "yes" ELSE p.reply,
     unclear |-> FALSE,
     humor |-> p.humor = "query",
     web |-> p.web = "query" \/ (p.web = "bare" /\ p.search),
     asks |-> p.hermes # "no" /\ p.hermes # "bare",
     card |-> p.hermes = "card",
     schedules |-> p.schedules,
     detail |-> p.detail]

SkipPlan(p) == [NoPlan EXCEPT !.reply = "no", !.detail = p.detail]
ClarificationPlan(p) == [NoPlan EXCEPT !.reply = "yes", !.unclear = TRUE, !.detail = p.detail]

Parsed(p) ==
    CASE p.skip               -> SkipPlan(p)
      [] ~p.skip /\ p.unclear -> ClarificationPlan(p)
      [] OTHER                -> SearchPlan(p)

\* apply_detail: what the message says outright wins, save in a clarification.
Detected(other) == IF request.wants # "normal" THEN request.wants ELSE other

WithDetail(q) == [q EXCEPT !.detail = IF q.unclear THEN "normal" ELSE Detected(@)]

\* apply_proxy_card_lookup: the forced query is the head of the message, so
\* that a card named past the limit of a query is cut off.
WithCard(q) ==
    IF ~request.proxy \/ request.card = "none" \/ (q.asks /\ q.card) THEN q
    ELSE [q EXCEPT !.asks = TRUE, !.card = request.card = "early"]

\* A planner that fails or is switched off leaves the fallback plan.
Planned == {Parsed(p) : p \in Payloads} \cup {NoPlan}

MakePlan ==
    /\ at = "plan"
    /\ \E q \in Planned : plan' = WithCard(WithDetail(q))
    /\ at' = "gather"
    /\ UNCHANGED <<request, pending, found, lookup, note, memes, retry, parts, prompt,
                   submitted, applied>>

-----------------------------------------------------------------------------
(* The sources, side by side; each fails open *)

Returns(source) ==
    /\ at = "gather" /\ source \in pending
    /\ pending' = pending \ {source}
    /\ at' = IF pending' = {} THEN "memes" ELSE at
    /\ UNCHANGED <<request, plan, memes, retry, parts, prompt>>

SearchWeb ==
    /\ Returns("web")
    /\ \/ plan.web /\ found' = found \cup {"web"}
       \/ UNCHANGED found
    /\ UNCHANGED <<lookup, note, submitted, applied>>

Pin ==
    /\ Returns("pinned")
    /\ \/ found' = found \cup {"pinned"}
       \/ UNCHANGED found
    /\ UNCHANGED <<lookup, note, submitted, applied>>

\* A result posted lately, a machine that is off or any error queues nothing;
\* another agent gets the late answer alone.
AskHermes ==
    /\ Returns("hermes")
    /\ IF request.telegram /\ plan.asks
       THEN \/ lookup' \in {"answered", "offline"} /\ UNCHANGED submitted
            \/ lookup' = (IF request.bot THEN "deferred" ELSE "asked") /\ submitted' = TRUE
       ELSE UNCHANGED <<lookup, submitted>>
    /\ UNCHANGED <<found, note, applied>>

\* A store that breaks after its commit leaves the change and the error note.
ApplySchedule ==
    /\ Returns("schedule")
    /\ IF request.telegram /\ plan.schedules
       THEN \/ note' = "done" /\ applied' = TRUE
            \/ note' = "refused" /\ UNCHANGED applied
            \/ note' = "error" /\ applied' \in BOOLEAN
       ELSE UNCHANGED <<note, applied>>
    /\ UNCHANGED <<found, lookup, submitted>>

\* A keyword offers its meme, otherwise the menu is offered; the decider
\* (ReplyPace) may refuse either.
Offers == IF plan.humor THEN {"none", "match", "menu"} ELSE {"none"}

OfferMemes ==
    /\ at = "memes"
    /\ at' = "build"
    /\ memes' \in Offers
    /\ UNCHANGED <<request, plan, pending, found, lookup, note, retry, parts, prompt,
                   submitted, applied>>

-----------------------------------------------------------------------------
(* The parts *)

When(condition, keys) == IF condition THEN keys ELSE {}

IdentityParts == {"identity", "aliases"}
ProxyParts == When(request.proxy \/ request.dm, {"proxy"})
ToneParts ==
    When(plan.unclear, {"clarify"}) \cup When(~plan.unclear, {"tone"})
        \cup When(request.cold, {"attitude"})
        \cup When(plan.detail # "normal" /\ ~request.cold, {"detail"})
OwnerParts == When(request.images, {"vision"}) \cup When(request.owner, {"owner"})
KnowledgeParts == {"history"} \cup When("pinned" \in found, {"knowledge"})
SceneParts == When(request.scene, {"scene", "sceneRule"})
WebParts == When("web" \in found, {"web", "webRule"})
HermesParts ==
    When(lookup \in {"asked", "offline", "answered"}, {lookup})
        \cup When(lookup \in {"none", "deferred"}, {"nothingAsked"})
        \cup When(retry, {"retry"})
ScheduleParts == When(note # "none", {"schedule"})
MemeParts ==
    When(request.telegram /\ memes = "match", {"memes"})
        \cup When(request.telegram /\ memes = "menu", {"menu"})
\* ctx.humor_quotes: no stage of this commit fills it, the builder still takes it.
HumorParts == When(request.quotes, {"humor"})
MetricsParts == When(request.known, {"metrics"})
SessionParts == {"session"} \cup When(request.paused, {"earlier"})
AlbumParts ==
    When(request.telegram /\ request.album, {"album", "albumRule"})
        \cup When(request.telegram /\ request.album /\ request.photo, {"albumMust"})
        \cup When(request.telegram /\ request.photo /\ ~request.album, {"noPhotos"})
MessageParts == {"message", "task"}

Told ==
    UNION {IdentityParts, ProxyParts, ToneParts, OwnerParts, KnowledgeParts, SceneParts,
           WebParts, HermesParts, ScheduleParts, HumorParts, MemeParts, MetricsParts,
           SessionParts, AlbumParts, MessageParts}

Length(key) == IF key \in request.long THEN Long ELSE 1

\* truncate_body: at a sentence end in the second half, or at the limit.
Truncated(n, limit, early) ==
    IF limit = 0 \/ n <= limit THEN n
    ELSE IF early THEN Min({limit, limit \div 2 + 1}) ELSE limit

\* The parts with the cap of their section applied.
Build ==
    /\ at = "build"
    /\ at' = "fit"
    /\ \E early \in BOOLEAN :
          LET keys == Told
              told == Select(Layout, LAMBDA key : key \in keys)
          IN  parts' = [i \in DOMAIN told |->
                           [key |-> told[i],
                            size |-> Truncated(Length(told[i]), Cap[told[i]], early)]]
    /\ UNCHANGED <<request, plan, pending, found, lookup, note, memes, retry, prompt,
                   submitted, applied>>

\* The characters at some places of a prompt.
Chars(seq, places) == Cardinality(UNION {{i} \X (1 .. seq[i].size) : i \in places})
Total(seq) == Chars(seq, DOMAIN seq)

\* build_user_prompt joins the parts with an empty line, after the budget.
Gap == 2
Sent(seq) == Total(seq) + Gap * (Len(seq) - 1)

\* sorted() is stable: of equal priorities the one written first comes first.
Outranks(i, j) ==
    LET ranks == <<Rank[parts[i].key], Rank[parts[j].key]>>
    IN  ranks[1] > ranks[2] \/ (ranks[1] = ranks[2] /\ i < j)

\* Mutant: the cap is handed out in the order of the prompt.
KeptInOrder(i) ==
    LET left == MaxChars - Chars(parts, 1 .. i - 1)
    IN  IF left <= 0 THEN 0 ELSE Min({left, parts[i].size})

\* _allocate_keep: a part gets what those of a higher rank leave.
Kept(i) ==
    LET left == MaxChars - Chars(parts, {j \in DOMAIN parts : Outranks(j, i)})
    IN  IF left <= 0 THEN 0 ELSE Min({left, parts[i].size})

\* Within the cap nothing is lost; otherwise what gets nothing is dropped.
\* The cap is on the sum of the parts: what joins them is not counted.
Fit ==
    /\ at = "fit"
    /\ at' = "ready"
    /\ \E early \in BOOLEAN :
          LET cut == [i \in DOMAIN parts |->
                         [parts[i] EXCEPT !.size =
                             IF Kept(i) = 0 THEN 0 ELSE Truncated(@, Kept(i), early)]]
          IN  prompt' = IF MaxChars = 0 \/ Total(parts) <= MaxChars THEN parts
                        ELSE Select(cut, LAMBDA p : p.size > 0)
    /\ UNCHANGED <<request, plan, pending, found, lookup, note, memes, retry, parts,
                   submitted, applied>>

\* without_false_promise: the same parts and a strict note, once.
Regenerate ==
    /\ at = "ready"
    /\ ~retry /\ lookup # "asked"
    /\ retry' = TRUE
    /\ at' = "build"
    /\ UNCHANGED <<request, plan, pending, found, lookup, note, memes, parts, prompt,
                   submitted, applied>>

PromptNext ==
    \/ MakePlan
    \/ SearchWeb \/ Pin \/ AskHermes \/ ApplySchedule
    \/ OfferMemes \/ Build \/ Fit \/ Regenerate

PromptSpec == PromptInit /\ [][PromptNext]_promptVars

-----------------------------------------------------------------------------
Shown(seq) == {seq[i].key : i \in DOMAIN seq}
SizeIn(seq, key) == Chars(seq, {i \in DOMAIN seq : seq[i].key = key})

\* The message that is answered is never cut for the sake of anything else.
MessageComesFirst ==
    /\ "message" \in Shown(prompt)
    /\ MaxChars = 0 \/ Length("message") <= MaxChars =>
          SizeIn(prompt, "message") = Length("message")

\* What is lost is lost from the bottom: of two parts the lower one is only
\* there when the higher one is whole.
CutsFollowRank ==
    LET shown == Shown(prompt)
    IN  \A i \in DOMAIN parts :
            SizeIn(prompt, parts[i].key) < parts[i].size =>
                \A j \in DOMAIN parts : Outranks(i, j) => parts[j].key \notin shown

\* The text that is sent is within the cap but for what joins its parts, and
\* keeps their order.
FitsInOrder ==
    LET shown == Shown(prompt)
    IN  /\ MaxChars > 0 => Sent(prompt) <= MaxChars + Gap * (Len(prompt) - 1)
        /\ [i \in DOMAIN prompt |-> prompt[i].key]
              = Select(Layout, LAMBDA key : key \in shown)

\* Of what is sent: she is told of at most one state of the work lookup, and of
\* exactly one unless the cap cut it; that a result comes later only when one
\* was queued and hers is not the only answer; that a post is scheduled or
\* cancelled only when it is; and never, strictly, that nothing was asked when
\* something was.
LookupNotes == {"asked", "offline", "answered", "nothingAsked"}

NotesAreTrue ==
    LET shown == Shown(prompt)
    IN  /\ Cardinality(shown \cap LookupNotes) <= 1
        /\ shown \cap LookupNotes = {} => MaxChars > 0 /\ Total(parts) > MaxChars
        /\ "asked" \in shown => submitted /\ ~request.bot
        /\ submitted /\ ~request.bot => shown \cap (LookupNotes \cup {"retry"}) \subseteq {"asked"}
        /\ "schedule" \in shown /\ note = "done" => applied

\* Compose: a prompt that is handed to the model keeps the message, loses the
\* lowest ranked parts first and says what Retrieve did (budget.py,
\* prompt_builder.py, retrieve_hermes.py).
PromptHolds ==
    at = "ready" => MessageComesFirst /\ CutsFollowRank /\ FitsInOrder /\ NotesAreTrue

\* "The real configured global cap (compose/generation.yaml) is never exceeded"
\* (tests/pipeline/llm/test_prompt_budget.py:110-113, of the text that is sent).
PromptIsCapped == at = "ready" /\ MaxChars > 0 => Sent(prompt) <= MaxChars

\* "so a card id in a proxy question guarantees the lookup and keeps the id"
\* (vanessa/pipeline/proxy/card_ping.py:6-7).
CardIdIsKept ==
    at # "plan" /\ request.proxy /\ request.card # "none" => plan.asks /\ plan.card
===============================================================================
