------------------------------ MODULE MCReplies ------------------------------
(* Components of the reply that share no state, each explored on its own:  *)
(* `part' says which of them a behaviour is about, the others stay as they *)
(* begin.                                                                  *)
EXTENDS ReplyLimits, Breaker, Compose, MediaGroups, BotUpdates

CONSTANTS b1, b2, p1, p2, p3, p4, q1, a1, a2, h1

VARIABLE part

(* An album of four photos, of which three fill an entry, and one of a     *)
(* single photo.                                                           *)
MCPhotos == {p1, p2, p3, p4, q1}
MCAlbums == {a1, a2}
MCAlbum == [p \in MCPhotos |-> IF p = q1 THEN a2 ELSE a1]

MCTurn == [bot |-> FALSE, owner |-> FALSE, proxy |-> FALSE, direct |-> TRUE,
           repeat |-> FALSE, asked |-> FALSE, album |-> TRUE, splits |-> TRUE,
           extras |-> TRUE]
MCTurns == {MCTurn,
            [MCTurn EXCEPT !.bot = TRUE, !.direct = FALSE, !.proxy = TRUE, !.extras = FALSE],
            [MCTurn EXCEPT !.owner = TRUE, !.splits = FALSE, !.repeat = TRUE],
            [MCTurn EXCEPT !.owner = TRUE, !.asked = TRUE, !.album = FALSE]}

UpTo(n, kinds) == UNION {[1..k -> kinds] : k \in 0..n}
MCOutputs ==
    LET bodies == UpTo(4, {"text", "fence", "next", "cut", "sticker"})
                  \cup UpTo(3, {"text", "fence", "dm", "send", "photo"})
                  \cup UpTo(3, {"text", "reaction", "stray", "open", "close", "answer", "ignore"})
    IN  {<<"answer">> \o b : b \in bodies}
        \cup {<<"text", "answer">> \o b : b \in UpTo(3, {"text", "answer", "fence"})}
        \cup UpTo(3, {"text", "answer", "fence", "ignore", "open", "close"})
        \cup {<<"fence", "answer", "fence", "answer", "text">>, <<"answer", "promise">>,
              <<"answer", "promise", "sticker">>,
              <<"answer", "fence", "promise", "fence", "text">>}
        \cup {<<"answer", "fence", "text", "fence", "cut">> \o b :
                  b \in UpTo(4, {"text", "fence", "next", "cut"})}

MCUpdate == [kind |-> "text", sender |-> "member", chat |-> "group", to |-> {"name"},
             words |-> TRUE, asks |-> {}]
MCUpdates ==
    (h1 :> {MCUpdate,
            [MCUpdate EXCEPT !.sender = "owner", !.asks = {"voice"}],
            [MCUpdate EXCEPT !.sender = "bot"],
            [MCUpdate EXCEPT !.asks = {"sticker"}],
            [MCUpdate EXCEPT !.chat = "private"],
            [MCUpdate EXCEPT !.chat = "private", !.sender = "owner"],
            [MCUpdate EXCEPT !.kind = "photo", !.to = {"name", "reply"}],
            [MCUpdate EXCEPT !.kind = "photo", !.words = FALSE],
            [MCUpdate EXCEPT !.kind = "sticker", !.words = FALSE],
            [MCUpdate EXCEPT !.kind = "voice", !.words = FALSE, !.to = {}],
            [MCUpdate EXCEPT !.kind = "gif", !.chat = "other"],
            [MCUpdate EXCEPT !.kind = "note"],
            [MCUpdate EXCEPT !.kind = "note", !.chat = "private", !.sender = "owner"],
            [MCUpdate EXCEPT !.kind = "start", !.sender = "owner"],
            [MCUpdate EXCEPT !.kind = "reaction"]})
MCAnswer == [NoAnswer EXCEPT !.replies = TRUE, !.blocks = <<"one">>]
MCAnswers ==
    (h1 :> {NoAnswer,
            [MCAnswer EXCEPT !.blocks = <<"one", "two">>, !.photo = "stored"],
            [MCAnswer EXCEPT !.blocks = <<"one", "two", "three">>, !.reaction = TRUE],
            [MCAnswer EXCEPT !.tag = "only"],
            [MCAnswer EXCEPT !.tag = "only", !.outbound = "other"],
            [MCAnswer EXCEPT !.outbound = "other", !.photo = "id", !.reaction = TRUE,
                             !.blocks = <<"one", "two", "three">>],
            [MCAnswer EXCEPT !.dm = TRUE, !.tag = "tag"],
            [MCAnswer EXCEPT !.dm = TRUE, !.blocks = <<>>],
            [MCAnswer EXCEPT !.reaction = TRUE, !.blocks = <<>>]})

MCInit ==
    /\ part \in {"budget", "pace", "breaker", "compose", "albums", "bot"}
    /\ PeerInit /\ PaceInit /\ BreakerInit /\ ComposeInit /\ Init /\ BotInit
    /\ part # "compose" => turn = MCTurn
    /\ part # "bot" => known = {} /\ \A c \in Chats : since[c] = MinBetween

MCNext ==
    /\ part' = part
    /\ \/ part = "budget" /\ PeerNext
          /\ UNCHANGED <<paceVars, breakerVars, composeVars, vars, botVars>>
       \/ part = "pace" /\ PaceNext
          /\ UNCHANGED <<peerVars, breakerVars, composeVars, vars, botVars>>
       \/ part = "breaker" /\ BreakerNext
          /\ UNCHANGED <<peerVars, paceVars, composeVars, vars, botVars>>
       \/ part = "compose" /\ ComposeNext
          /\ UNCHANGED <<peerVars, paceVars, breakerVars, vars, botVars>>
       \/ part = "albums" /\ Next
          /\ UNCHANGED <<peerVars, paceVars, breakerVars, composeVars, botVars>>
       \/ part = "bot" /\ BotNext
          /\ UNCHANGED <<peerVars, paceVars, breakerVars, composeVars, vars>>

MCFairness ==
    /\ \A t \in Photos :
          WF_vars(part = "albums" /\ Wake(t)) /\ WF_vars(part = "albums" /\ Flush(t))
    /\ \A e \in Photos : WF_vars(part = "albums" /\ FlushEnds(e))

MCSpec ==
    /\ MCInit
    /\ [][MCNext]_<<part, peerVars, paceVars, breakerVars, composeVars, vars, botVars>>
    /\ MCFairness
-----------------------------------------------------------------------------
(* Each part keeps its variables well typed.                               *)
RepliesTypeOK ==
    PeerTypeOK /\ PaceTypeOK /\ BreakerTypeOK /\ ComposeTypeOK /\ TypeOK /\ BotTypeOK
=============================================================================
