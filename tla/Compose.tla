------------------------------- MODULE Compose -------------------------------
(***************************************************************************)
(* The last leg of a turn: ComposeStage asks the model for a text, with    *)
(* the provider's retries, refuses it or takes its private instructions    *)
(* out, and FinalizeStage makes the messages and the row of the history.   *)
(*                                                                         *)
(* The model is external: any text of Outputs may come back, or an error.  *)
(* A turn says what the code reads of it: whether the sender is a bot or   *)
(* an owner, the turn a bot's question for the owner (proxy), a direct     *)
(* request, a repeat; whether a lookup was queued, the album has the photo *)
(* and what the channel's profile allows.                                  *)
(*                                                                         *)
(* output is the text the draft was made of; calls counts the requests     *)
(* while they go on.                                                       *)
(***************************************************************************)
EXTENDS ReplyText

CONSTANTS Turns, Outputs, MaxRetries, RefuseEnabled

ASSUME ComposeAssumption ==
    /\ MaxRetries \in Nat /\ RefuseEnabled \in BOOLEAN
    /\ \A o \in Outputs : o \in Seq(Kinds)
    /\ Turns \subseteq [bot : BOOLEAN, owner : BOOLEAN, proxy : BOOLEAN,
                        direct : BOOLEAN, repeat : BOOLEAN, asked : BOOLEAN,
                        album : BOOLEAN, splits : BOOLEAN, extras : BOOLEAN]

VARIABLES turn, phase, attempt, strict, again, draft, output, calls, result
composeVars == <<turn, phase, attempt, strict, again, draft, output, calls, result>>

Nothing == [messages |-> {}, row |-> {}, sticker |-> FALSE, reaction |-> FALSE,
            photo |-> FALSE, dm |-> FALSE, send |-> FALSE]

(* The model is asked no more often than the retries allow, strict         *)
(* requests and the second generation included.                            *)
CallsAreBounded ==
    phase = "calling" => calls < (IF again THEN 4 ELSE 2) * (MaxRetries + 1)

ComposeTypeOK ==
    /\ turn \in Turns
    /\ phase \in {"start", "calling", "composed", "refused", "failed", "done"}
    /\ attempt \in 0..MaxRetries /\ strict \in BOOLEAN /\ again \in BOOLEAN
    /\ IsText(draft) /\ IsText(output)
    /\ calls \in Nat /\ CallsAreBounded
    /\ \A m \in result.messages : IsText(m)
    /\ IsText(result.row)

ComposeInit ==
    /\ turn \in Turns /\ phase = "start"
    /\ attempt = 0 /\ strict = FALSE /\ again = FALSE
    /\ draft = {} /\ output = {} /\ calls = 0 /\ result = Nothing
-----------------------------------------------------------------------------
(* A repeat is refused before the model is asked.                          *)
Begin ==
    /\ phase = "start"
    /\ phase' = IF RefuseEnabled /\ turn.repeat THEN "refused" ELSE "calling"
    /\ UNCHANGED <<turn, attempt, strict, again, draft, output, calls, result>>

(* What the generation counted is gone with it.                            *)
Generated == attempt' = 0 /\ strict' = FALSE /\ again' = FALSE /\ calls' = 0

(* The marker counts if the album has the photo.                           *)
PhotoOf(visible) == turn.album /\ Marked(visible, "photo")

(* The rest of ComposeStage.run once there is a reply: refused when it     *)
(* asks for silence or is empty, or else rid of its instructions.          *)
Settle(reply, text) ==
    Generated /\
    IF RefuseEnabled /\ (HasIgnore(reply) \/ reply = {})
    THEN phase' = "refused" /\ draft' = {} /\ output' = text /\ UNCHANGED result
    ELSE LET visible == WithoutAnywhere(reply, {"send", "dm"})
         IN  /\ phase' = "composed" /\ output' = text
             /\ draft' = Without(visible, {"photo"})
             /\ result' = [result EXCEPT
                    !.send  = Instructed(reply, "send", turn.owner),
                    !.dm    = Instructed(reply, "dm", turn.proxy),
                    !.photo = PhotoOf(visible)]

(* The fixed line for a direct request without a tagged answer.            *)
FallbackLine == { [kind |-> "text", at |-> 0] }

Untagged ==
    IF turn.direct THEN Settle(FallbackLine, {})
    ELSE phase' = "refused" /\ draft' = {} /\ output' = {} /\ Generated /\ UNCHANGED result

(* request_tagged: untagged text is asked for once more, strictly; if that *)
(* fails, too, the text is not used.  A promise that nothing backs is      *)
(* generated anew once, and kept when that fails.                          *)
Respond(o) ==
    LET text == Numbered(o)
        reply == SplitReply(text)
    IN  /\ phase = "calling"
        /\ IF IsUntagged(text) /\ ~strict
           THEN /\ strict' = TRUE /\ calls' = calls + 1
                /\ UNCHANGED <<phase, attempt, again, draft, output, result>>
           ELSE IF IsUntagged(text)
           THEN IF again THEN Settle(draft, output) ELSE Untagged
           ELSE IF PromisesLater(reply) /\ ~turn.asked /\ ~again
           THEN /\ again' = TRUE /\ draft' = reply /\ output' = text
                /\ attempt' = 0 /\ strict' = FALSE /\ calls' = calls + 1
                /\ UNCHANGED <<phase, result>>
           ELSE Settle(reply, text)
        /\ UNCHANGED turn

(* An error of the provider: retried with the whole attempt, or the turn   *)
(* fails; the second generation never fails the turn.                      *)
GiveUpCalling ==
    IF again THEN Settle(draft, output)
    ELSE phase' = "failed" /\ Generated /\ UNCHANGED <<draft, output, result>>

Retry ==
    /\ attempt' = attempt + 1 /\ strict' = FALSE /\ calls' = calls + 1
    /\ UNCHANGED <<phase, again, draft, output, result>>

CallFails(retryable) ==
    /\ phase = "calling"
    /\ IF retryable /\ attempt < MaxRetries THEN Retry ELSE GiveUpCalling
    /\ UNCHANGED turn

(* FinalizeStage.run.                                                      *)
Deliver ==
    LET noSticker == Without(draft, {"sticker"})
        noReaction == Without(noSticker, {"reaction"})
        clean == Without(Without(noReaction, Control), {"stray"})
    IN  /\ phase = "composed" /\ phase' = "done"
        /\ draft' = StripBlockMarkers(clean)
        /\ result' = [result EXCEPT
               !.messages = DeliveryMessages(clean, turn.splits, turn.bot),
               !.row      = StripBlockMarkers(clean),
               !.sticker  = turn.extras /\ Marked(draft, "sticker"),
               !.reaction = turn.extras /\ Marked(noSticker, "reaction"),
               !.photo    = turn.extras /\ @]
        /\ UNCHANGED <<turn, attempt, strict, again, output, calls>>

ComposeNext ==
    \/ Begin \/ Deliver
    \/ \E o \in Outputs : Respond(o)
    \/ \E retryable \in BOOLEAN : CallFails(retryable)

ComposeSpec == ComposeInit /\ [][ComposeNext]_composeVars
-----------------------------------------------------------------------------
InChat == UNION result.messages

(* Nothing that was written before the answer, and no other instruction,   *)
(* reaches the chat or the history, whatever the retries brought.          *)
(* (tagged_reply.py; compose_refuse.py)                                    *)
ReasoningStaysInside ==
    phase = "done" =>
        \A t \in AnswerTags(output) : \A x \in InChat \cup result.row : t.at < x.at

(* What the code says and does not keep: a marker of [next] never reaches  *)
(* the chat, unless it is quoted in the answer's code.                     *)
(* (_sanitize_delivered of message_blocks.py)                              *)
MarkersStayInside ==
    \A x \in InChat : x.kind \in Markers => x \in Code(SplitReply(output))

(* No control marker reaches the chat or the history unless it is quoted   *)
(* in the answer's code, and a private instruction not even there.  Only   *)
(* where a block of code was cut, _sanitize_delivered takes prose for code *)
(* and a [next] may stay.                                                  *)
NoControlInChat ==
    /\ \A x \in InChat \cup result.row :
          /\ x.kind \notin {"dm", "send"}
          /\ x.kind \notin {"text", "promise", "fence"} \cup Markers
             => x \in Code(SplitReply(output))
    /\ \A x \in result.row : x.kind \in Markers => x \in Code(SplitReply(output))
    /\ CodeIsCut(SplitReply(output)) \/ MarkersStayInside

(* The messages together are the answer: every line of words once, no      *)
(* message begun before the one before it has ended, and the history has   *)
(* the same.  A bot gets the beginning.  (message_blocks.py)               *)
Words(lines) == {x \in lines : x.kind \in {"text", "promise", "fence"}}
Before(a, b) == \A x \in a, y \in b : x.at < y.at
Said == IF output = {} THEN FallbackLine ELSE SplitReply(output)
AnswerArrivesWhole ==
    phase = "done" =>
        /\ Words(result.row) = Words(Said)
        /\ Words(InChat) \subseteq Words(Said)
        /\ IF turn.bot THEN Before(Words(InChat), Words(Said) \ InChat)
           ELSE Words(Said) \subseteq InChat
        /\ \A a, b \in result.messages : a = b \/ Before(a, b) \/ Before(b, a)

(* What the code says and does not keep: a message may be longer than the  *)
(* limit, because code sticks to the block before it.                      *)
BlocksAreCapped == \A m \in result.messages : Cardinality(m) <= MaxChars

(* What the code says and does not keep: an answer of nothing but a marker *)
(* or an instruction is recorded as an empty row.                          *)
RowsHaveWords == phase = "done" => result.row # {} \/ result.reaction

(* Neither her reasoning nor an instruction of hers gets out of the reply. *)
ReplyIsClean == ReasoningStaysInside /\ NoControlInChat

(* Of what the model wrote, the chat gets the answer, all of it, and       *)
(* nothing that was meant for the code.                                    *)
ComposeHolds == ReplyIsClean /\ AnswerArrivesWhole
=============================================================================
