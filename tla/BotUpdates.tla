----------------------------- MODULE BotUpdates -----------------------------
(***************************************************************************)
(* What the Telegram bot does with an update, from its arrival to the last *)
(* thing it posts for it (services/bot/handlers, services/chat_access.py,  *)
(* stickers).  aiogram handles every update in a task of its own, so the   *)
(* handlers interleave wherever they wait for Telegram or the broker.      *)
(* Between the request and its answer stands the turn that ChatTurn has;   *)
(* albums wait in the buffer that MediaGroups has.                         *)
(***************************************************************************)
EXTENDS Naturals, Sequences, FiniteSets, SequencesExt, Ordering

CONSTANTS Handlers,    \* the updates, one handler each
          Updates,     \* Updates[h]: what h may be
          Answers,     \* Answers[h]: what the agent may answer to h
          Wordings,       \* the texts that answers are made of
          Chats, Private, AllowedChat, NoChat,
          Vision,      \* vision_enabled
          SpeechMode,  \* speech_send: on_request, voice_only, voice_and_text, off
          SpeechOn,    \* speech_enabled, and a client is there
          MaxBlocks,   \* bot_max_messages
          MinBetween   \* min_messages_between of the stickers

Claims == {"sent there", "not sent there"}
Extras == {"voice", "photo", "no photo", "sticker", "reaction", "reply", "denial", "welcome",
           "noted", "not noted"}

Media == {"photo", "sticker", "gif", "voice"}
UpdateKinds == Media \cup {"text", "start", "note", "reaction"}
Update == [kind : UpdateKinds, sender : {"owner", "member", "bot"}, chat : Chats,
           to : SUBSET {"name", "reply"}, words : BOOLEAN, asks : SUBSET {"voice", "sticker"}]
Answer == [replies : BOOLEAN, blocks : Seq(Wordings), tag : {"none", "tag", "only"},
           reaction : BOOLEAN, photo : {"none", "id", "stored"}, dm : BOOLEAN,
           outbound : Chats \cup {NoChat}]
NoAnswer == [replies |-> FALSE, blocks |-> <<>>, tag |-> "none", reaction |-> FALSE,
             photo |-> "none", dm |-> FALSE, outbound |-> NoChat]

(* A block of an answer is told from the others of it.                     *)
ASSUME BotAssumption ==
    /\ Private \in Chats /\ NoChat \notin Chats /\ AllowedChat \in Chats \cup {NoChat}
    /\ Vision \in BOOLEAN /\ SpeechOn \in BOOLEAN
    /\ SpeechMode \in {"on_request", "voice_only", "voice_and_text", "off"}
    /\ Wordings \cap (Claims \cup Extras) = {}
    /\ MaxBlocks \in Nat \ {0} /\ MinBetween \in Nat \ {0}
    /\ \A h \in Handlers :
          /\ Updates[h] \subseteq Update /\ Updates[h] # {}
          /\ Answers[h] \subseteq Answer
          /\ \A a \in Answers[h] : IsInjective(a.blocks)

VARIABLES stage,       \* where the handler of the update is
          update, answer,
          speech,      \* the texts of the answer that are still to be sent
          got,         \* what the update's chat got from the handler, in order
          failed,      \* whether Telegram, the speech or the broker failed it
          arrived,     \* <<h, where>>: posted to another chat or to the owner
          reported,    \* <<h, where>>: published for the history or the worker
          remembered,  \* handlers whose question to the owner is in the store
          notes,       \* handlers whose note is in the vault
          known,       \* the chat directory in Redis
          since        \* replies of a chat since its last sticker

botVars == <<stage, update, answer, speech, got, failed, arrived, reported, remembered,
             notes, known, since>>

Ends == {"ignored", "denied", "dropped", "done", "raised"}
Stages == Ends \cup {"idle", "media", "access", "ask", "greet", "note", "cross", "dm",
                     "react", "only", "voice", "text", "photo", "extra", "sticker",
                     "fallback"}

BotTypeOK ==
    /\ stage \in [Handlers -> Stages]
    /\ \A h \in Handlers : update[h] \in Update /\ answer[h] \in Answer
    /\ \A h \in Handlers : speech[h] \in Seq(Wordings \cup Claims)
    /\ \A h \in Handlers : got[h] \in Seq(Wordings \cup Claims \cup Extras)
    /\ \A h \in Handlers : Len(got[h]) <= MaxBlocks + 6
    /\ failed \in [Handlers -> BOOLEAN]
    /\ arrived \subseteq Handlers \X {"target", "owner"}
    /\ reported \subseteq Handlers \X {"target", "owner", "reaction"}
    /\ remembered \subseteq Handlers /\ notes \subseteq Handlers /\ known \subseteq Chats
    /\ since \in [Chats -> 0..MinBetween]

BotInit ==
    /\ stage = [h \in Handlers |-> "idle"]
    /\ update = [h \in Handlers |-> CHOOSE u \in Updates[h] : TRUE]
    /\ answer = [h \in Handlers |-> NoAnswer]
    /\ speech = [h \in Handlers |-> <<>>] /\ got = [h \in Handlers |-> <<>>]
    /\ failed = [h \in Handlers |-> FALSE]
    /\ arrived = {} /\ reported = {} /\ remembered = {} /\ notes = {}
    \* What earlier updates left: a chat begins with MinBetween, so that its
    \* first reply may carry a sticker.
    /\ known \in {{}, Chats \ {Private}}
    /\ \E n \in 0..MinBetween : since = [c \in Chats |-> n]

Chat(h) == update[h].chat
Asks(h, what) == what \in update[h].asks

Goto(h, s) == stage' = [stage EXCEPT ![h] = s]
-----------------------------------------------------------------------------
(* A call of Telegram is accepted, refused as a bad request, lost on the   *)
(* way, or accepted without the bot hearing so.                            *)
Outcomes == {"ok", "refused", "lost", "unheard"}
Arrives(o) == o \in {"ok", "unheard"}

(* Only a refusal is answered by a second try, as plain text: what may     *)
(* have arrived is not sent again.                                         *)
SentOnAnyFailure(html, plain) ==
    [ok |-> "ok" \in {html, plain},
     copies |-> (IF Arrives(html) THEN 1 ELSE 0)
                + (IF html # "ok" /\ Arrives(plain) THEN 1 ELSE 0)]

Sent(html, plain) ==
    LET last == IF html = "refused" THEN plain ELSE html
    IN  [ok |-> last = "ok", copies |-> IF Arrives(last) THEN 1 ELSE 0]

Texts == {Sent(html, plain) : html \in Outcomes, plain \in Outcomes}

(* The chat gets the copies of an item; a failure is remembered.           *)
Get(h, item, copies, ok) ==
    /\ got' = [got EXCEPT ![h] = @ \o [i \in 1..copies |-> item]]
    /\ failed' = [failed EXCEPT ![h] = @ \/ ~ok]
GetNothing == UNCHANGED <<got, failed>>

(* Answer plainly, in one call that nobody catches: a failure ends it all. *)
SayPlainly(h, item, next) ==
    \E o \in Outcomes :
        /\ Get(h, item, IF Arrives(o) THEN 1 ELSE 0, o = "ok")
        /\ Goto(h, IF o = "ok" THEN next ELSE "raised")

elsewhere == <<arrived, reported, remembered>>
-----------------------------------------------------------------------------
(* The routers: what each kind of update goes to.                          *)
Route(h) ==
    /\ stage[h] = "idle"
    /\ \E u \in Updates[h] :
          /\ update' = [update EXCEPT ![h] = u]
          /\ Goto(h, CASE u.kind \in Media -> "media"
                       [] u.kind = "note" -> "note"
                       [] OTHER -> "access")
    /\ UNCHANGED <<answer, speech, got, failed, elsewhere, notes, known, since>>

(* What is looked at or listened to becomes words: a photo or the frame of *)
(* a sticker is downloaded, a voice note transcribed.  A photo or a GIF    *)
(* that cannot be seen still has its caption.                              *)
PhotoUsable(h, fetched) == (Vision /\ fetched) \/ update[h].words
GifUsable(h, fetched) == (Vision /\ fetched) \/ update[h].words
StickerUsable(fetched) == Vision /\ fetched
VoiceUsable(fetched) == fetched

Usable(h, fetched) ==
    CASE update[h].kind = "photo" -> PhotoUsable(h, fetched)
      [] update[h].kind = "gif" -> GifUsable(h, fetched)
      [] update[h].kind = "sticker" -> StickerUsable(fetched)
      [] update[h].kind = "voice" -> VoiceUsable(fetched)

Look(h) ==
    /\ stage[h] = "media"
    /\ \E fetched \in BOOLEAN :
          Goto(h, IF Usable(h, fetched) THEN "access" ELSE "dropped")
    /\ UNCHANGED <<update, answer, speech, got, failed, elsewhere, notes, known, since>>

(* A private chat is the owner's; a group must be the allowed one, with an *)
(* owner as an active member, which Telegram is asked each time.           *)
MayTalk(h, ownerThere) ==
    IF Chat(h) = Private THEN update[h].sender = "owner"
    ELSE AllowedChat \in {NoChat, Chat(h)} /\ ownerThere

(* She is named in the text of a message, never in a caption.              *)
MentionsHer(h) == update[h].kind \notin Media /\ "name" \in update[h].to
RepliesToHer(h) == "reply" \in update[h].to

(* A denial is no answer to a bot, and none to a message of a group that   *)
(* does not address her.                                                   *)
DeniesAloud(h) ==
    /\ update[h].sender # "bot"
    /\ Chat(h) = Private \/ MentionsHer(h) \/ RepliesToHer(h)

Access(h) ==
    /\ stage[h] = "access" /\ update[h].kind # "reaction"
    /\ \E ownerThere \in BOOLEAN :
          IF MayTalk(h, ownerThere)
          THEN Goto(h, IF update[h].kind = "start" THEN "greet" ELSE "ask") /\ GetNothing
          ELSE IF DeniesAloud(h) THEN SayPlainly(h, "denial", "denied")
          ELSE Goto(h, "denied") /\ GetNothing
    /\ UNCHANGED <<update, answer, speech, elsewhere, notes, known, since>>

(* The membership of the owner could not be asked for.                     *)
AccessFails(h) ==
    /\ stage[h] = "access" /\ update[h].kind # "reaction" /\ Chat(h) # Private
    /\ AllowedChat \in {NoChat, Chat(h)}
    /\ Goto(h, "raised") /\ failed' = [failed EXCEPT ![h] = TRUE]
    /\ UNCHANGED <<update, answer, speech, got, elsewhere, notes, known, since>>

(* A reaction in a chat where the bot may work becomes a task.             *)
Tell(h) ==
    /\ stage[h] = "access" /\ update[h].kind = "reaction"
    /\ IF AllowedChat \in {NoChat, Chat(h)} /\ update[h].words
       THEN \E lost \in BOOLEAN :
               reported' = IF lost THEN reported ELSE reported \cup {<<h, "reaction">>}
       ELSE UNCHANGED reported
    /\ Goto(h, "done")
    /\ UNCHANGED <<update, answer, speech, got, failed, arrived, remembered, notes, known,
                   since>>
-----------------------------------------------------------------------------
(* BrokerTurnClient.process: the chat enters the directory, the request is *)
(* answered, and the answer keeps what this message may ask for.           *)
Allowed(h, a, directory) ==
    [a EXCEPT !.outbound = IF @ # Chat(h) /\ @ \in directory THEN @ ELSE NoChat,
              !.dm = @ /\ update[h].sender = "bot" /\ Chat(h) # Private]

ShouldIgnore(a) ==
    \/ ~a.replies
    \/ ~a.dm /\ a.blocks = <<>> /\ a.tag = "none" /\ ~a.reaction

(* The directory of the groups that she has heard from.                    *)
Directory(h) == known \cup ({Chat(h)} \ {Private})

Ask(h) ==
    /\ stage[h] = "ask"
    /\ known' = Directory(h)
    /\ \E a \in Answers[h] :
          LET mine == Allowed(h, a, known')
          IN  /\ answer' = [answer EXCEPT ![h] = mine]
              /\ speech' = [speech EXCEPT ![h] = a.blocks]
              /\ Goto(h, IF ShouldIgnore(mine) THEN "ignored" ELSE "cross")
    /\ UNCHANGED <<update, got, failed, elsewhere, notes, since>>

(* No answer came in time, or the broker could not be reached.             *)
AskFails(h) ==
    /\ stage[h] = "ask"
    /\ known' \in {known, Directory(h)}
    /\ Goto(h, "raised") /\ failed' = [failed EXCEPT ![h] = TRUE]
    /\ UNCHANGED <<update, answer, speech, got, elsewhere, notes, since>>

(* What was posted elsewhere is told to the history, if the broker takes   *)
(* it.                                                                     *)
Report(h, where, ok) ==
    \E lost \in BOOLEAN :
        reported' = IF ok /\ ~lost THEN reported \cup {<<h, where>>} ELSE reported

(* A message for another chat: the owner asked, and the target is a group  *)
(* with the owner where she may write.  Her reply says how it went.        *)
CrossPost(h) ==
    /\ \E available \in BOOLEAN, sent \in Texts :
          LET tried == update[h].sender = "owner" /\ available
          IN  /\ arrived' = IF tried /\ sent.copies > 0 THEN arrived \cup {<<h, "target">>}
                                                        ELSE arrived
              /\ Report(h, "target", tried /\ sent.ok)
              /\ speech' = [speech EXCEPT ![h] =
                              IF tried /\ sent.ok THEN <<"sent there">>
                                                  ELSE <<"not sent there">>]

Cross(h) ==
    /\ stage[h] = "cross"
    /\ IF answer[h].outbound # NoChat THEN CrossPost(h)
                                      ELSE UNCHANGED <<arrived, reported, speech>>
    /\ Goto(h, "dm")
    /\ UNCHANGED <<update, answer, got, failed, remembered, notes, known, since>>

(* A question to the owner in his private chat; when it went out, what it  *)
(* was about is remembered for his answer.                                 *)
Dm(h) ==
    /\ stage[h] = "dm"
    /\ IF answer[h].dm
       THEN \E sent \in Texts, saved \in BOOLEAN :
               /\ arrived' = IF sent.copies > 0 THEN arrived \cup {<<h, "owner">>} ELSE arrived
               /\ remembered' = IF sent.ok /\ saved THEN remembered \cup {h} ELSE remembered
               /\ Report(h, "owner", sent.ok)
       ELSE UNCHANGED elsewhere
    /\ Goto(h, "react")
    /\ UNCHANGED <<update, answer, speech, got, failed, notes, known, since>>
-----------------------------------------------------------------------------
(* The reaction is set first; it may be the whole answer.                  *)
HasOtherOutput(h) == speech[h] # <<>> \/ answer[h].tag # "none" \/ answer[h].photo # "none"
AfterReaction(h) == IF answer[h].tag = "only" THEN "only" ELSE "voice"

React(h) ==
    /\ stage[h] = "react"
    /\ \/ /\ ~answer[h].reaction
          /\ Goto(h, AfterReaction(h)) /\ GetNothing
       \/ /\ answer[h].reaction
          /\ \E o \in Outcomes :
                /\ Get(h, "reaction", IF Arrives(o) THEN 1 ELSE 0, o = "ok")
                /\ Goto(h, IF o = "ok" /\ ~HasOtherOutput(h) THEN "done" ELSE AfterReaction(h))
    /\ UNCHANGED <<update, answer, speech, elsewhere, notes, known, since>>

(* A voice note, where the mode or the message calls for one.  Text is     *)
(* left out only after Telegram took the voice, and else capped.           *)
ShouldSendVoice(h) ==
    \/ SpeechMode \in {"voice_only", "voice_and_text"}
    \/ SpeechMode = "on_request" /\ (Asks(h, "voice") \/ update[h].kind = "voice")
OmitsText(sent) == sent /\ SpeechMode # "voice_and_text"
Capped(texts) == SubSeq(texts, 1, IF Len(texts) > MaxBlocks THEN MaxBlocks ELSE Len(texts))
ToText(h) == Goto(h, "text") /\ speech' = [speech EXCEPT ![h] = Capped(@)]
ToPhoto(h) == Goto(h, "photo") /\ UNCHANGED speech
Voice(h) ==
    /\ stage[h] = "voice"
    /\ \/ /\ ~(ShouldSendVoice(h) /\ SpeechOn /\ speech[h] # <<>>)
          /\ ToText(h) /\ GetNothing
       \/ /\ ShouldSendVoice(h) /\ SpeechOn /\ speech[h] # <<>>
          /\ \E made \in BOOLEAN, o \in Outcomes :
                /\ Get(h, "voice", IF made /\ Arrives(o) THEN 1 ELSE 0, made /\ o = "ok")
                /\ IF OmitsText(made /\ o = "ok") THEN ToPhoto(h) ELSE ToText(h)
    /\ UNCHANGED <<update, answer, elsewhere, notes, known, since>>

(* The texts, one message each; a failure ends them.                       *)
SendBlock(h) ==
    /\ stage[h] = "text"
    /\ IF speech[h] = <<>> THEN ToPhoto(h) /\ GetNothing
       ELSE \E sent \in Texts :
               /\ Get(h, Head(speech[h]), sent.copies, sent.ok)
               /\ speech' = [speech EXCEPT ![h] = Tail(@)]
               /\ Goto(h, IF sent.ok THEN "text" ELSE "photo")
    /\ UNCHANGED <<update, answer, elsewhere, notes, known, since>>

(* The photo by its file id, then from the stored bytes; when neither is   *)
(* heard to arrive, she says so.                                           *)
SendPhoto(h) ==
    /\ stage[h] = "photo"
    /\ \/ /\ answer[h].photo = "none" /\ Goto(h, "extra") /\ GetNothing
       \/ /\ answer[h].photo # "none"
          /\ \E byId \in Outcomes, upload \in Outcomes, sorry \in Texts :
                LET again == byId # "ok" /\ answer[h].photo = "stored"
                    lost == byId # "ok" /\ ~(again /\ upload = "ok")
                    photos == (IF Arrives(byId) THEN 1 ELSE 0)
                              + (IF again /\ Arrives(upload) THEN 1 ELSE 0)
                IN  /\ got' = [got EXCEPT ![h] =
                                 @ \o [i \in 1..photos |-> "photo"]
                                   \o [i \in 1..(IF lost THEN sorry.copies ELSE 0)
                                         |-> "no photo"]]
                    /\ failed' = [failed EXCEPT ![h] = @ \/ lost]
                    /\ Goto(h, IF lost /\ ~sorry.ok THEN "raised" ELSE "extra")
    /\ UNCHANGED <<update, answer, speech, elsewhere, notes, known, since>>
-----------------------------------------------------------------------------
(* Stickers.  The reply counts, then the decider may pick one, by a tag of *)
(* the answer or of its wording: not sooner than MinBetween replies after  *)
(* the last, and by chance.  A request is always honoured.                 *)
Candidate(h) ==
    update[h].kind = "start" \/ answer[h].tag # "none" \/ answer[h].blocks # <<>>
Forced(h) == stage[h] = "only" \/ (update[h].kind # "start" /\ Asks(h, "sticker"))
MayPick(h, replies) == Forced(h) \/ (replies >= MinBetween /\ Candidate(h))
AfterSticker(h) == IF answer[h].tag = "only" THEN "fallback" ELSE "done"

\* The count stops at MinBetween, above which nothing depends on it.
Counted(n) == IF n < MinBetween THEN n + 1 ELSE n

Decide(h) ==
    /\ stage[h] \in {"extra", "only"}
    /\ since' = [since EXCEPT ![Chat(h)] = Counted(@)]
    /\ \E pick \in BOOLEAN :
          /\ pick => MayPick(h, since'[Chat(h)])
          /\ Goto(h, IF pick THEN "sticker" ELSE AfterSticker(h))
    /\ UNCHANGED <<update, answer, speech, got, failed, elsewhere, notes, known>>

(* It counts as sent only when Telegram has taken it.                      *)
SendSticker(h) ==
    /\ stage[h] = "sticker"
    /\ \E o \in Outcomes :
          /\ Get(h, "sticker", IF Arrives(o) THEN 1 ELSE 0, o = "ok")
          /\ since' = IF o = "ok" THEN [since EXCEPT ![Chat(h)] = 0] ELSE since
          /\ Goto(h, IF o = "ok" THEN "done" ELSE AfterSticker(h))
    /\ UNCHANGED <<update, answer, speech, elsewhere, notes, known>>

(* A sticker that was to stand alone did not go out: the text instead.     *)
Fallback(h) ==
    /\ stage[h] = "fallback"
    /\ IF speech[h] = <<>> THEN Goto(h, "done") /\ GetNothing
       ELSE \E sent \in Texts :
               /\ Get(h, IF Head(speech[h]) \in Claims THEN Head(speech[h]) ELSE "reply",
                      sent.copies, sent.ok)
               /\ Goto(h, IF sent.ok THEN "done" ELSE "raised")
    /\ UNCHANGED <<update, answer, speech, elsewhere, notes, known, since>>

(* /start: the welcome, then perhaps a sticker.                            *)
Greet(h) ==
    /\ stage[h] = "greet" /\ SayPlainly(h, "welcome", "extra")
    /\ UNCHANGED <<update, answer, speech, elsewhere, notes, known, since>>

(* /note: the owner, in private, with something to note.  The worker saves *)
(* it and says so; a late answer counts as a failure.                      *)
MayNote(h) == Chat(h) = Private /\ update[h].sender = "owner"
Acknowledged(saved, heard) == saved /\ heard

Note(h) ==
    /\ stage[h] = "note"
    /\ IF MayNote(h) /\ update[h].words
       THEN \E saved \in BOOLEAN, heard \in BOOLEAN :
               /\ notes' = IF saved THEN notes \cup {h} ELSE notes
               /\ SayPlainly(h, IF Acknowledged(saved, heard) THEN "noted" ELSE "not noted", "done")
       ELSE SayPlainly(h, "denial", "denied") /\ UNCHANGED notes
    /\ UNCHANGED <<update, answer, speech, elsewhere, known, since>>

BotStep(h) ==
    \/ Route(h) \/ Look(h) \/ Access(h) \/ AccessFails(h) \/ Tell(h) \/ Ask(h) \/ AskFails(h)
    \/ Cross(h) \/ Dm(h) \/ React(h) \/ Voice(h) \/ SendBlock(h) \/ SendPhoto(h)
    \/ Decide(h) \/ SendSticker(h) \/ Fallback(h) \/ Greet(h) \/ Note(h)

BotNext == \E h \in Handlers : BotStep(h)
BotSpec == BotInit /\ [][BotNext]_botVars
-----------------------------------------------------------------------------
GotItem(h, item) == \E i \in DOMAIN got[h] : got[h][i] = item
HasWords(h) == answer[h].blocks # <<>> \/ answer[h].outbound # NoChat
Blocks(h) == Select(got[h], LAMBDA x : x \in Wordings)

(* "The chat never goes silent" (message_speech.py): an answer with words  *)
(* or with a sticker that stands alone leaves the chat with nothing only   *)
(* when a call has failed, and words are left out only for a voice note or *)
(* a sticker that arrived.                                                 *)
NeverSilent ==
    \A h \in Handlers :
        stage[h] = "done" /\ HasWords(h) /\ ~failed[h] =>
            \/ GotItem(h, "voice")
            \/ GotItem(h, "sticker") /\ answer[h].tag = "only"
            \/ \E words \in Wordings \cup Claims \cup {"reply"} : GotItem(h, words)

(* The blocks that arrive are the first ones, in order, each of them once, *)
(* though a lost acknowledgement hides whether the last one did; nothing   *)
(* but a photo is ever sent a second time.                                 *)
BlocksArriveInOrder ==
    \A h \in Handlers :
        /\ IsPrefix(Blocks(h), answer[h].blocks)
        /\ \A i, j \in DOMAIN got[h] : got[h][i] = got[h][j] => i = j \/ got[h][i] = "photo"

(* What she says went through did: a message to another chat, a note, and  *)
(* what the history is told of or the store remembers.                     *)
ClaimsAreTrue ==
    \A h \in Handlers :
        /\ GotItem(h, "sent there") => <<h, "target">> \in arrived
        /\ GotItem(h, "noted") => h \in notes
        /\ h \in remembered => <<h, "owner">> \in arrived
        /\ \A where \in {"target", "owner"} : <<h, where>> \in reported => <<h, where>> \in arrived

(* A picture's caption, a photo that was promised and a bot's silence: a   *)
(* captioned picture is never dropped, a promised photo arrives or its     *)
(* absence is told, and no bot is told that it is denied, which would      *)
(* start a loop of two bots.                                               *)
NothingIsLost ==
    \A h \in Handlers :
        /\ stage[h] = "dropped" => update[h].kind \in {"sticker", "voice"} \/ ~update[h].words
        /\ stage[h] = "done" /\ answer[h].photo # "none" /\ answer[h].tag # "only"
           => GotItem(h, "photo") \/ GotItem(h, "no photo")
        /\ GotItem(h, "denial") /\ update[h].kind # "note" => update[h].sender # "bot"

BotReplyHolds == NeverSilent /\ BlocksArriveInOrder /\ ClaimsAreTrue /\ NothingIsLost

(* "Never more often than once per min_messages_between bot replies in a   *)
(* chat" (stickers/decider.py:20).  Refuted: a second handler may decide   *)
(* while the sticker of the first is on its way.                           *)
StickersAreSpaced ==
    [][\A h \in Handlers :
          stage[h] = "sticker" /\ got'[h] # got[h] /\ ~Asks(h, "sticker") /\ answer[h].tag # "only"
          => since[Chat(h)] = MinBetween]_botVars
=============================================================================
