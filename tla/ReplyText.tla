------------------------------ MODULE ReplyText ------------------------------
(***************************************************************************)
(* What becomes of the model's text on its way to the chat                 *)
(* (vanessa/pipeline/llm/format): where the answer begins, which markers   *)
(* are taken out, and how the rest is cut into messages.                   *)
(*                                                                         *)
(* A text is the set of its lines, each with its kind and `at', the place  *)
(* it had in the model's output: nothing in the code moves a line before   *)
(* another.  For the same reason the messages are a set of texts.  Lengths *)
(* are counted in lines.  Kinds:                                           *)
(*   text, promise       words; words that promise a later result          *)
(*   fence               ``` , opening or closing a block of code          *)
(*   answer, open, close [answer], <answer>, </answer>                     *)
(*   ignore              a line that begins with [ignore]                  *)
(*   next, cut           [next] on its own; inside a line or truncated     *)
(*   sticker, reaction, photo, stray     [sticker:..], .., an invented tag *)
(*   dm, send            <dm_owner>..</dm_owner>, <send_to_chat>..         *)
(***************************************************************************)
EXTENDS Integers, Sequences, FiniteSets, SequencesExt, Ordering

CONSTANTS Target,    \* fallback_target_chars
          MaxChars   \* Telegram's limit of a message, MESSAGE_MAX_CHARS

ASSUME ReplyTextAssumption ==
    Target \in Nat \ {0} /\ MaxChars \in Nat \ {0} /\ Target <= MaxChars

Kinds == {"text", "promise", "fence", "answer", "open", "close", "ignore", "next",
          "cut", "sticker", "reaction", "photo", "stray", "dm", "send"}
Lines == [kind : Kinds, at : Nat]
Control == {"answer", "open", "close"}
UnitsPerBlock == 2   \* _MAX_UNITS_PER_BLOCK

IsText(lines) ==
    /\ lines \subseteq Lines /\ IsFiniteSet(lines)
    /\ \A x, y \in lines : x.at = y.at => x = y

Numbered(kinds) == {[kind |-> kinds[i], at |-> i] : i \in DOMAIN kinds}
Has(lines, kind) == \E x \in lines : x.kind = kind
First(lines) == CHOOSE x \in lines : \A y \in lines : x.at <= y.at
Rank(lines, x) == Cardinality({y \in lines : y.at < x.at})

(* The closed blocks of code: every second fence closes the one before.    *)
FencesUpTo(lines, x) == Cardinality({y \in lines : y.kind = "fence" /\ y.at <= x.at})
Code(lines) ==
    {x \in lines : \/ /\ FencesUpTo(lines, x) % 2 = 1
                      /\ \E y \in lines : y.kind = "fence" /\ x.at < y.at
                   \/ FencesUpTo(lines, x) % 2 = 0 /\ x.kind = "fence"}

(* map_outside_fences with an empty replacement.                           *)
Without(lines, kinds) ==
    LET code == Code(lines) IN {x \in lines : x.kind \notin kinds \/ x \in code}
WithoutAnywhere(lines, kinds) == {x \in lines : x.kind \notin kinds}
-----------------------------------------------------------------------------
(* answer_tag.                                                             *)
AnswerTags(lines) == {x \in lines : x.kind = "answer"} \ Code(lines)
Opening(lines) ==
    {x \in lines : x.kind = "open" /\ \E y \in lines : y.kind = "close" /\ x.at < y.at}
HasIgnore(lines) == Has(lines, "ignore")
IsUntagged(lines) ==
    /\ lines # {} /\ ~HasIgnore(lines)
    /\ AnswerTags(lines) = {} /\ Opening(lines) = {}

(* What stands between the first opening tag that is closed and its close. *)
Enclosed(lines) ==
    LET Opened(x) == \E o \in Opening(lines) : o.at < x.at
    IN  {x \in lines : /\ Opened(x)
                       /\ \A c \in lines : c.kind = "close" /\ Opened(c) => x.at < c.at}

\* Mutant of ExtractAnswer: the reply begins at the first tag.
ExtractAtFirst(lines) ==
    LET tags == AnswerTags(lines)
    IN  Without(IF tags = {} THEN lines ELSE {x \in lines : \E t \in tags : t.at < x.at},
                Control)

(* The last tag counts.                                                    *)
ExtractAnswer(lines) ==
    LET tags == AnswerTags(lines)
    IN  Without(IF tags # {} THEN {x \in lines : \A t \in tags : t.at < x.at}
                ELSE IF Opening(lines) # {} THEN Enclosed(lines) ELSE lines,
                Control)

SplitReply(lines) == IF IsUntagged(lines) THEN {} ELSE ExtractAnswer(lines)
PromisesLater(lines) == Has(lines, "promise")

(* extract_cross_chat_send, extract_owner_dm: the text to deliver, if any; *)
(* several instructions are none.  extract_photo_index and its like take   *)
(* the first.                                                              *)
Instructed(lines, kind, allowed) ==
    allowed /\ Cardinality({x \in lines : x.kind = kind}) = 1
Marked(lines, kind) == Without(lines, {kind}) # lines
-----------------------------------------------------------------------------
(* block_markers, message_blocks, block_fallback.                          *)
Markers == {"next", "cut"}
StripBlockMarkers(lines) == Without(lines, Markers)

(* The lines cut before each of `breaks'.                                  *)
Parted(b, x, y) == \/ x.at < b.at /\ b.at <= y.at
                   \/ y.at < b.at /\ b.at <= x.at
CutBefore(lines, breaks) ==
    {{y \in lines : \A b \in breaks : ~Parted(b, x, y)} : x \in lines}

SplitOnMarkers(lines) ==
    LET breaks == {x \in lines : x.kind = "next"} \ Code(lines)
    IN  CutBefore(lines \ breaks, breaks)

(* A block of code is one unit, the first has the first two fences, and so *)
(* on; a line of prose is one by itself.                                   *)
NthCode(lines, x) == (FencesUpTo(lines, x) + 1) \div 2
Unit(lines, x) ==
    LET code == Code(lines)
    IN  IF x \in code THEN {y \in code : NthCode(lines, y) = NthCode(lines, x)} ELSE {x}
Units(lines) == {Unit(lines, x) : x \in lines}

(* _fit_unit: over-long units are cut, code like prose; a line of prose is *)
(* none of them.                                                           *)
Fit(unit) ==
    {{y \in unit : Rank(unit, y) \div Target = Rank(unit, x) \div Target} : x \in unit}
CodeIsCut(lines) == \E unit \in Units(lines) : Cardinality(unit) > Target
Pieces(lines) == UNION {Fit(unit) : unit \in Units(lines)}

(* _glue_piece: at most two units a message, code sticks to what is there. *)
(* `glued' counts the lines and the units of the message so far.           *)
Sticky(piece) == Code(piece) # {}
IsFull(glued, piece) ==
    /\ glued.lines > 0 /\ ~Sticky(piece)
    /\ glued.units >= UnitsPerBlock \/ glued.lines + Cardinality(piece) > Target
Glue(glued, piece) ==
    LET full == IsFull(glued, piece)
    IN  [lines |-> (IF full THEN 0 ELSE glued.lines) + Cardinality(piece),
         units |-> (IF full THEN 0 ELSE glued.units) + (IF Sticky(piece) THEN 0 ELSE 1)]

(* The pieces that begin a message: what was glued before them is full.    *)
GluedBefore(pieces, piece) ==
    LET Sooner(p, q) == First(p).at < First(q).at
        earlier == {p \in pieces : Sooner(p, piece)}
    IN  FoldLeft(Glue, [lines |-> 0, units |-> 0],
                 InOrder(earlier, {r \in earlier \X earlier : Sooner(r[1], r[2])}))
Beginnings(lines) ==
    LET pieces == Pieces(lines)
    IN  {First(p) : p \in {q \in pieces : IsFull(GluedBefore(pieces, q), q)}}

\* Mutant of SentenceFallback: the last message is forgotten.
FallbackLost(lines) ==
    {m \in CutBefore(lines, Beginnings(lines)) : \E x \in lines : \A y \in m : y.at < x.at}

SentenceFallback(lines) == CutBefore(lines, Beginnings(lines))

Sanitize(blocks) == {StripBlockMarkers(b) : b \in blocks} \ {{}}

BlocksFromMarkers(marked) ==
    UNION {IF Cardinality(b) <= MaxChars THEN {b} ELSE SentenceFallback(b) : b \in marked}

SplitReplyIntoBlocks(lines) ==
    LET marked == SplitOnMarkers(lines)
    IN  Sanitize(IF Cardinality(marked) > 1 THEN BlocksFromMarkers(marked)
                 ELSE SentenceFallback(StripBlockMarkers(lines)))

(* one_message: another bot reads one message, cut to the limit.           *)
OneMessage(blocks) ==
    LET all == UNION blocks
    IN  IF Cardinality(blocks) <= 1 THEN blocks
        ELSE {IF Cardinality(all) <= MaxChars THEN all
              ELSE {x \in all : Rank(all, x) < MaxChars - 1}}

(* delivery_messages.                                                      *)
DeliveryMessages(lines, splits, toBot) ==
    LET blocks == SplitReplyIntoBlocks(lines)
    IN  IF ~splits THEN {StripBlockMarkers(lines)} \ {{}}
        ELSE IF toBot THEN OneMessage(blocks) ELSE blocks
=============================================================================
