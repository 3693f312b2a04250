------------------------------- MODULE MCTurnGate -------------------------------
(* The owner, a guest and another bot in the chat where she answers for the     *)
(* owner; texts that need each other to matter: questions to her and to the     *)
(* room, a dismissal, a bare photo, a continuation, the owner's two commands.   *)
EXTENDS TurnGate

CONSTANTS owner, guest, bot, her, none,
          ask, room, hush, photo, more, mute, spare, query

MCOwners == {owner}
MCBots == {bot}
MCTexts == {ask, room, hush, photo, more, mute, spare, query}

MCSays == {<<guest, ask>>, <<guest, room>>, <<guest, hush>>, <<guest, photo>>,
           <<guest, more>>, <<owner, mute>>, <<bot, query>>}

\* For the owner's commands alone.
MCCommands == {<<guest, ask>>, <<bot, query>>, <<owner, mute>>, <<owner, spare>>}

MCTraits == [t \in MCTexts |->
    CASE t = ask   -> {"mention", "question", "long"}
      [] t = room  -> {"question", "long"}
      [] t = hush  -> {"dismissal"}
      [] t = photo -> {"photo"}
      [] t = more  -> {"continuation", "short", "trigger"}
      [] t = mute  -> {"name", "lead", "mute", "dismissal"}
      [] t = spare -> {"name", "lead", "mute", "spare", "pronoun"}
      [] t = query -> {"question", "owner"}]

\* Her name and the room: two ways to ask for the same.
MCTopic == [t \in MCTexts \cup {none} |-> IF t \in {ask, room} THEN ask ELSE t]

MCReplyTo == [t \in MCTexts |-> IF t = mute THEN guest ELSE none]
===============================================================================
