--------------------------- MODULE DeliveryContract ---------------------------
(***************************************************************************)
(* What a consumer group of the broker promises about each entry, without  *)
(* consumers, commands or failures: entries are taken in order and once;   *)
(* a taken entry ends handled, in the dead-letter stream, or skipped; it   *)
(* is skipped only for another entry of the same message that was taken,   *)
(* or because the dedup lookup failed, and then it is lost.                *)
(***************************************************************************)
EXTENDS Naturals

CONSTANTS Ids, Messages, NoMessage

VARIABLES fate, message

Fates == {"absent", "queued", "evicted", "held", "handled", "buried",
          "skipped", "lost"}

TypeOK ==
    /\ fate \in [Ids -> Fates]
    /\ message \in [Ids -> Messages \cup {NoMessage}]

Init ==
    /\ fate = [i \in Ids |-> "absent"]
    /\ message = [i \in Ids |-> NoMessage]

Become(i, f) ==
    /\ fate' = [fate EXCEPT ![i] = f]
    /\ UNCHANGED message

\* The next entry is appended, and the oldest queued ones may make room.
Append(i, m, cut) ==
    /\ fate[i] = "absent"
    /\ \A j \in Ids : j < i => fate[j] # "absent"
    /\ message' = [message EXCEPT ![i] = m]
    /\ fate' = [j \in Ids |->
                  IF (fate[j] = "queued" \/ j = i) /\ j <= cut
                  THEN "evicted"
                  ELSE IF j = i THEN "queued" ELSE fate[j]]

\* First in, first out.
Take(i) ==
    /\ fate[i] = "queued"
    /\ \A j \in Ids : j < i => fate[j] # "queued"
    /\ Become(i, "held")

Finish(i) == fate[i] = "held" /\ Become(i, "handled")

DeadLetter(i) == fate[i] = "held" /\ Become(i, "buried")

Skip(i) ==
    /\ fate[i] = "held"
    /\ \E j \in Ids \ {i} :
          /\ message[j] = message[i]
          /\ fate[j] \in {"held", "handled", "buried", "lost"}
    /\ Become(i, "skipped")

Lose(i) == fate[i] = "held" /\ Become(i, "lost")

Next == \E i \in Ids :
    \/ \E m \in Messages, cut \in Ids \cup {0} : Append(i, m, cut)
    \/ Take(i) \/ Finish(i) \/ DeadLetter(i) \/ Skip(i) \/ Lose(i)

Spec == Init /\ [][Next]_<<fate, message>>
===============================================================================
