-------------------------------- MODULE Presence --------------------------------
(***************************************************************************)
(* Vanessa's body in VRChat (services/presence): lines and OSC packets     *)
(* become turns in a queue, one consumer takes them in turn, shoots the    *)
(* scene, asks the agent over the broker and speaks the answer with a      *)
(* gesture and a moving mouth; an idle loop breathes between the answers;  *)
(* the end of the input stops it all.                                      *)
(*                                                                         *)
(* A turn is told by its number.  Everything outside (the screen, the      *)
(* agent, the voice, the sockets) may answer, fail or be late.             *)
(***************************************************************************)
EXTENDS Integers, Sequences, SequencesExt, FiniteSetsExt

CONSTANTS Inputs,      \* what comes in: lines and packets
          Shots,       \* screens <<width, height>>
          Sides,       \* SHRINK_SIDES, the largest first
          Qualities,   \* JPEG_QUALITIES, the best first
          MaxBytes,    \* the cap of a scene
          Gestures,    \* the avatar's parameters for gestures
          NoGesture,
          MaxTurns     \* bound: turns that come in

ASSUME PresenceAssumption ==
    /\ MaxBytes \in Nat /\ MaxTurns \in Nat /\ NoGesture \notin Gestures
    /\ Shots \subseteq (Nat \ {0}) \X (Nat \ {0})
    /\ Sides \in Seq(Nat \ {0}) /\ \A i \in DOMAIN Sides : Sides[i] <= Sides[1]

Turns == 1 .. MaxTurns
NoScene == <<0, 0>>

VARIABLES arrived,     \* turns that came in
          queue,       \* asyncio.Queue of turns
          stop,        \* asyncio.Event
          listening,   \* the OSC transport is open
          consumer,    \* where the consumer is
          current,     \* the turn it has, 0 for none
          scene,       \* the size of the picture it sends
          idle,        \* the idle loop runs
          gestures,    \* parameters that are on
          picked,      \* the gesture that the words of the answer pick
          mouth,       \* JawOpen or Voice is not zero
          playing,     \* turns whose voice is being played
          spoken,      \* turns whose voice was begun, in order
          broken       \* ghost: a speech was left before its end

bodyVars == <<gestures, picked, mouth, playing, spoken, broken>>
presenceVars == <<arrived, queue, stop, listening, consumer, current, scene, idle,
                  gestures, picked, mouth, playing, spoken, broken>>

Speaking == {"gesture", "voice", "visemes", "drain"}

PresenceTypeOK ==
    /\ arrived \in 0 .. MaxTurns
    /\ queue \in Seq(Turns) /\ Len(queue) <= MaxTurns
    /\ stop \in BOOLEAN /\ listening \in BOOLEAN /\ idle \in BOOLEAN
    /\ gestures \subseteq Gestures /\ picked \in Gestures \cup {NoGesture}
    /\ mouth \in BOOLEAN /\ broken \in BOOLEAN
    /\ consumer \in {"wait", "grab", "ask", "ended"} \cup Speaking
    /\ current \in 0 .. MaxTurns
    /\ scene \in Nat \X Nat
    /\ playing \subseteq Turns
    /\ spoken \in Seq(Turns)

PresenceInit ==
    /\ arrived = 0 /\ queue = <<>> /\ stop = FALSE
    /\ listening \in BOOLEAN
    /\ consumer = "wait" /\ current = 0 /\ scene = NoScene
    /\ idle = TRUE
    /\ gestures = {} /\ picked = NoGesture
    /\ mouth = FALSE /\ playing = {} /\ spoken = <<>>
    /\ broken = FALSE

-----------------------------------------------------------------------------
(* What comes in *)

\* split_speaker: a name and a message around the first separator that leaves
\* both, otherwise all of it is the message.
LineTurns(line) == {line.text} \ {""}

\* turn_from_osc: of the packet's strings the blank ones and the numbers do not
\* count; of two or more the second is the message.
Strings(packet) == SelectSeq(packet.values, LAMBDA v : v \notin {"", "number"})
PacketTurns(packet) ==
    IF packet.address \notin {"/vanessa/input", "/chatbox/input"} THEN {}
    ELSE LET strings == Strings(packet)
         IN  CASE Len(strings) = 0 -> {} [] Len(strings) = 1 -> {strings[1]}
               [] OTHER -> {strings[2]}

Enqueue(messages) ==
    IF messages = {} THEN UNCHANGED <<arrived, queue>>
    ELSE /\ arrived < MaxTurns
         /\ arrived' = arrived + 1
         /\ queue' = Append(queue, arrived')

\* The end of the input stops everything; a line read after it is not taken.
ReadLine ==
    /\ ~stop
    /\ \/ \E i \in Inputs : i.via = "line" /\ Enqueue(LineTurns(i)) /\ UNCHANGED stop
       \/ stop' = TRUE /\ UNCHANGED <<arrived, queue>>
    /\ UNCHANGED <<listening, consumer, current, scene, idle, bodyVars>>

ReadPacket ==
    /\ listening
    /\ \E i \in Inputs : i.via = "osc" /\ Enqueue(PacketTurns(i))
    /\ UNCHANGED <<stop, listening, consumer, current, scene, idle, bodyVars>>

-----------------------------------------------------------------------------
(* The picture of the scene *)

\* round(), half to even, of n * side / long.
Scaled(n, side, long) ==
    LET whole == (n * side) \div long
        rest == 2 * ((n * side) % long)
    IN  IF rest > long \/ (rest = long /\ whole % 2 = 1) THEN whole + 1 ELSE whole

ResizeLongSide(shot, side) ==
    LET long == Max({shot[1], shot[2]})
    IN  IF long <= side THEN shot
        ELSE <<Max({1, Scaled(shot[1], side, long)}), Max({1, Scaled(shot[2], side, long)})>>

\* The encoder: more pixels and a better quality make more bytes.
Encoded(shot, quality) == shot[1] * shot[2] * quality

FirstFitting(shot) == \E j \in DOMAIN Qualities : Encoded(shot, Qualities[j]) <= MaxBytes

JpegUnderCap(shot) ==
    LET fits == {i \in DOMAIN Sides : FirstFitting(ResizeLongSide(shot, Sides[i]))}
    IN  IF fits = {} THEN NoScene ELSE ResizeLongSide(shot, Sides[Min(fits)])

-----------------------------------------------------------------------------
(* The consumer *)

Does(from, to) == consumer = from /\ consumer' = to
Outer == <<arrived, queue, stop, listening, idle>>

\* A stop that comes with a turn wins, and the turn that was taken off the
\* queue is dropped.
TakeTurn ==
    /\ ~stop /\ queue # <<>>
    /\ Does("wait", "grab")
    /\ current' = Head(queue) /\ queue' = Tail(queue)
    /\ UNCHANGED <<arrived, stop, listening, scene, idle, bodyVars>>

SeeStop ==
    /\ stop
    /\ Does("wait", "ended")
    /\ \/ queue' = queue
       \/ queue # <<>> /\ queue' = Tail(queue)
    /\ UNCHANGED <<arrived, stop, listening, current, scene, idle, bodyVars>>

\* An exception in a turn is logged and the next one is waited for.
TurnEnds == consumer' = "wait" /\ current' = 0 /\ scene' = NoScene

TurnFails ==
    /\ consumer \in {"grab", "ask"}
    /\ TurnEnds
    /\ UNCHANGED <<Outer, bodyVars>>

\* No screen, and a picture that never fits, leave the turn without a scene.
Capture ==
    /\ Does("grab", "ask")
    /\ scene' \in {JpegUnderCap(s) : s \in Shots} \cup {NoScene}
    /\ UNCHANGED <<Outer, current, bodyVars>>

\* An answer that is not a reply, or has no text, is not spoken.
Answered ==
    /\ consumer = "ask"
    /\ \/ consumer' = "gesture" /\ UNCHANGED <<current, scene>>
       \/ TurnEnds
    /\ UNCHANGED <<Outer, bodyVars>>

-----------------------------------------------------------------------------
(* Speaking, under the lock *)

\* The words may pick a gesture or none.
BeginGesture ==
    /\ Does("gesture", "voice")
    /\ picked' \in Gestures \cup {NoGesture}
    /\ gestures' = gestures \cup ({picked'} \ {NoGesture})
    /\ UNCHANGED <<Outer, current, scene, mouth, playing, spoken, broken>>

\* Without credentials the voice is empty; otherwise a task of its own plays
\* it beside the mouth.
Synthesize ==
    /\ \/ /\ Does("voice", "visemes")
          /\ spoken' = Append(spoken, current) /\ playing' = playing \cup {current}
       \/ Does("voice", "drain") /\ UNCHANGED <<spoken, playing>>
    /\ UNCHANGED <<Outer, current, scene, gestures, picked, mouth, broken>>

Frame ==
    /\ consumer = "visemes"
    /\ mouth' \in BOOLEAN
    /\ UNCHANGED <<Outer, consumer, current, scene, gestures, picked, playing, spoken, broken>>

LastFrame ==
    /\ Does("visemes", "drain")
    /\ UNCHANGED <<Outer, current, scene, bodyVars>>

PlayEnds ==
    /\ \E t \in playing : playing' = playing \ {t}
    /\ UNCHANGED <<Outer, consumer, current, scene, gestures, picked, mouth, spoken, broken>>

\* Mutant: the voice is not waited for.
RestAtOnce ==
    /\ consumer = "drain"
    /\ gestures' = gestures \ {picked} /\ picked' = NoGesture /\ mouth' = FALSE
    /\ TurnEnds
    /\ UNCHANGED <<Outer, playing, spoken, broken>>

\* The voice has ended: the gesture of this answer goes and the mouth closes.
Rest ==
    /\ consumer = "drain" /\ current \notin playing
    /\ gestures' = gestures \ {picked} /\ picked' = NoGesture /\ mouth' = FALSE
    /\ TurnEnds
    /\ UNCHANGED <<Outer, playing, spoken, broken>>

\* A voice, a player or a socket that fails leaves everything as it is then: no
\* step of the speech is undone.
SpeechFails ==
    /\ consumer \in Speaking
    /\ broken' = TRUE /\ picked' = NoGesture
    /\ TurnEnds
    /\ UNCHANGED <<Outer, gestures, mouth, playing, spoken>>

-----------------------------------------------------------------------------
(* The idle loop and the end *)

\* It sends a frame only when nobody speaks; a send that fails ends it unseen.
IdleFails ==
    /\ idle /\ consumer \notin Speaking
    /\ idle' = FALSE
    /\ UNCHANGED <<arrived, queue, stop, listening, consumer, current, scene, bodyVars>>

\* run_presence cancels its tasks wherever they are; a voice that has begun
\* plays on in its thread.
Cancel ==
    /\ stop /\ (listening \/ idle \/ consumer # "ended")
    /\ listening' = FALSE /\ idle' = FALSE
    /\ consumer' = "ended" /\ picked' = NoGesture
    /\ broken' = (broken \/ consumer \in Speaking)
    /\ UNCHANGED <<arrived, queue, stop, current, scene, gestures, mouth, playing, spoken>>

PresenceNext ==
    \/ ReadLine \/ ReadPacket
    \/ TakeTurn \/ SeeStop \/ TurnFails \/ Capture \/ Answered
    \/ BeginGesture \/ Synthesize \/ Frame \/ LastFrame \/ PlayEnds \/ Rest \/ SpeechFails
    \/ IdleFails \/ Cancel

\* The loop runs, every wait of the consumer has an end (the request has a
\* timeout, the audio a length) and what is stopped is cancelled.
Consumer ==
    \/ TakeTurn \/ SeeStop \/ TurnFails \/ Capture \/ Answered
    \/ BeginGesture \/ Synthesize \/ LastFrame \/ PlayEnds \/ Rest \/ SpeechFails

PresenceSpec ==
    /\ PresenceInit /\ [][PresenceNext]_presenceVars
    /\ WF_presenceVars(Consumer) /\ WF_presenceVars(Cancel)

-----------------------------------------------------------------------------
\* Answers are spoken in the order the turns came in, none of them twice.
SpokenInOrder == \A i, j \in DOMAIN spoken : i < j => spoken[i] < spoken[j]

\* Two voices sound together only after a speech broke off.
OneVoice == broken \/ Cardinality(playing) <= 1

\* Between two answers the face is at rest, unless a speech broke off.
AtRestBetween == consumer \in {"wait", "grab", "ask"} /\ ~broken =>
    gestures = {} /\ ~mouth /\ playing = {}

\* A picture that is sent has pixels, keeps under the largest side and the cap.
SceneFits ==
    \/ scene = NoScene
    \/ /\ scene[1] \in 1 .. Sides[1] /\ scene[2] \in 1 .. Sides[1]
       /\ FirstFitting(scene)

\* services/presence/playback/speak.py, loop.py, capture/scale.py.
PresenceHolds == SpokenInOrder /\ OneVoice /\ AtRestBetween /\ SceneFits

\* Every turn is taken, or everything has stopped.
TurnsEnd == [](queue # <<>> => <>(queue = <<>> \/ consumer = "ended"))
===============================================================================
