------------------------------ MODULE MediaGroups ------------------------------
(***************************************************************************)
(* The bot's album buffer (services/bot/media_groups.py).  Telegram sends  *)
(* every photo of an album as a message of its own; each has a handler     *)
(* task, which downloads the photo and adds it to the album's entry.  The  *)
(* entry is flushed as one turn of the agent by its debounce timer, which  *)
(* every photo restarts, or by the handler whose photo fills it.           *)
(*                                                                         *)
(* All of it runs on one event loop, and the sections under the asyncio    *)
(* lock never await: a step below is what one task does between two        *)
(* awaits.  A timer whose sleep is over still waits for its turn on the    *)
(* loop, and can be cancelled until then.                                  *)
(***************************************************************************)
EXTENDS Naturals, FiniteSets

CONSTANTS Photos,
          Albums,
          Album,       \* the album of each photo
          Captioned,   \* photos with a caption
          MaxPhotos,   \* photos that fill an entry
          None

ASSUME MediaGroupsAssumption ==
    /\ Album \in [Photos -> Albums]
    /\ Captioned \subseteq Photos
    /\ MaxPhotos \in Nat \ {0}
    /\ None \notin Photos

VARIABLES
    photo,    \* how far the handler of each photo is
    groups,   \* the entry buffered for each album; an entry is named for its first photo
    images,   \* of each entry
    task,     \* the timer of each entry; a timer is named for the photo that started it
    timer,    \* state of each timer
    flush     \* state of the flush of each entry

vars == <<photo, groups, images, task, timer, flush>>

TypeOK ==
    /\ photo \in [Photos -> {"new", "loading", "added", "alone", "dropped"}]
    /\ groups \in [Albums -> Photos \cup {None}]
    /\ images \in [Photos -> SUBSET Photos]
    /\ \A e \in Photos : Cardinality(images[e]) <= MaxPhotos
    /\ task \in [Photos -> Photos \cup {None}]
    /\ timer \in [Photos -> {"none", "asleep", "awake", "cancelled", "flushing", "done"}]
    /\ flush \in [Photos -> {"none", "running", "done", "killed"}]

Init ==
    /\ photo = [p \in Photos |-> "new"]
    /\ groups = [a \in Albums |-> None]
    /\ images = [e \in Photos |-> {}]
    /\ task = [e \in Photos |-> None]
    /\ timer = [p \in Photos |-> "none"]
    /\ flush = [e \in Photos |-> "none"]

-----------------------------------------------------------------------------
(* The handler of a photo *)

Arrive(p) ==
    /\ photo[p] = "new"
    /\ photo' = [photo EXCEPT ![p] = "loading"]
    /\ UNCHANGED <<groups, images, task, timer, flush>>

\* A photo that cannot be read is a turn of its caption, if it has one.
LoadFails(p) ==
    /\ photo[p] = "loading"
    /\ photo' = [photo EXCEPT ![p] = IF p \in Captioned THEN "alone" ELSE "dropped"]
    /\ UNCHANGED <<groups, images, task, timer, flush>>

\* The entry p goes to: that of its album, or a new one.
EntryFor(p) == IF groups[Album[p]] = None THEN p ELSE groups[Album[p]]

Pending(t) == timer[t] \in {"asleep", "awake"}

\* The timers once entry e had its own cancelled.
Cancelled(e) == [t \in Photos |-> IF t = task[e] /\ Pending(t)
                                  THEN "cancelled" ELSE timer[t]]

Fills(e) == Cardinality(images[e]) + 1 >= MaxPhotos

Buffer(p) ==
    /\ photo[p] = "loading"
    /\ photo' = [photo EXCEPT ![p] = "added"]
    /\ images' = [images EXCEPT ![EntryFor(p)] = @ \cup {p}]

\* Not the last photo: the timer starts again.
Add(p) ==
    LET e == EntryFor(p)
    IN  /\ ~Fills(e)
        /\ Buffer(p)
        /\ groups' = [groups EXCEPT ![Album[p]] = e]
        /\ timer' = [Cancelled(e) EXCEPT ![p] = "asleep"]
        /\ task' = [task EXCEPT ![e] = p]
        /\ UNCHANGED flush

\* Mutant: the handler flushes only when the entry has more than MaxPhotos.
AddLastUnflushed(p) ==
    LET e == EntryFor(p)
    IN  /\ Fills(e)
        /\ Buffer(p)
        /\ groups' = [groups EXCEPT ![Album[p]] = e]
        /\ timer' = Cancelled(e)
        /\ UNCHANGED <<task, flush>>

\* The photo fills the entry: its handler takes the entry and flushes it.
AddLast(p) ==
    LET e == EntryFor(p)
    IN  /\ Fills(e)
        /\ Buffer(p)
        /\ groups' = [groups EXCEPT ![Album[p]] = None]
        /\ timer' = Cancelled(e)
        /\ flush' = [flush EXCEPT ![e] = "running"]
        /\ UNCHANGED task

-----------------------------------------------------------------------------
(* The timers *)

Wake(t) ==
    /\ timer[t] = "asleep"
    /\ timer' = [timer EXCEPT ![t] = "awake"]
    /\ UNCHANGED <<photo, groups, images, task, flush>>

\* The entry a timer was started for.
EntryOf(t) == CHOOSE e \in Photos : t \in images[e]

\* Mutant: the flush cancels the timer it runs in.
FlushKilled(t) ==
    LET e == EntryOf(t)
    IN  /\ timer[t] = "awake"
        /\ groups[Album[t]] = e
        /\ groups' = [groups EXCEPT ![Album[t]] = None]
        /\ timer' = [timer EXCEPT ![t] = "cancelled"]
        /\ flush' = [flush EXCEPT ![e] = "killed"]
        /\ UNCHANGED <<photo, images, task>>

\* The timer takes its entry, which lets go of it, and runs the flush in its
\* own task.
Flush(t) ==
    LET e == EntryOf(t)
    IN  /\ timer[t] = "awake"
        /\ groups[Album[t]] = e
        /\ groups' = [groups EXCEPT ![Album[t]] = None]
        /\ timer' = [timer EXCEPT ![t] = "flushing"]
        /\ flush' = [flush EXCEPT ![e] = "running"]
        /\ UNCHANGED <<photo, images, task>>

\* The turn is answered, or raised, which is logged.
FlushEnds(e) ==
    /\ flush[e] = "running"
    /\ flush' = [flush EXCEPT ![e] = "done"]
    /\ timer' = [t \in Photos |-> IF timer[t] = "flushing" /\ t \in images[e]
                                  THEN "done" ELSE timer[t]]
    /\ UNCHANGED <<photo, groups, images, task>>

-----------------------------------------------------------------------------
Next ==
    \/ \E p \in Photos : Arrive(p) \/ LoadFails(p) \/ Add(p) \/ AddLast(p)
    \/ \E t \in Photos : Wake(t) \/ Flush(t)
    \/ \E e \in Photos : FlushEnds(e)

Spec == Init /\ [][Next]_vars

\* The event loop runs every ready task, sleeps end, and a turn is bounded by
\* the timeout of its answer.
Fairness ==
    /\ \A t \in Photos : WF_vars(Wake(t)) /\ WF_vars(Flush(t))
    /\ \A e \in Photos : WF_vars(FlushEnds(e))

FairSpec == Spec /\ Fairness

-----------------------------------------------------------------------------
(* Properties *)

\* Every photo that was added is in one entry, which either waits in the buffer
\* or has had its one flush, and nothing cuts that flush off: no photo is lost
\* between the timers, and none is shown to the agent twice.
PhotosHaveOnePlace ==
    \A p \in Photos : photo[p] = "added" =>
        \E e \in Photos :
            /\ {d \in Photos : p \in images[d]} = {e}
            /\ groups[Album[p]] = e <=> flush[e] = "none"
            /\ flush[e] # "killed"

\* A buffered entry has one timer that is still to run, its own, and no timer
\* is left that would flush an album early.
BufferedHasItsTimer ==
    \A a \in Albums :
        {t \in Photos : Album[t] = a /\ Pending(t)}
            = IF groups[a] = None THEN {} ELSE {task[groups[a]]}

\* The photos of a turn do not change once its flush began: a photo that comes
\* while the turn runs starts an entry of its own.
FlushedStaysWhole ==
    [][\A e \in Photos : flush[e] # "none" => images'[e] = images[e]]_vars

\* Every photo that was added is shown to the agent.
AddedGetsATurn ==
    \A p \in Photos :
        photo[p] = "added" ~> \E e \in Photos : p \in images[e] /\ flush[e] = "done"

\* At every moment the photos that were added, the entries of the buffer and the
\* timers belong together.  (bot/media_groups)
AlbumsAreOwned == PhotosHaveOnePlace /\ BufferedHasItsTimer
===============================================================================
