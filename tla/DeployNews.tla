----------------------------- MODULE DeployNews -----------------------------
(***************************************************************************)
(* A production deploy becomes one message in the chat.  GitLab is seen by *)
(* a bridge on the owner's computer, which caches its answer; the worker's *)
(* announcer asks the bridge, compares the deploy with the marker it keeps *)
(* in Redis, lets the model word the news, publishes it, and only then     *)
(* moves the marker.                                                       *)
(*                                                                         *)
(* A pipeline is its number, which is also the id of its deploy job and    *)
(* the one commit it adds.  GitLab is external: `pipeline' says how far    *)
(* each is.  Texts are left out.                                           *)
(*                                                                         *)
(* said, slips, baseline and overdue are history: the messages published,  *)
(* how often one that was published was not followed by its marker, and    *)
(* the deploys that were marked without a message, as the first one seen   *)
(* or as too old.                                                          *)
(***************************************************************************)
EXTENDS Integers, Sequences, FiniteSets, FiniteSetsExt

CONSTANTS MaxPipeline,       \* pipelines 1..MaxPipeline
          NoMark, NoAnswer,  \* no marker in Redis; nothing cached yet
          Scanned,           \* PIPELINES_SCANNED
          Attempts,          \* GLAB_ATTEMPTS
          MaxMishaps         \* bound on calls and processes that fail

ASSUME NewsAssumption ==
    /\ MaxPipeline \in Nat /\ MaxMishaps \in Nat
    /\ Scanned \in Nat \ {0} /\ Attempts \in Nat \ {0}
    /\ NoMark \notin Nat /\ NoAnswer \notin Nat

VARIABLES pipeline, overage,       \* GitLab: pipelines, those over max_late old
          cached, isFresh, glab,   \* the bridge: answer, its age, attempts left
          marker, tickAt, about,   \* Redis; the announcer and what it is at
          said, slips, baseline, overdue, mishaps

newsVars == <<pipeline, overage, cached, isFresh, glab, marker, tickAt, about,
              said, slips, baseline, overdue, mishaps>>
gitlab == <<pipeline, overage>>
bridge == <<cached, isFresh, glab>>
announcer == <<tickAt, about>>
past == <<said, slips, baseline, overdue>>

Pipelines == 1..MaxPipeline

NewsTypeOK ==
    /\ pipeline \in [Pipelines -> {"none", "running", "success", "failed"}]
    /\ overage \subseteq Pipelines
    /\ cached \in 0..MaxPipeline \cup {NoAnswer} /\ isFresh \in BOOLEAN
    /\ glab \in 0..Attempts
    /\ marker \in Pipelines \cup {NoMark}
    /\ tickAt \in {"idle", "asking", "refreshing", "deciding", "composing", "publishing",
                   "marking"}
    /\ about \in 0..MaxPipeline
    /\ said \in Seq(Pipelines) /\ slips \in Nat
    /\ baseline \subseteq Pipelines /\ overdue \subseteq Pipelines
    /\ mishaps \in 0..MaxMishaps

NewsInit ==
    /\ pipeline = [p \in Pipelines |-> "none"] /\ overage = {}
    /\ cached = NoAnswer /\ isFresh = FALSE /\ glab = 0
    /\ marker = NoMark /\ tickAt = "idle" /\ about = 0
    /\ said = <<>> /\ slips = 0 /\ baseline = {} /\ overdue = {} /\ mishaps = 0

Mishap == mishaps < MaxMishaps /\ mishaps' = mishaps + 1
-----------------------------------------------------------------------------
(* GitLab: pipelines start in order and end in any.                        *)
PipelineStarts ==
    /\ \E p \in Pipelines :
        /\ pipeline[p] = "none" /\ \A q \in 1..p - 1 : pipeline[q] # "none"
        /\ pipeline' = [pipeline EXCEPT ![p] = "running"]
    /\ UNCHANGED <<overage, bridge, marker, announcer, past, mishaps>>

PipelineEnds(p, result) ==
    /\ pipeline[p] = "running"
    /\ pipeline' = [pipeline EXCEPT ![p] = result]
    /\ UNCHANGED <<overage, bridge, marker, announcer, past, mishaps>>

(* max_late_hours pass.                                                    *)
DeployGetsOld(p) ==
    /\ pipeline[p] = "success" /\ p \notin overage
    /\ overage' = overage \cup {p}
    /\ UNCHANGED <<pipeline, bridge, marker, announcer, past, mishaps>>
-----------------------------------------------------------------------------
(* _scan: the newest of the last pipelines that was successful, or none:   *)
(* behind Scanned others a deploy is not known.                            *)
Deployed == {p \in Pipelines : pipeline[p] = "success"}
Listed == {p \in Pipelines :
              Cardinality({q \in Pipelines : q > p /\ pipeline[q] # "none"}) < Scanned}
Newest == Max((Deployed \cap Listed) \cup {0})

(* latest: a reader refreshes unless the answer is fresh or someone does;  *)
(* who comes meanwhile gets the last answer at once.                       *)
Refreshes == ~isFresh /\ glab = 0

RefreshEnds ==
    /\ glab > 0
    /\ cached' = Newest /\ isFresh' = TRUE /\ glab' = 0
    /\ UNCHANGED <<gitlab, marker, announcer, past, mishaps>>

(* A glab call fails; the last failure leaves the last answer in place.    *)
GlabFails ==
    /\ glab > 0 /\ Mishap
    /\ glab' = glab - 1
    /\ UNCHANGED <<gitlab, cached, isFresh, marker, announcer, past>>

CacheExpires ==
    /\ isFresh
    /\ isFresh' = FALSE
    /\ UNCHANGED <<gitlab, cached, glab, marker, announcer, past, mishaps>>
-----------------------------------------------------------------------------
(* Announcer.tick: the GET; the reader that refreshes waits for it, also   *)
(* when the announcer has long given up.                                   *)
Ask ==
    /\ tickAt = "idle"
    /\ tickAt' = IF Refreshes THEN "refreshing" ELSE "asking"
    /\ glab' = IF Refreshes THEN Attempts ELSE glab
    /\ UNCHANGED <<gitlab, cached, isFresh, marker, about, past, mishaps>>

(* The answer, or no deploy known: an empty answer ends the tick.          *)
Answer ==
    /\ tickAt = "asking" \/ (tickAt = "refreshing" /\ glab = 0)
    /\ IF cached \in Pipelines THEN tickAt' = "deciding" /\ about' = cached
       ELSE tickAt' = "idle" /\ UNCHANGED about
    /\ UNCHANGED <<gitlab, bridge, marker, past, mishaps>>

(* Unreachable, timed out, not JSON: payload() is empty.                   *)
NoPayload ==
    /\ tickAt \in {"asking", "refreshing"} /\ Mishap
    /\ tickAt' = "idle"
    /\ UNCHANGED <<gitlab, bridge, marker, about, past>>

(* _decide, given what was read of the marker: baseline, seen, stale or    *)
(* announce.                                                               *)
Decide(seen) ==
    /\ tickAt = "deciding"
    /\ IF seen = NoMark THEN /\ marker' = about /\ tickAt' = "idle"
                             /\ baseline' = baseline \cup {about}
                             /\ UNCHANGED overdue
       ELSE IF about <= seen THEN tickAt' = "idle" /\ UNCHANGED <<marker, baseline, overdue>>
       ELSE IF about \in overage THEN /\ marker' = about /\ tickAt' = "idle"
                                      /\ overdue' = overdue \cup {about}
                                      /\ UNCHANGED baseline
       ELSE tickAt' = "composing" /\ UNCHANGED <<marker, baseline, overdue>>
    /\ UNCHANGED <<gitlab, bridge, about, said, slips>>

ReadMark == Decide(marker) /\ UNCHANGED mishaps

(* A marker that cannot be read is no marker.                              *)
MarkUnreadable == marker # NoMark /\ Decide(NoMark) /\ Mishap

(* The text: the stand was waited for, whether it answers only adds a      *)
(* line; the model words the changes, their titles stand in when it fails  *)
(* or does not tag its answer.  There is always a text.                    *)
Compose ==
    /\ tickAt = "composing"
    /\ tickAt' = "publishing"
    /\ UNCHANGED <<gitlab, bridge, marker, about, past, mishaps>>

\* What becomes of a message: it is told unless the broker never got it, and it
\* is told without its marker when only the broker's answer was lost.
Told(reached, heard) ==
    /\ said' = IF reached THEN Append(said, about) ELSE said
    /\ slips' = IF reached /\ ~heard THEN slips + 1 ELSE slips
    /\ IF heard THEN UNCHANGED mishaps ELSE Mishap

\* Mutant of PublishNews: the marker is moved first.
PublishMarked(reached, heard) ==
    /\ tickAt = "publishing"
    /\ marker' = about /\ tickAt' = "idle"
    /\ Told(reached, heard)
    /\ UNCHANGED <<gitlab, bridge, about, baseline, overdue>>

(* A publish that raises ends the tick, and the next one tries again,      *)
(* whether or not the broker has the message.                              *)
PublishNews(reached, heard) ==
    /\ tickAt = "publishing"
    /\ tickAt' = IF heard THEN "marking" ELSE "idle"
    /\ Told(reached, heard)
    /\ UNCHANGED <<gitlab, bridge, marker, about, baseline, overdue>>

Remember ==
    /\ tickAt = "marking"
    /\ marker' = about /\ tickAt' = "idle"
    /\ UNCHANGED <<gitlab, bridge, about, past, mishaps>>

(* The worker dies, or a call of the tick raises: run_forever starts over. *)
TickFails ==
    /\ tickAt # "idle" /\ Mishap
    /\ tickAt' = "idle"
    /\ slips' = IF tickAt = "marking" THEN slips + 1 ELSE slips
    /\ UNCHANGED <<gitlab, bridge, marker, about, said, baseline, overdue>>

RedisFlushed ==
    /\ marker # NoMark /\ Mishap
    /\ marker' = NoMark
    /\ UNCHANGED <<gitlab, bridge, announcer, past>>

BridgeRestarts ==
    /\ Mishap
    /\ cached' = NoAnswer /\ isFresh' = FALSE /\ glab' = 0
    /\ UNCHANGED <<gitlab, marker, announcer, past>>

TickStep == Ask \/ Answer \/ ReadMark \/ Compose \/ PublishNews(TRUE, TRUE) \/ Remember

NewsNext ==
    \/ PipelineStarts \/ \E p \in Pipelines : DeployGetsOld(p)
    \/ \E p \in Pipelines, result \in {"success", "failed"} : PipelineEnds(p, result)
    \/ RefreshEnds \/ GlabFails \/ CacheExpires \/ BridgeRestarts
    \/ TickStep \/ NoPayload \/ MarkUnreadable \/ TickFails \/ RedisFlushed
    \/ \E reached \in BOOLEAN : PublishNews(reached, FALSE)

(* The announcer's loop goes on, the bridge's thread ends, time passes.    *)
NewsFairness ==
    WF_newsVars(TickStep) /\ WF_newsVars(RefreshEnds) /\ WF_newsVars(CacheExpires)

NewsSpec == NewsInit /\ [][NewsNext]_newsVars /\ NewsFairness
-----------------------------------------------------------------------------
Times(p) == Cardinality({i \in DOMAIN said : said[i] = p})

(* A deploy is announced once, and once more only when the answer to the   *)
(* message, the process or the marker failed right after it; a flushed     *)
(* marker brings no old news back.  (watcher.py; announce_state.py: the    *)
(* safe direction)                                                         *)
AnnouncedOnce == \A p \in Pipelines : Times(p) <= 1 + slips

(* The marker stands at a deploy that the chat was told of, or that was    *)
(* not to be told: a failed publish does not move it.  (watcher.py)        *)
MarkedWasTold == marker # NoMark => Times(marker) > 0 \/ marker \in baseline \cup overdue

(* News arrive: once the pipelines are quiet, the marker comes to stand at *)
(* the newest deploy the bridge looks at, whatever failed before.          *)
NewsArrive == <>[](Newest = 0 \/ marker = Newest)

(* The marker and the chat agree about what was told.                      *)
NewsAreToldOnce == AnnouncedOnce /\ MarkedWasTold
=============================================================================
