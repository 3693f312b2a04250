------------------------------ MODULE Breaker ------------------------------
(***************************************************************************)
(* FailOpenMcpClient and its CircuitBreaker: calls to a tool server, which *)
(* the breaker rejects for a while after too many failures.  Turns and the *)
(* tools of one turn share the client; a call that was let through comes   *)
(* back later, in any order, when the breaker may be in another state.     *)
(*                                                                         *)
(* streak and trip are history, kept by an observer who knows what came    *)
(* back and not what the breaker counted: the failures since the last      *)
(* success, and when they were last a reason to stop calling.              *)
(***************************************************************************)
EXTENDS Naturals, FiniteSets

CONSTANTS Callers,
          Threshold,         \* failure_threshold
          ResetTimeout,      \* reset_timeout_seconds
          NotOpen,           \* _open_since = None
          MaxTick, MaxStreak \* bounds on time and on `streak'

ASSUME BreakerAssumption ==
    /\ Threshold \in Nat \ {0} /\ ResetTimeout \in Nat
    /\ MaxTick \in Nat /\ MaxStreak \in Nat /\ Threshold <= MaxStreak
    /\ NotOpen \notin Nat

VARIABLES tick, failures, openSince, calling, streak, trip
breakerVars == <<tick, failures, openSince, calling, streak, trip>>

BreakerTypeOK ==
    /\ tick \in 0..MaxTick
    /\ failures \in 0..MaxStreak
    /\ openSince \in 0..MaxTick \cup {NotOpen}
    /\ calling \subseteq Callers
    /\ streak \in 0..MaxStreak /\ trip \in 0..MaxTick

BreakerInit ==
    /\ tick = 0 /\ failures = 0 /\ openSince = NotOpen
    /\ calling = {} /\ streak = 0 /\ trip = 0
-----------------------------------------------------------------------------
State ==
    IF openSince = NotOpen THEN "closed"
    ELSE IF tick - openSince >= ResetTimeout THEN "half_open" ELSE "open"

(* allow_request; a rejected call gets the fallback and changes nothing.   *)
CallTool(c) ==
    /\ c \notin calling /\ State # "open"
    /\ calling' = calling \cup {c}
    /\ UNCHANGED <<tick, failures, openSince, streak, trip>>

RecordSuccess(c) ==
    /\ c \in calling
    /\ calling' = calling \ {c}
    /\ failures' = 0 /\ openSince' = NotOpen
    /\ streak' = 0
    /\ UNCHANGED <<tick, trip>>

(* The observer: enough failures in a row, or one more after a full pause. *)
Observe ==
    /\ streak' = streak + 1
    /\ trip' = IF \/ streak + 1 = Threshold
                  \/ streak >= Threshold /\ tick - trip >= ResetTimeout
               THEN tick ELSE trip

\* Mutant of RecordFailure: failures are not counted while the breaker is open.
RecordFailureStill(c) ==
    /\ c \in calling /\ streak < MaxStreak
    /\ calling' = calling \ {c}
    /\ IF State # "closed" THEN UNCHANGED <<failures, openSince>>
       ELSE /\ failures' = failures + 1
            /\ openSince' = IF failures + 1 >= Threshold THEN tick ELSE openSince
    /\ Observe
    /\ UNCHANGED tick

(* A failed probe opens the breaker again; other failures are counted, and *)
(* from the threshold on each one opens it from now.                       *)
RecordFailure(c) ==
    /\ c \in calling /\ streak < MaxStreak
    /\ calling' = calling \ {c}
    /\ IF State = "half_open" THEN failures' = 1 /\ openSince' = tick
       ELSE /\ failures' = failures + 1
            /\ openSince' = IF failures + 1 >= Threshold THEN tick ELSE openSince
    /\ Observe
    /\ UNCHANGED tick

TickPasses ==
    /\ tick < MaxTick
    /\ tick' = tick + 1
    /\ UNCHANGED <<failures, openSince, calling, streak, trip>>

BreakerNext ==
    TickPasses \/ \E c \in Callers : CallTool(c) \/ RecordSuccess(c) \/ RecordFailure(c)

BreakerSpec == BreakerInit /\ [][BreakerNext]_breakerVars
-----------------------------------------------------------------------------
(* A server that only fails is left alone: after Threshold failures with   *)
(* no success between them, in whatever order the calls come back, the     *)
(* breaker is not closed.  (circuit_breaker.py, record_failure)            *)
StreakOpens == streak >= Threshold => openSince # NotOpen

(* Then the pauses are whole: no call begins within the reset timeout of   *)
(* the failure that tripped the breaker, nor of a probe that failed.       *)
PausesAreWhole ==
    [][\A c \in Callers :
          CallTool(c) /\ streak >= Threshold => tick - trip >= ResetTimeout]_breakerVars

(* Half open, one probe request is allowed.  (circuit_breaker.py)          *)
OneProbe == State = "half_open" => Cardinality(calling) <= 1
=============================================================================
