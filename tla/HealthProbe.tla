------------------------------ MODULE HealthProbe ------------------------------
(***************************************************************************)
(* LLMService.health_check (services/llm.py), asked by every poll of       *)
(* /health/ready: one real call to the model per window, under a lock, with*)
(* the outcome remembered, HEALTH_OK_TTL after a success, HEALTH_FAIL_TTL  *)
(* after a failure.                                                        *)
(***************************************************************************)
EXTENDS Naturals, FiniteSets

CONSTANTS
  Polls,     \* concurrent polls of /health/ready
  MaxDrops,  \* how many callers leave in mid-call (bounds the run)
  None       \* nobody, nothing remembered

Parameters == MaxDrops \in Nat /\ None \notin Polls /\ None # "ok" /\ None # "failed"

VARIABLES
  lock,     \* the poll that holds _health_lock, or None
  health,   \* _health: "ok", "failed" or None
  poll,     \* the state of each poll, with what it was told
  calls,    \* history: calls begun since the last outcome was forgotten
  dropped   \* history: those of them whose poll was cancelled

vars == <<lock, health, poll, calls, dropped>>

Phases == {"idle", "waiting", "calling", "told ok", "told failed"}

TypeOK ==
  /\ lock \in Polls \cup {None}
  /\ health \in {"ok", "failed", None}
  /\ poll \in [Polls -> Phases]
  /\ calls \in 0 .. MaxDrops + 1
  /\ dropped \in 0 .. MaxDrops

Init ==
  /\ lock = None
  /\ health = None
  /\ poll = [p \in Polls |-> "idle"]
  /\ calls = 0
  /\ dropped = 0

-----------------------------------------------------------------------------
\* readiness_check asks for the shared service's health and waits its turn.
Arrive(p) ==
  /\ poll[p] \notin {"waiting", "calling"}
  /\ poll' = [poll EXCEPT ![p] = "waiting"]
  /\ UNCHANGED <<lock, health, calls, dropped>>

\* Slip: a failure is not an answer, so it is asked again.
RememberedOk == health = "ok"
\* The outcome is young enough to answer from.
Remembered == health # None

Told(outcome) == IF outcome = "ok" THEN "told ok" ELSE "told failed"

\* async with _health_lock: answer from memory, or call the model.
Enter(p) ==
  /\ poll[p] = "waiting"
  /\ lock = None
  /\ IF Remembered
       THEN /\ poll' = [poll EXCEPT ![p] = Told(health)]
            /\ UNCHANGED <<lock, calls>>
       ELSE /\ poll' = [poll EXCEPT ![p] = "calling"]
            /\ lock' = p
            /\ calls' = calls + 1
  /\ UNCHANGED <<health, dropped>>

\* The call answers, or fails: remembered either way, and told.
CallEnds(p) ==
  /\ poll[p] = "calling"
  /\ lock' = None
  /\ \E outcome \in {"ok", "failed"} :
       /\ health' = outcome
       /\ poll' = [poll EXCEPT ![p] = Told(outcome)]
  /\ UNCHANGED <<calls, dropped>>

\* The poller's own time limit: its request is cancelled, the lock released.
Cancelled(p) ==
  /\ \/ poll[p] = "waiting" /\ UNCHANGED <<lock, dropped>>
     \/ /\ poll[p] = "calling"
        /\ dropped < MaxDrops
        /\ lock' = None
        /\ dropped' = dropped + 1
  /\ poll' = [poll EXCEPT ![p] = "idle"]
  /\ UNCHANGED <<health, calls>>

\* HEALTH_OK_TTL or HEALTH_FAIL_TTL after the last outcome.
Forget ==
  /\ health # None
  /\ health' = None
  /\ calls' = 0
  /\ dropped' = 0
  /\ UNCHANGED <<lock, poll>>

Next ==
  \/ \E p \in Polls : Arrive(p) \/ Enter(p) \/ CallEnds(p) \/ Cancelled(p)
  \/ Forget

Spec == Init /\ [][Next]_vars

-----------------------------------------------------------------------------
(* health_check's docstring: however many polls arrive together, and       *)
(* whichever of them gives up, the model is called once per window, and    *)
(* once more for each call that was cancelled before it had an outcome.    *)
OneCallPerWindow ==
  /\ calls <= 1 + dropped
  /\ Cardinality({p \in Polls : poll[p] = "calling"}) <= 1
  /\ lock # None => poll[lock] = "calling"
=============================================================================
