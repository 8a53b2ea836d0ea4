----------------------------- MODULE Lifecycle -----------------------------
(***************************************************************************)
(* recovery.Lifecycle: the state machine of one recovery session.  Every   *)
(* method runs under the lifecycle's own mutex, so a method is a function  *)
(* from the lifecycle before to the lifecycle after.  A method the code    *)
(* rejects with an error leaves the lifecycle alone; ...Allowed says when  *)
(* it is not rejected.                                                     *)
(***************************************************************************)
EXTENDS Integers

JobState == {"starting", "running", "stop_requested", "canceling_read",
             "awaiting_force_stop", "force_stopping", "checkpointing",
             "releasing_device", "stopped", "completed", "failed"}

Terminal == {"stopped", "completed", "failed"}

StopIntent == {"pause", "stop"}

LifecycleType == [state : JobState, stopIntent : StopIntent \cup {"none"},
                  activeRead : BOOLEAN, canForce : BOOLEAN, lastRequest : Nat]

NewLifecycle == [state |-> "starting", stopIntent |-> "none",
                 activeRead |-> FALSE, canForce |-> FALSE, lastRequest |-> 0]

Start(l) == IF l.state = "starting" THEN [l EXCEPT !.state = "running"] ELSE l

BeginReadAllowed(l, id) == id # 0 /\ l.state = "running" /\ ~l.activeRead

BeginRead(l, id) ==
    IF BeginReadAllowed(l, id)
    THEN [l EXCEPT !.activeRead = TRUE, !.lastRequest = id]
    ELSE l

RequestStopAllowed(l) == l.state \notin Terminal

(* Mutant: a stop request during escalation starts over. *)
RequestStopRestarts(l, intent) ==
    IF ~RequestStopAllowed(l)
    THEN l
    ELSE [l EXCEPT !.stopIntent = intent,
                   !.state = IF l.activeRead THEN "canceling_read" ELSE "checkpointing"]

RequestStop(l, intent) ==
    IF ~RequestStopAllowed(l)
       \/ l.state \in {"stop_requested", "canceling_read", "awaiting_force_stop",
                       "force_stopping"}
    THEN l
    ELSE [l EXCEPT !.stopIntent = intent,
                   !.state = IF l.activeRead THEN "canceling_read" ELSE "checkpointing"]

CompleteReadAllowed(l, id) == l.activeRead /\ id = l.lastRequest

CompleteRead(l, id) ==
    IF ~CompleteReadAllowed(l, id)
    THEN l
    ELSE [l EXCEPT !.activeRead = FALSE,
                   !.state = IF @ \in {"canceling_read", "force_stopping"}
                             THEN "checkpointing" ELSE @,
                   !.lastRequest = IF l.state = "running" THEN 0 ELSE @]

GraceExpired(l) ==
    IF l.state = "canceling_read"
    THEN [l EXCEPT !.state = "awaiting_force_stop", !.canForce = TRUE]
    ELSE l

ForceStopAllowed(l) == l.state = "awaiting_force_stop" /\ l.canForce

ForceStop(l) ==
    IF ForceStopAllowed(l)
    THEN [l EXCEPT !.state = "force_stopping", !.canForce = FALSE]
    ELSE l

CheckpointedAllowed(l) == l.state \in {"checkpointing", "force_stopping"}

Checkpointed(l) ==
    IF CheckpointedAllowed(l) THEN [l EXCEPT !.state = "releasing_device"] ELSE l

Complete(l) ==
    IF l.state = "running" THEN [l EXCEPT !.state = "checkpointing"] ELSE l

ReleasedAllowed(l) == l.state = "releasing_device"

Released(l, completed) ==
    IF ReleasedAllowed(l)
    THEN [l EXCEPT !.state = IF completed THEN "completed" ELSE "stopped"]
    ELSE l

LifecycleFail(l) == [l EXCEPT !.state = "failed", !.canForce = FALSE]

(* How far a session has come; JobState is documented to be monotonic. *)
Rank(state) ==
    CASE state = "starting" -> 0
      [] state = "running" -> 1
      [] state = "stop_requested" -> 2
      [] state = "canceling_read" -> 3
      [] state = "awaiting_force_stop" -> 4
      [] state = "force_stopping" -> 5
      [] state = "checkpointing" -> 6
      [] state = "releasing_device" -> 7
      [] state \in Terminal -> 8
============================================================================
