---------------------------- MODULE HealthReport ----------------------------
(***************************************************************************)
(* What one run of the tool promises, whatever its monitors do: every       *)
(* target gets a verdict, nothing is published before all of them have one, *)
(* verdicts are published once each, in the order of the configuration, as  *)
(* they were reached, and a run that fails publishes nothing.               *)
(***************************************************************************)
EXTENDS Integers

VARIABLES
  targets,    \* positions in the configuration of the active apps
  up, down,   \* the targets with a verdict
  published,  \* [target, ok] of every verdict made known
  status      \* "running", "done" or "failed"

vars == <<targets, up, down, published, status>>

Published == { p.target : p \in published }

Init ==
  /\ targets \subseteq Nat
  /\ up = {}
  /\ down = {}
  /\ published = {}
  /\ status = "running"

Decide(t) ==
  /\ status = "running"
  /\ t \in targets \ (up \cup down)
  /\ \/ up' = up \cup {t} /\ down' = down
     \/ down' = down \cup {t} /\ up' = up
  /\ UNCHANGED <<targets, published, status>>

Publish(t) ==
  /\ status = "running"
  /\ up \cup down = targets
  /\ t \in targets \ Published
  /\ \A u \in targets \ Published : t <= u
  /\ published' = published \cup {[target |-> t, ok |-> t \in up]}
  /\ UNCHANGED <<targets, up, down, status>>

Finish ==
  /\ status = "running"
  /\ Published = targets
  /\ status' = "done"
  /\ UNCHANGED <<targets, up, down, published>>

Fail ==
  /\ status = "running"
  /\ published = {}
  /\ status' = "failed"
  /\ UNCHANGED <<targets, up, down, published>>

Next ==
  \/ \E t \in targets : Decide(t) \/ Publish(t)
  \/ Finish
  \/ Fail

Safety == Init /\ [][Next]_vars
Spec == Safety /\ WF_vars(Next)
=============================================================================
