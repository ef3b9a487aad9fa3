------------------------- MODULE CompletionDelivery -------------------------
(***************************************************************************)
(* What the agent promises about a background job, without sessions,       *)
(* files, wake-ups or connections: once the completion of a job has been   *)
(* persisted it is owed to the hub, and it stays owed until it has been    *)
(* handed over, unless its TTL passes or Cap later completions crowd it    *)
(* out of the backlog.                                                     *)
(***************************************************************************)
EXTENDS Naturals, FiniteSets

CONSTANTS Requests, Cap, Ageable

VARIABLES
  state, \* request -> idle, running, owed, handed or lost
  order  \* request -> position of its completion, 0 if it was not persisted

vars == <<state, order>>

Persisted == {r \in Requests : order[r] > 0}
CrowdedOut(r) == Cardinality({q \in Requests : order[q] > order[r]}) >= Cap

Init ==
  /\ state = [r \in Requests |-> "idle"]
  /\ order = [r \in Requests |-> 0]

Start(r) ==
  /\ state[r] = "idle"
  /\ state' = [state EXCEPT ![r] = "running"]
  /\ UNCHANGED order

\* The completion becomes durable.
Persist(r) ==
  /\ state[r] = "running"
  /\ state' = [state EXCEPT ![r] = "owed"]
  /\ order' = [order EXCEPT ![r] = Cardinality(Persisted) + 1]

\* A persisted completion, or one that could not be persisted, is handed over.
HandOver(r) ==
  /\ state[r] \in {"owed", "running"}
  /\ state' = [state EXCEPT ![r] = "handed"]
  /\ UNCHANGED order

\* What may disappear: work that never became durable, and completions that
\* are too old or crowded out.
MayDrop(r) ==
  \/ state[r] = "running"
  \/ state[r] = "owed" /\ (r \in Ageable \/ CrowdedOut(r))

Drop(rs) ==
  /\ \A r \in rs : MayDrop(r)
  /\ state' = [r \in Requests |-> IF r \in rs THEN "lost" ELSE state[r]]
  /\ UNCHANGED order

Next ==
  \/ \E r \in Requests : Start(r) \/ Persist(r) \/ HandOver(r)
  \/ \E rs \in SUBSET Requests : Drop(rs)

Spec == Init /\ [][Next]_vars
=============================================================================
