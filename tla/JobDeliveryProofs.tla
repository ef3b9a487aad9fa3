------------------------- MODULE JobDeliveryProofs -------------------------
(***************************************************************************)
(* Proofs about JobDelivery, for any number of requests, any cap and any   *)
(* number of lost connections, crashes and I/O errors.                     *)
(***************************************************************************)
EXTENDS JobDelivery, FiniteSetTheorems, TLAPS

(***************************************************************************)
(* Type correctness.                                                       *)
(***************************************************************************)

\* Every set of requests has a cardinality.
LEMMA RequestSets ==
  ASSUME NEW S \in SUBSET Requests
  PROVE  IsFiniteSet(S) /\ Cardinality(S) \in Nat
BY RequestsAssumption, FS_Subset, FS_CardinalityType

\* The initial state is well typed.
LEMMA TypeInit == Init => TypeOK
<1> SUFFICES ASSUME Init PROVE TypeOK
  OBVIOUS
<1>1. 0 \in 0..MaxLosses /\ 0 \in 0..MaxCrashes /\ 0 \in 0..MaxFaults
  BY BoundAssumption
<1> QED
  BY <1>1, Zenon DEF Init, TypeOK, Phases, InSession

\* The steps of a worker task keep the types.
LEMMA TypeWorker ==
  ASSUME TypeOK, NEW r \in Requests, Accept(r) \/ Worker(r)
  PROVE  TypeOK'
<1> USE DEF TypeOK, workVars, storeVars, sessVars, netVars, sentVars, boundVars
<1>1. CASE Accept(r)
  BY <1>1 DEF Accept, Phases, InSession
<1>2. CASE Dispatched(r)
  BY <1>2 DEF Dispatched, Phases
<1>3. CASE Commit(r)
  <2>1. Cardinality({q \in Requests : stamp[q] > 0}) + 1 \in Nat
    BY RequestSets
  <2>2. JobOf[r] \in Jobs
    BY DEF Jobs
  <2> QED
    BY <1>3, <2>1, <2>2 DEF Commit, Phases
<1>4. CASE Prune(r)
  BY <1>4 DEF Prune, Without, Phases
<1>5. CASE Notify(r)
  BY <1>5 DEF Notify, NotifyOne, Phases
<1>6. CASE RecordFails(r)
  BY <1>6, BoundAssumption DEF RecordFails, Phases
<1>7. CASE Fallback(r)
  BY <1>7 DEF Fallback, Phases
<1> QED
  BY <1>1, <1>2, <1>3, <1>4, <1>5, <1>6, <1>7 DEF Worker

\* The steps of the session and of the environment keep the types.
LEMMA TypeSession ==
  ASSUME TypeOK,
         \/ Connect \/ Drain \/ DrainFails \/ Clear \/ ClearFails \/ ReplayDone
         \/ PollNotification \/ Heartbeat \/ Lost \/ Break \/ Crash \/ Restart
         \/ \E r \in Requests : SendNext(r) \/ SendQueued(r) \/ Receive(r) \/ Age(r)
  PROVE  TypeOK'
<1> USE DEF TypeOK, InSession, workVars, storeVars, sessVars, netVars, sentVars, boundVars
<1>1. CASE Connect
  BY <1>1 DEF Connect
<1>2. CASE Drain
  BY <1>2 DEF Drain, Files, Without
<1>3. CASE DrainFails
  BY <1>3, BoundAssumption DEF DrainFails
<1>4. CASE Clear
  BY <1>4 DEF Clear, Without
<1>5. CASE ClearFails
  BY <1>5, BoundAssumption DEF ClearFails
<1>6. CASE ReplayDone
  BY <1>6 DEF ReplayDone
<1>7. CASE PollNotification
  BY <1>7 DEF PollNotification
<1>8. CASE Heartbeat
  BY <1>8 DEF Heartbeat
<1>9. CASE Lost
  BY <1>9 DEF Lost, EndSession, DropWaiter
<1>10. CASE Break
  BY <1>10, BoundAssumption DEF Break
<1>11. CASE Crash
  <2>1. phase' \in [Requests -> Phases]
    BY <1>11 DEF Crash, Phases
  <2>2. crashes' \in 0..MaxCrashes
    BY <1>11, BoundAssumption DEF Crash
  <2> QED
    BY <1>11, <2>1, <2>2 DEF Crash
<1>12. CASE Restart
  BY <1>12 DEF Restart
<1>13. ASSUME NEW r \in Requests, SendNext(r) PROVE TypeOK'
  BY <1>13 DEF SendNext, Transmit
<1>14. ASSUME NEW r \in Requests, SendQueued(r) PROVE TypeOK'
  BY <1>14 DEF SendQueued, Transmit
<1>15. ASSUME NEW r \in Requests, Receive(r) PROVE TypeOK'
  BY <1>15 DEF Receive
<1>16. ASSUME NEW r \in Requests, Age(r) PROVE TypeOK'
  BY <1>16 DEF Age
<1> QED
  BY <1>1, <1>2, <1>3, <1>4, <1>5, <1>6, <1>7, <1>8, <1>9, <1>10, <1>11, <1>12,
     <1>13, <1>14, <1>15, <1>16

\* Every step keeps the types.
LEMMA TypeNext == TypeOK /\ [Next]_vars => TypeOK'
<1>1. CASE UNCHANGED vars
  BY <1>1 DEF TypeOK, vars
<1> QED
  BY <1>1, TypeWorker, TypeSession DEF Next

(* The variables of the agent, the store and the network keep their types, *)
(* whatever the order of requests, replays, losses and crashes.            *)
THEOREM TypeCorrect == Spec => []TypeOK
BY TypeInit, TypeNext, PTL DEF Spec

(***************************************************************************)
(* A persisted completion stays until it is sent.                          *)
(*                                                                         *)
(* The property is not inductive.  That an evicted file was outlived by    *)
(* Cap others takes the order of the stamps and the fact that two files    *)
(* never hold the same request; that a cleared file had been sent takes    *)
(* the session's record of what it is clearing, and ids of their own.      *)
(***************************************************************************)

\* No two requests carry the same job_id.
OwnJob == \A q, r \in Requests : JobOf[q] = JobOf[r] => q = r

Stamped == {q \in Requests : stamp[q] > 0}

\* A file is named after the job whose completion it holds.
Placed == \A j \in Files : JobOf[store[j]] = j /\ stamp[store[j]] > 0

\* Stamps are handed out in order, each to one request.
Ordered ==
  /\ \A r \in Requests : stamp[r] <= Cardinality(Stamped)
  /\ \A q, r \in Stamped : stamp[q] = stamp[r] => q = r

Unstamped ==
  \A r \in Requests : phase[r] \in {"none", "running", "recording"} => stamp[r] = 0

\* What the session is about to clear, it has sent.
Accepted == pc = "clear" => current \in handed

PersistInv ==
  TypeOK /\ Placed /\ Ordered /\ Unstamped /\ Accepted /\ PersistedUntilSent

\* A victim of the prune has been outlived by Cap other completions.
LEMMA VictimOutlived ==
  ASSUME TypeOK, Placed, Ordered, NEW n \in Victims(Files, MTime, Cap)
  PROVE  n \in Files /\ Outlived(store[n])
<1> DEFINE A == After(Files, MTime, n)
           B == {q \in Requests : stamp[q] > stamp[store[n]]}
           f == [m \in A |-> store[m]]
<1>1. n \in Files /\ Cardinality(A) >= Cap
  BY DEF Victims
<1>2. \A m \in Files : store[m] \in Requests /\ stamp[store[m]] \in Nat
  BY DEF Files, TypeOK
<1>3. \A m \in A : m \in Files /\ stamp[store[m]] >= stamp[store[n]] /\ m # n
  <2> SUFFICES ASSUME NEW m \in A
               PROVE  m \in Files /\ stamp[store[m]] >= stamp[store[n]] /\ m # n
    OBVIOUS
  <2>1. m \in Files /\ Later(MTime, m, n)
    BY DEF After
  <2>2. MTime[m] = stamp[store[m]] /\ MTime[n] = stamp[store[n]]
    BY <1>1, <2>1 DEF MTime
  <2>3. m \in Nat /\ n \in Nat
    BY <1>1, <2>1, JobAssumption DEF Files, Jobs
  <2> QED
    BY <1>1, <1>2, <2>1, <2>2, <2>3 DEF Later
<1>4. \A m \in A : store[m] \in B
  <2> SUFFICES ASSUME NEW m \in A PROVE store[m] \in B
    OBVIOUS
  <2>1. store[m] # store[n]
    BY <1>1, <1>3 DEF Placed
  <2>2. stamp[store[m]] # stamp[store[n]]
    BY <1>1, <1>2, <1>3, <2>1 DEF Ordered, Placed, Stamped
  <2> QED
    BY <1>1, <1>2, <1>3, <2>2
<1>5. \A m, k \in A : store[m] = store[k] => m = k
  BY <1>3 DEF Placed
<1>6. f \in Injection(A, B)
  BY <1>4, <1>5 DEF Injection, IsInjective
<1>7. IsFiniteSet(B) /\ Cardinality(B) \in Nat
  BY RequestSets
<1>8. IsFiniteSet(A) /\ Cardinality(A) <= Cardinality(B)
  BY <1>6, <1>7, FS_Injection
<1>9. Cardinality(A) \in Nat
  BY <1>8, FS_CardinalityType
<1> QED
  BY <1>1, <1>7, <1>8, <1>9, CapAssumption DEF Outlived

\* Removing files that may go, and nothing else, keeps the promise.
LEMMA Removal ==
  ASSUME PersistInv, TypeOK', NEW gone, store' = Without(gone), stamp' = stamp,
         handed \subseteq handed', expired \subseteq expired',
         \A j \in Files \cap gone :
           store[j] \in handed' \/ store[j] \in expired' \/ Outlived(store[j])
  PROVE  Placed' /\ Ordered' /\ PersistedUntilSent'
<1> USE DEF PersistInv
<1>1. Placed'
  BY DEF Placed, Files, Without
<1>2. Ordered'
  BY DEF Ordered, Stamped
<1>3. \A r \in Requests : Outlived(r)' <=> Outlived(r)
  BY DEF Outlived
<1>4. \A r \in Requests : Superseded(r)' <=> Superseded(r)
  BY DEF Superseded
<1>5. PersistedUntilSent'
  <2> SUFFICES ASSUME NEW r \in Requests, stamp[r] > 0, ~Stored(r)'
               PROVE  r \in handed' \/ r \in expired' \/ Outlived(r) \/ Superseded(r)
    BY <1>3, <1>4 DEF PersistedUntilSent
  <2>1. CASE ~Stored(r)
    BY <2>1 DEF PersistedUntilSent
  <2>2. CASE Stored(r)
    <3>1. JobOf[r] \in Files /\ store[JobOf[r]] = r
      BY <2>2, RequestsAssumption DEF Stored, Files, Jobs
    <3>2. JobOf[r] \in gone
      BY <3>1 DEF Stored, Without, Files
    <3> QED
      BY <3>1, <3>2
  <2> QED
    BY <2>1, <2>2
<1> QED
  BY <1>1, <1>2, <1>5

\* A step that leaves the files alone keeps the promise.
LEMMA Frame ==
  ASSUME PersistInv, TypeOK', store' = store, stamp' = stamp,
         handed \subseteq handed', expired \subseteq expired'
  PROVE  Placed' /\ Ordered' /\ PersistedUntilSent'
<1>1. store' = Without({})
  BY DEF PersistInv, TypeOK, Without
<1> QED
  BY <1>1, Removal

\* A commit is the youngest completion; it outlives others, and none of them it.
LEMMA CommitKeeps ==
  ASSUME OwnJob, PersistInv, TypeOK', NEW r \in Requests, Commit(r)
  PROVE  Placed' /\ Ordered' /\ PersistedUntilSent'
<1> USE DEF PersistInv
<1> DEFINE c == Cardinality(Stamped)
<1>1. /\ stamp[r] = 0
      /\ stamp' = [stamp EXCEPT ![r] = c + 1]
      /\ store' = [store EXCEPT ![JobOf[r]] = r]
      /\ handed' = handed /\ expired' = expired
  BY DEF Commit, Unstamped, Stamped, sentVars
<1>2. IsFiniteSet(Stamped) /\ c \in Nat
  BY RequestSets DEF Stamped
<1>3. \A q \in Requests : stamp[q] \in Nat /\ stamp[q] <= c
  BY DEF TypeOK, Ordered
<1>4. stamp'[r] = c + 1 /\ \A q \in Requests \ {r} : stamp'[q] = stamp[q]
  BY <1>1 DEF TypeOK
<1>5. Stamped' = Stamped \cup {r} /\ r \notin Stamped
  <2> HIDE DEF c
  <2> QED
    BY <1>1, <1>2, <1>4 DEF Stamped
<1>6. Cardinality(Stamped') = c + 1
  BY <1>2, <1>5, FS_AddElement
<1>7. Ordered'
  <2>1. ASSUME NEW q \in Requests PROVE stamp'[q] <= Cardinality(Stamped')
    BY <1>2, <1>3, <1>4, <1>6
  <2>2. ASSUME NEW q \in Stamped', NEW p \in Stamped', stamp'[q] = stamp'[p]
        PROVE  q = p
    <3>1. \A x \in Stamped : stamp'[x] = stamp[x] /\ stamp'[x] < c + 1
      BY <1>2, <1>3, <1>4, <1>5 DEF Stamped
    <3>2. CASE q \in Stamped /\ p \in Stamped
      BY <2>2, <3>1, <3>2 DEF Ordered
    <3>3. CASE q = r \/ p = r
      BY <1>2, <1>4, <1>5, <2>2, <3>1, <3>3
    <3> QED
      BY <1>5, <3>2, <3>3
  <2> QED
    BY <2>1, <2>2 DEF Ordered
<1>8. Placed'
  <2> SUFFICES ASSUME NEW j \in Files'
               PROVE  JobOf[store'[j]] = j /\ stamp'[store'[j]] > 0
    BY DEF Placed
  <2>1. CASE j = JobOf[r]
    <3>1. store'[j] = r
      BY <1>1, <2>1 DEF TypeOK, Jobs
    <3> QED
      BY <1>2, <1>4, <2>1, <3>1
  <2>2. CASE j # JobOf[r]
    <3>1. j \in Files /\ store'[j] = store[j] /\ store[j] \in Requests
      BY <1>1, <2>2 DEF Files, TypeOK
    <3>2. JobOf[store[j]] = j /\ stamp[store[j]] > 0
      BY <3>1 DEF Placed
    <3>3. store[j] # r
      BY <2>2, <3>2
    <3> QED
      BY <1>4, <3>1, <3>2, <3>3
  <2> QED
    BY <2>1, <2>2
<1>9. PersistedUntilSent'
  <2> SUFFICES ASSUME NEW q \in Requests, stamp'[q] > 0, ~Stored(q)'
               PROVE  (q \in handed \/ q \in expired \/ Outlived(q) \/ Superseded(q))'
    BY DEF PersistedUntilSent
  <2>1. q # r
    BY <1>1, JobAssumption DEF Stored, TypeOK, Jobs
  <2>2. stamp[q] > 0 /\ stamp'[q] = stamp[q]
    BY <1>4, <2>1
  <2>3. ~Stored(q)
    BY <1>1, <2>1 DEF Stored, OwnJob, TypeOK, Jobs
  <2>4. Outlived(q) => Outlived(q)'
    <3> DEFINE B == {p \in Requests : stamp[p] > stamp[q]}
               C == {p \in Requests : stamp'[p] > stamp'[q]}
    <3>1. B \subseteq C
      BY <1>1, <1>3, <1>4, <2>2
    <3>2. IsFiniteSet(C) /\ Cardinality(C) \in Nat /\ Cardinality(B) \in Nat
      BY RequestSets
    <3>3. Cardinality(B) <= Cardinality(C)
      BY <3>1, <3>2, FS_Subset
    <3> QED
      BY <3>2, <3>3, CapAssumption DEF Outlived
  <2>5. Superseded(q) => Superseded(q)'
    BY <1>1, <1>3, <1>4, <2>2 DEF Superseded
  <2> QED
    BY <1>1, <2>2, <2>3, <2>4, <2>5 DEF PersistedUntilSent
<1> QED
  BY <1>7, <1>8, <1>9

\* The worker tasks: only a commit and a prune touch the files.
LEMMA PersistWorker ==
  ASSUME OwnJob, PersistInv, TypeOK', NEW r \in Requests, Accept(r) \/ Worker(r)
  PROVE  PersistInv'
<1> USE DEF PersistInv, workVars, storeVars, sessVars, netVars, sentVars, boundVars
<1>1. CASE Commit(r)
  <2>1. Unstamped' /\ Accepted'
    BY <1>1 DEF Commit, Unstamped, Accepted, TypeOK
  <2> QED
    BY <1>1, <2>1, CommitKeeps
<1>2. CASE Prune(r)
  <2>1. \A j \in Files \cap Victims(Files, MTime, Cap) : Outlived(store[j])
    BY VictimOutlived
  <2>2. Unstamped' /\ Accepted'
    BY <1>2 DEF Prune, Unstamped, Accepted, TypeOK
  <2> QED
    BY <1>2, <2>1, <2>2, Removal DEF Prune
<1>3. ASSUME Accept(r) \/ Dispatched(r) \/ Notify(r) \/ RecordFails(r) \/ Fallback(r)
      PROVE  PersistInv'
  <2>1. UNCHANGED <<store, stamp, expired, handed, pc, current>>
    BY <1>3 DEF Accept, Dispatched, Notify, RecordFails, Fallback
  <2>2. Unstamped' /\ Accepted'
    <3>1. \A q \in Requests : phase'[q] \in {"none", "running", "recording"} =>
            phase[q] \in {"none", "running", "recording"}
      BY <1>3 DEF Accept, Dispatched, Notify, RecordFails, Fallback, TypeOK
    <3> QED
      BY <2>1, <3>1 DEF Unstamped, Accepted
  <2> QED
    BY <2>1, <2>2, Frame
<1> QED
  BY <1>1, <1>2, <1>3 DEF Worker

\* The session and the environment: a drain removes what has expired, a clear
\* what has been sent.
LEMMA PersistSession ==
  ASSUME OwnJob, PersistInv, TypeOK',
         \/ Connect \/ Drain \/ DrainFails \/ Clear \/ ClearFails \/ ReplayDone
         \/ PollNotification \/ Heartbeat \/ Lost \/ Break \/ Crash \/ Restart
         \/ \E r \in Requests : SendNext(r) \/ SendQueued(r) \/ Receive(r) \/ Age(r)
  PROVE  PersistInv'
<1> USE DEF PersistInv, workVars, storeVars, sessVars, netVars, sentVars, boundVars
<1>1. CASE Drain
  <2>1. Unstamped' /\ Accepted'
    BY <1>1 DEF Drain, Unstamped, Accepted
  <2> QED
    BY <1>1, <2>1, Removal DEF Drain
<1>2. CASE Clear
  <2>1. \A j \in Files \cap {JobOf[current]} : store[j] \in handed
    <3> SUFFICES ASSUME JobOf[current] \in Files PROVE store[JobOf[current]] \in handed
      OBVIOUS
    <3>1. current \in Requests /\ current \in handed
      BY <1>2 DEF Clear, Accepted, TypeOK
    <3>2. store[JobOf[current]] \in Requests
      BY DEF Files, TypeOK
    <3>3. store[JobOf[current]] = current
      BY <3>1, <3>2 DEF Placed, OwnJob
    <3> QED
      BY <3>1, <3>3
  <2>2. Unstamped' /\ Accepted'
    BY <1>2 DEF Clear, Unstamped, Accepted
  <2> QED
    BY <1>2, <2>1, <2>2, Removal DEF Clear
<1>3. ASSUME \/ Connect \/ DrainFails \/ ClearFails \/ ReplayDone
             \/ PollNotification \/ Heartbeat \/ Lost \/ Break \/ Crash \/ Restart
             \/ \E r \in Requests : SendNext(r) \/ SendQueued(r) \/ Receive(r) \/ Age(r)
      PROVE  PersistInv'
  <2>1. UNCHANGED <<store, stamp>> /\ handed \subseteq handed' /\ expired \subseteq expired'
    BY <1>3 DEF Connect, DrainFails, ClearFails, ReplayDone, PollNotification, Heartbeat,
         Lost, EndSession, Break, Crash, Restart, SendNext, SendQueued, Receive, Age
  <2>2. Accepted'
    <3>1. ASSUME NEW r \in Requests, SendNext(r) PROVE Accepted'
      BY <3>1 DEF Accepted, SendNext
    <3>2. ASSUME NEW r \in Requests, SendQueued(r) \/ Receive(r) \/ Age(r)
          PROVE  Accepted'
      BY <3>2 DEF Accepted, SendQueued, Receive, Age
    <3>3. CASE \/ Connect \/ DrainFails \/ ClearFails \/ ReplayDone \/ PollNotification
               \/ Heartbeat \/ Lost \/ Break \/ Crash \/ Restart
      <4>1. CASE Break \/ PollNotification
        BY <4>1 DEF Accepted, Break, PollNotification
      <4>2. CASE ~(Break \/ PollNotification)
        <5>1. pc' # "clear"
          BY <3>3, <4>2 DEF Connect, DrainFails, ClearFails, ReplayDone, Heartbeat, Lost,
               EndSession, Crash, Restart
        <5> QED
          BY <5>1 DEF Accepted
      <4> QED
        BY <4>1, <4>2
    <3> QED
      BY <1>3, <3>1, <3>2, <3>3
  <2>3. Unstamped'
    <3>1. \A q \in Requests : phase'[q] = phase[q] \/ phase'[q] = "killed"
      <4>1. CASE Crash
        BY <4>1 DEF Crash
      <4>2. CASE ~Crash
        BY <1>3, <4>2 DEF Connect, DrainFails, ClearFails, ReplayDone, PollNotification,
          Heartbeat, Lost, Break, Restart, SendNext, SendQueued, Receive, Age
      <4> QED
        BY <4>1, <4>2
    <3> QED
      BY <2>1, <3>1 DEF Unstamped
  <2> QED
    BY <2>1, <2>2, <2>3, Frame
<1> QED
  BY <1>1, <1>2, <1>3

\* The invariant holds at first and is kept by every step.
LEMMA PersistInductive ==
  ASSUME OwnJob
  PROVE  /\ Init => PersistInv
         /\ PersistInv /\ [Next]_vars => PersistInv'
<1>1. ASSUME Init PROVE PersistInv
  <2>1. IsFiniteSet(Stamped) /\ Cardinality(Stamped) \in Nat
    BY RequestSets DEF Stamped
  <2>2. \A r \in Requests : stamp[r] = 0
    BY <1>1 DEF Init
  <2>3. Placed /\ Unstamped /\ Accepted /\ PersistedUntilSent
    BY <1>1, <2>2 DEF Init, Placed, Files, Unstamped, Accepted, PersistedUntilSent
  <2>4. Ordered
    <3>1. Stamped = {}
      BY <2>2 DEF Stamped
    <3> QED
      BY <2>1, <2>2, <3>1 DEF Ordered
  <2> QED
    BY <1>1, <2>3, <2>4, TypeInit DEF PersistInv
<1>2. ASSUME PersistInv, [Next]_vars PROVE PersistInv'
  <2>1. TypeOK'
    BY <1>2, TypeNext DEF PersistInv
  <2>2. CASE UNCHANGED vars
    <3>1. Placed' /\ Ordered' /\ PersistedUntilSent'
      BY <1>2, <2>1, <2>2, Frame DEF vars
    <3> QED
      BY <1>2, <2>1, <2>2, <3>1 DEF PersistInv, Unstamped, Accepted, vars
  <2>3. CASE Next
    BY <1>2, <2>1, <2>3, PersistWorker, PersistSession DEF Next
  <2> QED
    BY <1>2, <2>2, <2>3
<1> QED
  BY <1>1, <1>2

(* When every request has a job_id of its own, a completion that was       *)
(* persisted stays in the store until a send of it has succeeded, its TTL  *)
(* has passed or Cap later completions have crowded it out: for any number *)
(* of jobs, sessions, crashes and I/O errors, in any interleaving.         *)
THEOREM PersistedUntilSentHolds == OwnJob => (Spec => []PersistedUntilSent)
<1> SUFFICES ASSUME OwnJob PROVE Spec => []PersistedUntilSent
  OBVIOUS
<1>1. Init => PersistInv
  BY PersistInductive
<1>2. PersistInv /\ [Next]_vars => PersistInv'
  BY PersistInductive
<1>3. PersistInv => PersistedUntilSent
  BY DEF PersistInv
<1> QED
  BY <1>1, <1>2, <1>3, PTL DEF Spec

(***************************************************************************)
(* No wake-up is lost.                                                     *)
(*                                                                         *)
(* During a replay an announced completion may still be in the snapshot,   *)
(* so the property speaks too late; and the future that ReplayDone drops   *)
(* must not be one that has been granted.                                  *)
(***************************************************************************)

Granted == permit \/ waiter = "granted"

\* A replay started by the notification has consumed its future.
Consumed == why = "notify" /\ pc \in {"drain", "send", "clear"} => waiter = "none"

\* The loop selects only when the snapshot is used up.
Replayed == pc = "idle" => batch = {}

\* What is announced and stored is in the snapshot, being cleared or signalled.
Signalled ==
  pc \in {"send", "clear", "idle"} /\ faults = 0 =>
    \A r \in Requests :
      Announced(r) => r \in batch \/ (pc = "clear" /\ r = current) \/ Granted

WakeInv == TypeOK /\ Consumed /\ Replayed /\ Signalled

\* A step outside the replay that takes no signal away.
LEMMA WakeFrame ==
  ASSUME WakeInv, TypeOK', UNCHANGED <<pc, why, batch, current>>,
         faults' = 0 => faults = 0, Granted => Granted',
         waiter = "none" => waiter' = "none",
         \A r \in Requests : Announced(r)' => Announced(r) \/ Granted'
  PROVE  WakeInv'
BY DEF WakeInv, Consumed, Replayed, Signalled

\* The worker tasks: a completion is announced by the signal it leaves.
LEMMA WakeWorker ==
  ASSUME WakeInv, TypeOK', NEW r \in Requests, Accept(r) \/ Worker(r)
  PROVE  WakeInv'
<1> USE DEF WakeInv, workVars, storeVars, sessVars, netVars, sentVars, boundVars
<1>1. CASE Commit(r)
  <2>1. \A q \in Requests : Announced(q)' => Announced(q)
    BY <1>1, JobAssumption DEF Commit, Announced, Stored, TypeOK, Jobs
  <2> QED
    BY <1>1, <2>1, WakeFrame DEF Commit, Granted
<1>2. CASE Prune(r)
  <2>1. \A q \in Requests : JobOf[q] \in Jobs
    BY DEF Jobs
  <2>2. \A q \in Requests : Announced(q)' => Announced(q)
    BY <1>2, <2>1, RequestsAssumption DEF Prune, Without, Announced, Stored, TypeOK
  <2> QED
    BY <1>2, <2>2, WakeFrame DEF Prune, Granted
<1>3. CASE Notify(r)
  <2>1. Granted' /\ (waiter = "none" => waiter' = "none")
    BY <1>3 DEF Notify, NotifyOne, Granted
  <2> QED
    BY <1>3, <2>1, WakeFrame DEF Notify
<1>4. CASE Accept(r) \/ Dispatched(r) \/ RecordFails(r) \/ Fallback(r)
  <2>1. \A q \in Requests : Announced(q)' => Announced(q)
    BY <1>4 DEF Accept, Dispatched, RecordFails, Fallback, Announced, Stored, TypeOK
  <2>2. UNCHANGED <<pc, why, batch, current, permit, waiter>> /\ (faults' = 0 => faults = 0)
    BY <1>4 DEF Accept, Dispatched, RecordFails, Fallback, TypeOK
  <2> QED
    BY <2>1, <2>2, WakeFrame DEF Granted
<1> QED
  BY <1>1, <1>2, <1>3, <1>4 DEF Worker

\* The session and the environment.
LEMMA WakeSession ==
  ASSUME WakeInv, TypeOK',
         \/ Connect \/ Drain \/ DrainFails \/ Clear \/ ClearFails \/ ReplayDone
         \/ PollNotification \/ Heartbeat \/ Lost \/ Break \/ Crash \/ Restart
         \/ \E r \in Requests : SendNext(r) \/ SendQueued(r) \/ Receive(r) \/ Age(r)
  PROVE  WakeInv'
<1> USE DEF WakeInv, workVars, storeVars, sessVars, netVars, sentVars, boundVars
<1>1. CASE Drain
  <2>1. \A r \in Requests : Stored(r)' => r \in batch'
    BY <1>1, RequestsAssumption DEF Drain, Stored, Without, Files, Jobs
  <2> QED
    BY <1>1, <2>1 DEF Drain, Consumed, Replayed, Signalled, Announced
<1>2. CASE Clear
  <2>1. \A r \in Requests : JobOf[r] \in Jobs
    BY DEF Jobs
  <2>2. \A r \in Requests : Announced(r)' => Announced(r) /\ r # current
    BY <1>2, <2>1, RequestsAssumption DEF Clear, Announced, Stored, Without
  <2> QED
    BY <1>2, <2>2 DEF Clear, Consumed, Replayed, Signalled, Granted
<1>3. CASE DrainFails \/ ClearFails
  <2>1. faults' # 0
    BY <1>3 DEF DrainFails, ClearFails, TypeOK
  <2> QED
    BY <1>3, <2>1 DEF DrainFails, ClearFails, Consumed, Replayed, Signalled
<1>4. CASE ReplayDone
  <2>1. Granted' <=> Granted
    BY <1>4 DEF ReplayDone, Consumed, Granted
  <2>2. \A r \in Requests : Announced(r)' <=> Announced(r)
    BY <1>4 DEF ReplayDone, Announced, Stored
  <2> QED
    BY <1>4, <2>1, <2>2 DEF ReplayDone, Consumed, Replayed, Signalled
<1>5. CASE PollNotification
  <2>1. \A r \in Requests : Announced(r)' <=> Announced(r)
    BY <1>5 DEF PollNotification, Announced, Stored
  <2> QED
    BY <1>5, <2>1 DEF PollNotification, Consumed, Replayed, Signalled, Granted
<1>6. CASE Connect \/ Heartbeat \/ Lost \/ Crash \/ Restart
  <2>1. pc' \in {"down", "dead"} \/ (pc' = "drain" /\ why' # "notify")
    BY <1>6 DEF Connect, Heartbeat, Lost, EndSession, Crash, Restart
  <2> QED
    BY <2>1 DEF Consumed, Replayed, Signalled
<1>7. CASE Break
  BY <1>7, WakeFrame DEF Break, Granted, Announced, Stored
<1>8. ASSUME NEW r \in Requests, SendNext(r) PROVE WakeInv'
  <2>1. \A q \in Requests : Announced(q)' <=> Announced(q)
    BY <1>8 DEF SendNext, Announced, Stored
  <2> QED
    BY <1>8, <2>1 DEF SendNext, Consumed, Replayed, Signalled, Granted
<1>9. ASSUME NEW r \in Requests, SendQueued(r) \/ Receive(r) \/ Age(r) PROVE WakeInv'
  BY <1>9, WakeFrame DEF SendQueued, Receive, Age, Granted, Announced, Stored
<1> QED
  BY <1>1, <1>2, <1>3, <1>4, <1>5, <1>6, <1>7, <1>8, <1>9

(* A completion that is stored and announced when the session selects has  *)
(* left a permit or a granted future behind: no interleaving of replays,   *)
(* completions and lost sessions swallows the wake-up.                     *)
THEOREM WakeupNotLostHolds == Spec => []WakeupNotLost
<1>1. Init => WakeInv
  BY TypeInit DEF Init, WakeInv, Consumed, Replayed, Signalled
<1>2. WakeInv /\ [Next]_vars => WakeInv'
  <2> SUFFICES ASSUME WakeInv, [Next]_vars PROVE WakeInv'
    OBVIOUS
  <2>1. TypeOK'
    BY TypeNext DEF WakeInv
  <2>2. CASE UNCHANGED vars
    BY <2>1, <2>2, WakeFrame DEF vars, Granted, Announced, Stored
  <2>3. CASE Next
    BY <2>1, <2>3, WakeWorker, WakeSession DEF Next
  <2> QED
    BY <2>2, <2>3
<1>3. WakeInv => WakeupNotLost
  BY DEF WakeInv, Replayed, Signalled, WakeupNotLost, Granted
<1> QED
  BY <1>1, <1>2, <1>3, PTL DEF Spec

(***************************************************************************)
(* JobDelivery implements CompletionDelivery.                              *)
(*                                                                         *)
(* A step that takes completions away does so to several at once: a drain, *)
(* a prune, a lost session.  What is lost must be running, too old or      *)
(* crowded out at that moment; for a snapshot that a lost session throws   *)
(* away this is what PersistedUntilSent says of its files.                 *)
(***************************************************************************)

\* The snapshot is empty until it is drained, and holds what was persisted.
Snapshot ==
  /\ pc \notin {"send", "clear"} => batch = {}
  /\ batch \subseteq Stamped

\* What is queued was not persisted, and its task has ended.
Queued == \A r \in chan : phase[r] = "done" /\ stamp[r] = 0

\* Before its end a task has neither persisted nor sent its completion.
Early ==
  \A r \in Requests :
    /\ phase[r] \in {"none", "running", "recording", "fallback"} => stamp[r] = 0
    /\ phase[r] \in {"none", "running", "recording"} => r \notin handed

Aged == expired \subseteq Ageable

\* What a replay of this session has sent is gone, or about to be cleared.
Replays ==
  faults = 0 =>
    \A r \in sentNow :
      stamp[r] > 0 /\ r \notin batch /\ (Stored(r) => pc = "clear" /\ current = r)

SessionInv == TypeOK /\ Snapshot /\ Queued /\ Early /\ Aged /\ Placed

\* The snapshot and the queue shrink, and what they lose in a session is sent.
LEMMA SessionFrame ==
  ASSUME SessionInv, TypeOK', batch' \subseteq batch, chan' \subseteq chan,
         stamp' = stamp, expired' \subseteq Ageable,
         pc' \notin {"send", "clear"} => batch' = {},
         \A r \in Requests : \/ phase'[r] = phase[r]
                             \/ phase[r] # "done" /\ phase'[r] = "killed"
                             \/ phase[r] = "none" /\ phase'[r] = "running"
                             \/ phase[r] = "running" /\ phase'[r] = "recording"
                             \/ phase[r] = "recording" /\ phase'[r] = "fallback"
                             \/ phase[r] = "committed" /\ phase'[r] = "notifying"
                             \/ phase[r] = "notifying" /\ phase'[r] = "done",
         handed' \subseteq handed \cup batch \cup chan,
         \A j \in Jobs : store'[j] \in {store[j], None}
  PROVE  SessionInv'
<1> USE DEF SessionInv
<1>1. Stamped' = Stamped
  BY DEF Stamped
<1>2. Snapshot' /\ Aged'
  BY <1>1 DEF Snapshot, Aged
<1>3. Queued'
  BY DEF Queued, TypeOK
<1>4. Early'
  BY DEF Early, Snapshot, Queued, Stamped
<1>5. Placed'
  BY DEF Placed, Files
<1> QED
  BY <1>2, <1>3, <1>4, <1>5

LEMMA SessionNext == SessionInv /\ [Next]_vars => SessionInv'
<1> SUFFICES ASSUME SessionInv, [Next]_vars PROVE SessionInv'
  OBVIOUS
<1> USE DEF SessionInv, workVars, storeVars, sessVars, netVars, sentVars, boundVars
<1>1. TypeOK'
  BY TypeNext
<1>2. ASSUME NEW r \in Requests, Commit(r) PROVE SessionInv'
  <2>1. PICK c \in Nat \ {0} : stamp' = [stamp EXCEPT ![r] = c]
    <3>1. Cardinality({q \in Requests : stamp[q] > 0}) + 1 \in Nat \ {0}
      BY RequestSets
    <3> QED
      BY <1>2, <3>1 DEF Commit
  <2>2. Stamped \subseteq Stamped'
    BY <2>1 DEF Stamped, TypeOK
  <2>3. Snapshot' /\ Aged'
    BY <1>2, <2>2 DEF Commit, Snapshot, Aged
  <2>4. Queued' /\ Early'
    BY <1>2 DEF Commit, Queued, Early, TypeOK
  <2>5. Placed'
    BY <1>2, <2>1 DEF Commit, Placed, Files, TypeOK
  <2> QED
    BY <1>1, <2>3, <2>4, <2>5
<1>3. ASSUME NEW r \in Requests, Fallback(r) PROVE SessionInv'
  <2>1. Snapshot' /\ Aged' /\ Placed'
    BY <1>3 DEF Fallback, Snapshot, Aged, Stamped, Placed, Files
  <2>2. Queued' /\ Early'
    BY <1>3 DEF Fallback, Queued, Early, TypeOK
  <2> QED
    BY <1>1, <2>1, <2>2
<1>4. CASE Drain
  <2>1. Stamped' = Stamped /\ batch' \subseteq Stamped
    BY <1>4 DEF Drain, Placed, Files, Stamped, TypeOK
  <2>2. Placed'
    BY <1>4 DEF Drain, Placed, Files, Without
  <2> QED
    BY <1>1, <1>4, <2>1, <2>2 DEF Drain, Snapshot, Queued, Early, Aged
<1>5. ASSUME NEW r \in Requests,
             \/ Accept(r) \/ Dispatched(r) \/ Prune(r) \/ Notify(r) \/ RecordFails(r)
      PROVE  SessionInv'
  <2> USE DEF TypeOK, Snapshot, Aged
  <2>1. CASE Accept(r) \/ Dispatched(r) \/ RecordFails(r)
    BY <1>1, <2>1, SessionFrame DEF Accept, Dispatched, RecordFails
  <2>2. CASE Prune(r) \/ Notify(r)
    BY <1>1, <2>2, SessionFrame DEF Prune, Without, Notify
  <2> QED
    BY <1>5, <2>1, <2>2
<1>6. CASE \/ Connect \/ DrainFails \/ Clear \/ ClearFails \/ ReplayDone
           \/ PollNotification \/ Heartbeat \/ Break \/ Restart \/ UNCHANGED vars
           \/ \E r \in Requests : Receive(r) \/ Age(r)
  <2>1. UNCHANGED <<phase, chan, stamp, handed>> /\ batch' \subseteq batch
        /\ expired' \subseteq Ageable
        /\ \A j \in Jobs : store'[j] \in {store[j], None}
    BY <1>6 DEF Without, Connect, DrainFails, Clear, ClearFails, ReplayDone, PollNotification,
         Heartbeat, Break, Restart, vars, Receive, Age, Aged
  <2>2. pc' \notin {"send", "clear"} => batch' = {}
    BY <1>6 DEF Connect, DrainFails, Clear, ClearFails, ReplayDone, PollNotification,
         Heartbeat, Break, Restart, vars, Receive, Age, Snapshot
  <2> QED
    BY <1>1, <2>1, <2>2, SessionFrame
<1>7. CASE Lost \/ Crash
  <2>1. /\ batch' = {} /\ chan' = {}
        /\ UNCHANGED <<store, stamp, expired, handed>>
    BY <1>7 DEF Lost, EndSession, Crash
  <2>2. \A r \in Requests : \/ phase'[r] = phase[r]
                            \/ phase[r] # "done" /\ phase'[r] = "killed"
    BY <1>7 DEF Lost, Crash
  <2> QED
    BY <1>1, <2>1, <2>2, SessionFrame DEF Aged
<1>8. ASSUME NEW r \in Requests, SendNext(r) \/ SendQueued(r) PROVE SessionInv'
  <2>1. /\ UNCHANGED <<phase, store, stamp, expired>>
        /\ batch' \subseteq batch /\ chan' \subseteq chan
        /\ handed' \subseteq handed \cup batch \cup chan
        /\ pc' \notin {"send", "clear"} => batch' = {}
    BY <1>8 DEF SendNext, SendQueued, Oldest, Snapshot
  <2> QED
    BY <1>1, <2>1, SessionFrame DEF Aged
<1> QED
  BY <1>2, <1>3, <1>4, <1>5, <1>6, <1>7, <1>8 DEF Next, Worker

LEMMA SessionInit == Init => SessionInv
BY TypeInit DEF Init, SessionInv, Snapshot, Queued, Early, Aged, Placed, Files

\* A step that sends nothing keeps what is known of the sent completions.
LEMMA ReplaysFrame ==
  ASSUME SessionInv, Replays, faults' = 0 => faults = 0, stamp' = stamp,
         sentNow' \subseteq sentNow, batch' \subseteq batch,
         (pc' = pc /\ current' = current) \/ pc # "clear",
         \A j \in Jobs : store'[j] \in {store[j], None}
  PROVE  Replays'
BY RequestsAssumption DEF SessionInv, TypeOK, Replays, Stored, Jobs

LEMMA ReplaysNext == SessionInv /\ Replays /\ [Next]_vars => Replays'
<1> SUFFICES ASSUME SessionInv, Replays, [Next]_vars PROVE Replays'
  OBVIOUS
<1> USE DEF workVars, storeVars, sessVars, netVars, sentVars, boundVars
<1>1. ASSUME NEW r \in Requests, Commit(r) PROVE Replays'
  <2>1. \A q \in Requests : stamp[q] > 0 => q # r /\ stamp'[q] = stamp[q]
    BY <1>1 DEF Commit, SessionInv, TypeOK, Early
  <2>2. \A q \in Requests : stamp[q] > 0 /\ Stored(q)' => Stored(q)
    BY <1>1, <2>1 DEF Commit, Stored, SessionInv, TypeOK, Jobs
  <2> QED
    BY <1>1, <2>1, <2>2 DEF Commit, Replays, SessionInv, TypeOK
<1>2. ASSUME NEW r \in Requests, SendNext(r) PROVE Replays'
  BY <1>2 DEF SendNext, Oldest, Replays, Stored, SessionInv, Snapshot, Stamped
<1>3. CASE Drain
  <2>1. \A r \in sentNow : faults = 0 => ~Stored(r)
    BY <1>3 DEF Drain, Replays
  <2>2. \A r \in sentNow : faults = 0 => r \notin batch' /\ ~Stored(r)'
    <3> SUFFICES ASSUME NEW r \in sentNow, faults = 0
                 PROVE  r \notin batch' /\ ~Stored(r)'
      OBVIOUS
    <3>1. r \in Requests /\ JobOf[r] \in Jobs /\ ~Stored(r) /\ r # None
      BY <2>1, RequestsAssumption DEF SessionInv, TypeOK, Jobs
    <3>2. ~Stored(r)'
      BY <1>3, <3>1 DEF Drain, Stored, Without
    <3>3. r \notin batch'
      BY <1>3, <3>1 DEF Drain, Stored, SessionInv, Placed
    <3> QED
      BY <3>2, <3>3
  <2> QED
    BY <1>3, <2>2 DEF Drain, Replays
<1>4. CASE Clear
  <2>1. \A r \in sentNow : JobOf[r] \in Jobs /\ r # None
    BY RequestsAssumption DEF SessionInv, TypeOK, Jobs
  <2>2. \A r \in sentNow : faults = 0 => ~Stored(r)'
    BY <1>4, <2>1 DEF Clear, Without, Stored, Replays
  <2> QED
    BY <1>4, <2>2 DEF Clear, Replays
<1>5. CASE DrainFails \/ ClearFails
  BY <1>5 DEF DrainFails, ClearFails, Replays, SessionInv, TypeOK
<1>6. CASE Lost \/ Crash
  BY <1>6 DEF Lost, EndSession, Crash, Replays
<1>7. ASSUME NEW r \in Requests,
             \/ Accept(r) \/ Dispatched(r) \/ Prune(r) \/ Notify(r) \/ RecordFails(r)
             \/ Fallback(r) \/ SendQueued(r) \/ Receive(r) \/ Age(r)
      PROVE  Replays'
  BY <1>7, ReplaysFrame
  DEF Accept, Dispatched, Prune, Without, Notify, RecordFails, Fallback, SendQueued,
      Receive, Age, SessionInv, TypeOK
<1>8. CASE \/ Connect \/ ReplayDone \/ PollNotification \/ Heartbeat \/ Break
           \/ Restart \/ UNCHANGED vars
  BY <1>8, ReplaysFrame
  DEF Connect, ReplayDone, PollNotification, Heartbeat, Break, Restart, vars,
      SessionInv, TypeOK
<1> QED
  BY <1>1, <1>2, <1>3, <1>4, <1>5, <1>6, <1>7, <1>8 DEF Next, Worker

(* One session replays no completion twice, however its opening, its       *)
(* notifications, its heartbeats and late completions interleave: the file *)
(* of what was sent is gone before the next drain (replay_pending_results).*)
THEOREM NoRepeatInSessionHolds == Spec => []NoRepeatInSession
<1>1. Init => SessionInv /\ Replays
  BY SessionInit DEF Init, Replays
<1>2. SessionInv /\ Replays /\ [Next]_vars => (SessionInv /\ Replays)'
  BY SessionNext, ReplaysNext
<1>3. SessionInv /\ Replays => NoRepeatInSession
  BY DEF Replays, NoRepeatInSession
<1> QED
  BY <1>1, <1>2, <1>3, PTL DEF Spec

\* What the promise says of a completion, before and after a step.
LEMMA States ==
  ASSUME TypeOK, TypeOK', NEW r \in Requests
  PROVE  /\ r \in handed => PromiseState(r) = "handed"
         /\ r \notin handed /\ stamp[r] > 0 =>
              PromiseState(r) = IF Stored(r) \/ r \in batch THEN "owed" ELSE "lost"
         /\ r \notin handed /\ stamp[r] = 0 =>
              PromiseState(r) = IF phase[r] = "none" THEN "idle"
                ELSE IF phase[r] \in {"running", "recording", "fallback"} \/ r \in chan
                  THEN "running" ELSE "lost"
         /\ r \in handed' => PromiseState(r)' = "handed"
         /\ r \notin handed' /\ stamp'[r] > 0 =>
              PromiseState(r)' = IF Stored(r)' \/ r \in batch' THEN "owed" ELSE "lost"
         /\ r \notin handed' /\ stamp'[r] = 0 =>
              PromiseState(r)' = IF phase'[r] = "none" THEN "idle"
                ELSE IF phase'[r] \in {"running", "recording", "fallback"} \/ r \in chan'
                  THEN "running" ELSE "lost"
BY DEF TypeOK, PromiseState

\* The instance brings a name of its own for the same cardinality.
LEMMA SameCardinality == \A S : Promise!Cardinality(S) = Cardinality(S)
BY DEF Promise!Cardinality, Cardinality

\* Completions that may be lost, and no others, are.
Gives(r) ==
  \/ PromiseState(r)' = PromiseState(r)
  \/ /\ PromiseState(r)' = "lost"
     /\ \/ PromiseState(r) = "running"
        \/ PromiseState(r) = "owed" /\ (r \in Ageable \/ Outlived(r))

LEMMA Losing ==
  ASSUME stamp' = stamp, \A r \in Requests : Gives(r)
  PROVE  Promise!Next
<1> DEFINE rs == {r \in Requests : PromiseState(r)' # PromiseState(r)}
<1>1. ASSUME NEW r \in rs PROVE Promise!MayDrop(r)
  <2>1. Outlived(r) => Promise!CrowdedOut(r)
    BY SameCardinality DEF Promise!CrowdedOut, Outlived
  <2>2. \/ PromiseState(r) = "running"
        \/ PromiseState(r) = "owed" /\ (r \in Ageable \/ Promise!CrowdedOut(r))
    BY <2>1 DEF Gives
  <2> QED
    BY <2>2 DEF Promise!MayDrop
<1>2. \A r \in Requests : PromiseState(r)' = IF r \in rs THEN "lost" ELSE PromiseState(r)
  BY DEF Gives
<1>3. Promise!Drop(rs)
  BY <1>1, <1>2 DEF Promise!Drop
<1> QED
  BY <1>3 DEF Promise!Next

\* A commit makes a completion durable.
LEMMA CommitImplements ==
  ASSUME OwnJob, PersistInv, SessionInv, TypeOK', NEW r \in Requests, Commit(r)
  PROVE  Promise!Persist(r)
<1> USE DEF PersistInv, SessionInv, storeVars, sessVars, sentVars
<1> DEFINE c == Cardinality({q \in Requests : stamp[q] > 0})
<1>1. /\ phase[r] = "recording" /\ phase' = [phase EXCEPT ![r] = "committed"]
      /\ stamp' = [stamp EXCEPT ![r] = c + 1]
      /\ store' = [store EXCEPT ![JobOf[r]] = r]
      /\ UNCHANGED <<batch, chan, handed>>
  BY DEF Commit
<1>2. c \in Nat
  BY RequestSets
<1> HIDE DEF c
<1>3. PromiseState(r) = "running"
  BY <1>1, States DEF Early
<1>4. PromiseState(r)' = "owed"
  <2>1. stamp'[r] > 0 /\ Stored(r)' /\ r \notin handed'
    BY <1>1, <1>2 DEF Stored, TypeOK, Early, Jobs
  <2> QED
    BY <2>1, States
<1>5. ASSUME NEW q \in Requests, q # r PROVE PromiseState(q)' = PromiseState(q)
  <2>1. stamp'[q] = stamp[q] /\ phase'[q] = phase[q]
    BY <1>1, <1>5 DEF TypeOK
  <2>2. Stored(q)' <=> Stored(q)
    BY <1>1, <1>5 DEF Stored, TypeOK, OwnJob, Jobs
  <2>3. stamp[q] = 0 \/ stamp[q] > 0
    BY DEF TypeOK
  <2> QED
    BY <1>1, <2>1, <2>2, <2>3, States
<1>6. Promise!Cardinality(Promise!Persisted) = c
  BY SameCardinality DEF Promise!Persisted, c
<1> QED
  BY <1>1, <1>3, <1>4, <1>5, <1>6 DEF Promise!Persist

\* A completion is handed over once; sending it again changes nothing.
LEMMA SendImplements ==
  ASSUME PersistInv, SessionInv, TypeOK',
         NEW r \in Requests, SendNext(r) \/ SendQueued(r)
  PROVE  [Promise!Next]_(Promise!vars)
<1> USE DEF PersistInv, SessionInv, workVars, storeVars
<1>1. /\ UNCHANGED <<phase, store, stamp>>
      /\ handed' = handed \cup {r}
      /\ batch \ {r} \subseteq batch' /\ batch' \subseteq batch
      /\ chan \ {r} \subseteq chan' /\ chan' \subseteq chan
      /\ r \in batch \/ r \in chan
  BY DEF SendNext, Oldest, SendQueued
<1>2. PromiseState(r) \in {"handed", "owed", "running"}
  BY <1>1, States DEF Snapshot, Queued, Stamped
<1>3. PromiseState(r)' = "handed"
  BY <1>1, States
<1>4. ASSUME NEW q \in Requests, q # r PROVE PromiseState(q)' = PromiseState(q)
  <2>1. Stored(q)' <=> Stored(q)
    BY <1>1 DEF Stored
  <2>2. stamp[q] = 0 \/ stamp[q] > 0
    BY DEF TypeOK
  <2> QED
    BY <1>1, <1>4, <2>1, <2>2, States
<1>5. CASE PromiseState(r) = "handed"
  <2>1. \A q \in Requests : Gives(q)
    BY <1>3, <1>4, <1>5 DEF Gives
  <2> QED
    BY <1>1, <2>1, Losing
<1>6. CASE PromiseState(r) \in {"owed", "running"}
  BY <1>1, <1>3, <1>4, <1>6 DEF Promise!HandOver, Promise!Next
<1> QED
  BY <1>2, <1>5, <1>6

\* The steps that take files, the snapshot or tasks away.
LEMMA LossImplements ==
  ASSUME OwnJob, PersistInv, SessionInv, TypeOK',
         Drain \/ Clear \/ Lost \/ Crash \/ \E r \in Requests : Prune(r)
  PROVE  Promise!Next
<1> USE DEF PersistInv, SessionInv, workVars, storeVars, sentVars
<1>1. stamp' = stamp /\ handed' = handed
  BY DEF Drain, Clear, Lost, Crash, Prune
<1> SUFFICES ASSUME NEW r \in Requests PROVE Gives(r)
  BY <1>1, Losing
<1>2. CASE r \in handed
  BY <1>1, <1>2, States DEF Gives
<1>3. CASE r \notin handed /\ stamp[r] > 0
  <2>1. Stored(r) \/ r \in batch => Stored(r)' \/ r \in batch' \/ r \in Ageable \/ Outlived(r)
    <3>1. JobOf[r] \in Jobs /\ r # None
      BY RequestsAssumption DEF Jobs
    <3>2. Stored(r) => JobOf[r] \in Files /\ store[JobOf[r]] = r
      BY <3>1 DEF Files, Stored
    <3>3. CASE Drain
      BY <3>1, <3>2, <3>3 DEF Drain, Without, Stored, Aged, Snapshot
    <3>4. CASE Clear
      <4>1. current \in Requests /\ current # r
        BY <1>3, <3>4 DEF Clear, Accepted, TypeOK
      <4> QED
        BY <3>1, <3>4, <4>1 DEF Clear, Without, Stored, OwnJob
    <3>5. CASE Lost \/ Crash
      <4>1. Stored(r) \/ r \in expired \/ Outlived(r) \/ Superseded(r)
        BY <1>3 DEF PersistedUntilSent
      <4>2. ~Superseded(r)
        BY DEF Superseded, OwnJob, TypeOK
      <4>3. store' = store
        BY <3>5 DEF Lost, Crash
      <4> QED
        BY <4>1, <4>2, <4>3 DEF Aged, Stored
    <3>6. ASSUME NEW q \in Requests, Prune(q)
          PROVE  Stored(r) \/ r \in batch => Stored(r)' \/ r \in batch' \/ Outlived(r)
      <4>1. JobOf[r] \in Victims(Files, MTime, Cap) /\ Stored(r) => Outlived(r)
        BY <3>2, VictimOutlived
      <4> QED
        BY <3>1, <3>6, <4>1 DEF Prune, sessVars, Without, Stored
    <3> QED
      BY <3>3, <3>4, <3>5, <3>6
  <2>2. stamp'[r] > 0 /\ r \notin handed'
    BY <1>1, <1>3
  <2>3. PromiseState(r) = IF Stored(r) \/ r \in batch THEN "owed" ELSE "lost"
    BY <1>3, States
  <2>4. PromiseState(r)' = IF Stored(r)' \/ r \in batch' THEN "owed" ELSE "lost"
    BY <2>2, States
  <2>5. Stored(r)' \/ r \in batch' => Stored(r) \/ r \in batch
    <3>1. JobOf[r] \in Jobs /\ r # None
      BY RequestsAssumption DEF Jobs
    <3>2. \A j \in Jobs : store'[j] \in {store[j], None}
      BY DEF Drain, Clear, Lost, Crash, Prune, Without
    <3>3. batch' \subseteq batch \cup {store[j] : j \in Files}
      BY DEF Drain, Clear, Lost, EndSession, Crash, Prune, sessVars
    <3> QED
      BY <3>1, <3>2, <3>3 DEF Stored, Placed
  <2> QED
    BY <2>1, <2>3, <2>4, <2>5 DEF Gives
<1>4. CASE r \notin handed /\ stamp[r] = 0
  <2>1. phase[r] = "none" <=> phase'[r] = "none"
    BY DEF Drain, Clear, Lost, Crash, Prune, TypeOK
  <2>2. /\ phase'[r] \in {"running", "recording", "fallback"} =>
             phase[r] \in {"running", "recording", "fallback"}
        /\ r \in chan' => r \in chan
    BY DEF Drain, Clear, Lost, EndSession, Crash, Prune, sessVars, TypeOK
  <2> QED
    BY <1>1, <1>4, <2>1, <2>2, States DEF Gives, Queued
<1> QED
  BY <1>2, <1>3, <1>4 DEF TypeOK

\* The steps of the tasks before and after the commit.
LEMMA TaskImplements ==
  ASSUME PersistInv, SessionInv, TypeOK', NEW r \in Requests,
         Accept(r) \/ Dispatched(r) \/ Notify(r) \/ RecordFails(r) \/ Fallback(r)
  PROVE  Promise!Next
<1> USE DEF PersistInv, SessionInv, storeVars, sessVars, sentVars
<1>1. /\ UNCHANGED <<stamp, store, batch, handed>>
      /\ \A q \in Requests \ {r} : phase'[q] = phase[q] /\ (q \in chan' <=> q \in chan)
  BY DEF Accept, Dispatched, Notify, RecordFails, Fallback, TypeOK
<1>2. ASSUME NEW q \in Requests, q # r \/ stamp[q] > 0 PROVE PromiseState(q)' = PromiseState(q)
  <2>1. Stored(q)' <=> Stored(q)
    BY <1>1 DEF Stored
  <2>2. stamp[q] = 0 \/ stamp[q] > 0
    BY DEF TypeOK
  <2> QED
    BY <1>1, <1>2, <2>1, <2>2, States
<1>3. CASE Accept(r)
  <2>1. phase[r] = "none" /\ phase'[r] = "running" /\ r \notin handed /\ stamp[r] = 0
    BY <1>3 DEF Accept, TypeOK, Early
  <2>2. PromiseState(r) = "idle" /\ PromiseState(r)' = "running"
    BY <1>1, <2>1, States
  <2> QED
    BY <1>1, <1>2, <2>2 DEF Promise!Start, Promise!Next
<1>4. CASE Dispatched(r) \/ Notify(r) \/ RecordFails(r) \/ Fallback(r)
  <2>1. Gives(r)
    <3>1. phase[r] # "none" /\ phase'[r] # "none"
      BY <1>4 DEF Dispatched, Notify, RecordFails, Fallback, TypeOK
    <3>2. phase'[r] \in {"running", "recording", "fallback"} \/ r \in chan' =>
            phase[r] \in {"running", "recording", "fallback"} \/ r \in chan
      BY <1>4 DEF Dispatched, Notify, RecordFails, Fallback, TypeOK
    <3>3. CASE stamp[r] > 0
      BY <1>2, <3>3 DEF Gives
    <3>4. CASE stamp[r] = 0
      BY <1>1, <3>1, <3>2, <3>4, States DEF Gives
    <3> QED
      BY <3>3, <3>4 DEF TypeOK
  <2> QED
    BY <1>1, <1>2, <2>1, Losing DEF Gives
<1> QED
  BY <1>3, <1>4

\* The steps that the promise does not see.
LEMMA Stuttering ==
  ASSUME PersistInv, SessionInv, TypeOK',
         \/ Connect \/ DrainFails \/ ClearFails \/ ReplayDone \/ PollNotification
         \/ Heartbeat \/ Break \/ Restart \/ UNCHANGED vars
         \/ \E r \in Requests : Receive(r) \/ Age(r)
  PROVE  Promise!Next
<1> USE DEF workVars, storeVars, sessVars, sentVars
<1>1. UNCHANGED <<phase, stamp, store, chan, handed>>
  BY DEF Connect, DrainFails, ClearFails, ReplayDone, PollNotification, Heartbeat,
     Break, Restart, vars, Receive, Age
<1>2. batch' = batch
  BY DEF Connect, DrainFails, ClearFails, ReplayDone, PollNotification, Heartbeat,
     Break, Restart, vars, Receive, Age, SessionInv, Snapshot
<1>3. ASSUME NEW q \in Requests PROVE Gives(q)
  BY <1>1, <1>2 DEF Gives, PromiseState, Stored
<1> QED
  BY <1>1, <1>3, Losing

(* With job ids of their own, every step of the agent is a step that       *)
(* CompletionDelivery allows, or none: whatever the sessions, the store    *)
(* and the network do, a completion goes from running over owed to handed, *)
(* and is lost only before it was persisted, to its TTL or to Cap others.  *)
THEOREM KeepsPromiseHolds == OwnJob => (Spec => KeepsPromise)
<1> SUFFICES ASSUME OwnJob PROVE Spec => KeepsPromise
  OBVIOUS
<1>1. Init => PersistInv /\ SessionInv
  BY PersistInductive, SessionInit
<1>2. PersistInv /\ SessionInv /\ [Next]_vars => (PersistInv /\ SessionInv)'
  BY PersistInductive, SessionNext
<1>3. Init => Promise!Init
  BY States DEF Init, Promise!Init, PromiseState
<1>4. PersistInv /\ SessionInv /\ [Next]_vars => [Promise!Next]_(Promise!vars)
  <2> SUFFICES ASSUME PersistInv, SessionInv, [Next]_vars
               PROVE  [Promise!Next]_(Promise!vars)
    OBVIOUS
  <2>1. TypeOK'
    BY TypeNext DEF PersistInv
  <2>2. ASSUME NEW r \in Requests, Commit(r) PROVE Promise!Next
    BY <2>1, <2>2, CommitImplements DEF Promise!Next
  <2>3. ASSUME NEW r \in Requests, SendNext(r) \/ SendQueued(r)
        PROVE  [Promise!Next]_(Promise!vars)
    BY <2>1, <2>3, SendImplements
  <2>4. CASE Drain \/ Clear \/ Lost \/ Crash \/ \E r \in Requests : Prune(r)
    BY <2>1, <2>4, LossImplements
  <2>5. ASSUME NEW r \in Requests,
               Accept(r) \/ Dispatched(r) \/ Notify(r) \/ RecordFails(r) \/ Fallback(r)
        PROVE  Promise!Next
    BY <2>1, <2>5, TaskImplements
  <2>6. CASE \/ Connect \/ DrainFails \/ ClearFails \/ ReplayDone \/ PollNotification
             \/ Heartbeat \/ Break \/ Restart \/ UNCHANGED vars
             \/ \E r \in Requests : Receive(r) \/ Age(r)
    BY <2>1, <2>6, Stuttering
  <2> QED
    BY <2>2, <2>3, <2>4, <2>5, <2>6 DEF Next, Worker
<1> QED
  BY <1>1, <1>2, <1>3, <1>4, PTL DEF Spec, KeepsPromise, Promise!Spec
=============================================================================
