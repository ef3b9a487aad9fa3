-------------------------- MODULE AgentProcessProofs --------------------------
(***************************************************************************)
(* Theorems about AgentProcess, for any number of processes, any schedule  *)
(* of reconnects and any lifetimes: one instance serves the host, the      *)
(* backoff forgets what an established session wiped out, a rotation never *)
(* goes back, and a live credential is never passed over at the start.     *)
(***************************************************************************)
EXTENDS AgentProcess, TLAPS

Shape ==
  /\ pc \in [Procs -> Running \cup {"off", "loaded"}]
  /\ fresh \in [Procs -> Nat \cup {None}]
  /\ attempt \in [Procs -> Nat]
  /\ streak \in [Procs -> Nat]
  /\ ended \in [Procs -> {"none", "lost", "restart", "clean"}]
  /\ rotated \in Nat \cup {None}
  /\ clock \in Nat

(* A credential on its way to the disk was issued no earlier than the one  *)
(* there. With the lock at most one is on its way, so none overtakes it.   *)
Dated ==
  /\ rotated # None => rotated <= clock
  /\ \A p \in Procs : pc[p] = "issued" =>
       fresh[p] \in Nat /\ fresh[p] <= clock /\ (rotated # None => rotated <= fresh[p])

(* A process that is not running has no history yet.                       *)
Blank == \A p \in Procs : pc[p] \notin Running =>
           attempt[p] = 0 /\ streak[p] = 0 /\ ended[p] = "none"

ProcessInv == Shape /\ SingleInstance /\ BackoffMatchesHistory /\ Dated /\ Blank

LEMMA ProcessInit == Init => ProcessInv
  BY ProcsAssumption
  DEF Init, ProcessInv, Shape, SingleInstance, BackoffMatchesHistory, Dated, Blank, Running

(* A process that ends leaves the others, and the disk, as they are.       *)
LEMMA Ending ==
  ASSUME ProcessInv, NEW p \in Procs, Ends(p), rotated' = rotated, clock' = clock
  PROVE  ProcessInv'
<1> USE ProcsAssumption DEF Ends, ProcessInv, Shape
<1>1. Shape'
  OBVIOUS
<1>2. SingleInstance'
  BY DEF SingleInstance, Running
<1>3. BackoffMatchesHistory'
  BY DEF BackoffMatchesHistory, Running
<1>4. Dated'
  BY DEF Dated
<1>5. Blank'
  BY DEF Blank
<1> QED BY <1>1, <1>2, <1>3, <1>4, <1>5

(* A process that goes from one of its places to another keeps the lock,   *)
(* and what it does to its history keeps the backoff in step with it.      *)
LEMMA Going ==
  ASSUME ProcessInv, NEW p \in Procs, NEW from, NEW to \in Running \ {"issued"},
         from \subseteq Running, Go(p, from, to),
         NEW a \in Nat, NEW s \in Nat, NEW e \in {"none", "lost", "restart", "clean"},
         a = s + (IF e = "lost" THEN 1 ELSE 0),
         attempt' = [attempt EXCEPT ![p] = a],
         streak' = [streak EXCEPT ![p] = s],
         ended' = [ended EXCEPT ![p] = e],
         UNCHANGED credVars, UNCHANGED lock, UNCHANGED clock
  PROVE  ProcessInv'
<1> USE DEF Go, ProcessInv, Shape, credVars
<1>1. Shape'
  OBVIOUS
<1>2. SingleInstance'
  BY DEF SingleInstance
<1>3. BackoffMatchesHistory'
  BY DEF BackoffMatchesHistory
<1>4. Dated'
  BY DEF Dated
<1>5. Blank'
  BY DEF Blank
<1> QED BY <1>1, <1>2, <1>3, <1>4, <1>5

(* The same for a step that leaves the history alone.                      *)
LEMMA Moving ==
  ASSUME ProcessInv, NEW p \in Procs, NEW from, NEW to \in Running \ {"issued"},
         from \subseteq Running, Go(p, from, to),
         UNCHANGED <<attempt, streak, ended, credVars, lock, clock>>
  PROVE  ProcessInv'
<1> USE DEF Go, ProcessInv, Shape, credVars
<1>1. Shape'
  OBVIOUS
<1>2. SingleInstance'
  BY DEF SingleInstance
<1>3. BackoffMatchesHistory'
  BY DEF BackoffMatchesHistory
<1>4. Dated'
  BY DEF Dated
<1>5. Blank'
  BY DEF Blank
<1> QED BY <1>1, <1>2, <1>3, <1>4, <1>5

(* Rotation: only Persist and PersistFails end a place of their own.       *)
LEMMA Rotating ==
  ASSUME ProcessInv, NEW p \in Procs, Issue(p) \/ Persist(p) \/ PersistFails(p)
  PROVE  ProcessInv'
<1> USE DEF ProcessInv, Shape, Go, loopVars
<1>1. CASE Issue(p)
  <2> USE DEF Issue
  <2>1. Shape' /\ SingleInstance' /\ BackoffMatchesHistory' /\ Blank'
    BY <1>1 DEF SingleInstance, BackoffMatchesHistory, Blank, Running
  <2>2. Dated'
    BY <1>1 DEF Dated
  <2> QED BY <2>1, <2>2
<1>2. CASE Persist(p)
  <2> USE DEF Persist
  <2>1. fresh[p] \in Nat /\ fresh[p] <= clock
    BY <1>2 DEF Dated
  <2>2. Shape' /\ SingleInstance' /\ BackoffMatchesHistory' /\ Blank'
    BY <1>2, <2>1 DEF SingleInstance, BackoffMatchesHistory, Blank, Running
  <2>3. \A q \in Procs : q # p => pc[q] # "issued"
    BY <1>2 DEF SingleInstance, Running
  <2>4. Dated'
    BY <1>2, <2>1, <2>3 DEF Dated
  <2> QED BY <2>2, <2>4
<1>3. CASE PersistFails(p)
  <2> USE DEF PersistFails
  <2>1. Shape' /\ SingleInstance' /\ BackoffMatchesHistory' /\ Blank'
    BY <1>3 DEF SingleInstance, BackoffMatchesHistory, Blank, Running
  <2>2. Dated'
    BY <1>3 DEF Dated
  <2> QED BY <2>1, <2>2
<1> QED BY <1>1, <1>2, <1>3

(* Startup: the lock is given to a process only when no one holds it.      *)
LEMMA Starting ==
  ASSUME ProcessInv, NEW p \in Procs, Load(p) \/ Acquire(p)
  PROVE  ProcessInv'
<1> USE ProcsAssumption DEF ProcessInv, Shape, Go, loopVars, Load, Acquire, credVars
<1>1. Shape'
  BY DEF Running
<1>2. SingleInstance'
  BY DEF SingleInstance, Running
<1>3. BackoffMatchesHistory'
  BY DEF BackoffMatchesHistory, Blank, Running
<1>4. Dated'
  BY DEF Dated
<1>5. Blank'
  BY DEF Blank, Running
<1> QED BY <1>1, <1>2, <1>3, <1>4, <1>5

(* Where a session ends the attempt starts again from it: 1 when the       *)
(* connection was lost, 0 when the hub restarts or the agent is stopped.   *)
LEMMA SessionOver ==
  ASSUME ProcessInv, NEW p \in Procs, Lost(p) \/ Restarted(p) \/ Clean(p)
  PROVE  ProcessInv'
<1>1. PICK a \in {0, 1}, e \in {"lost", "restart", "clean"} :
        /\ a = IF e = "lost" THEN 1 ELSE 0
        /\ Go(p, {"welcome", "session"}, "loop")
        /\ attempt' = [attempt EXCEPT ![p] = a]
        /\ streak' = [streak EXCEPT ![p] = 0]
        /\ ended' = [ended EXCEPT ![p] = e]
        /\ UNCHANGED <<credVars, lock, clock>>
  BY DEF Lost, Restarted, Clean, EndedBy, Go
<1>2. /\ a \in Nat /\ 0 \in Nat /\ a = 0 + (IF e = "lost" THEN 1 ELSE 0)
      /\ e \in {"none", "lost", "restart", "clean"}
      /\ UNCHANGED credVars /\ UNCHANGED lock /\ UNCHANGED clock
  BY <1>1 DEF credVars
<1>3. {"welcome", "session"} \subseteq Running /\ "loop" \in Running \ {"issued"}
  BY DEF Running
<1>4. /\ Go(p, {"welcome", "session"}, "loop")
      /\ attempt' = [attempt EXCEPT ![p] = a]
      /\ streak' = [streak EXCEPT ![p] = 0]
      /\ ended' = [ended EXCEPT ![p] = e]
  BY <1>1
<1> QED BY <1>2, <1>3, <1>4, Going, ZenonT(30)

LEMMA Failing ==
  ASSUME ProcessInv, NEW p \in Procs, ConnectFails(p)
  PROVE  ProcessInv'
<1>1. /\ Go(p, {"connect", "welcome"}, "loop")
      /\ attempt' = [attempt EXCEPT ![p] = attempt[p] + 1]
      /\ streak' = [streak EXCEPT ![p] = streak[p] + 1]
      /\ ended' = [ended EXCEPT ![p] = ended[p]]
      /\ UNCHANGED credVars /\ UNCHANGED lock /\ UNCHANGED clock
  BY DEF ConnectFails, Failed, ProcessInv, Shape
<1>2. /\ attempt[p] + 1 \in Nat /\ streak[p] + 1 \in Nat
      /\ ended[p] \in {"none", "lost", "restart", "clean"}
      /\ attempt[p] + 1 = streak[p] + 1 + (IF ended[p] = "lost" THEN 1 ELSE 0)
  BY <1>1 DEF ProcessInv, Shape, BackoffMatchesHistory, Go, Running
<1>3. {"connect", "welcome"} \subseteq Running /\ "loop" \in Running \ {"issued"}
  BY DEF Running
<1> QED BY <1>1, <1>2, <1>3, Going

LEMMA ProcessNext == ProcessInv /\ [Next]_vars => ProcessInv'
<1> SUFFICES ASSUME ProcessInv, [Next]_vars PROVE ProcessInv'
  OBVIOUS
<1>1. ASSUME NEW p \in Procs, Process(p) PROVE ProcessInv'
  <2>1. CASE Load(p) \/ Acquire(p)
    BY <2>1, Starting
  <2>2. CASE AlreadyRunning(p) \/ Leave(p) \/ Rejected(p)
    BY <2>2, Ending DEF AlreadyRunning, Leave, Rejected
  <2>3. CASE Pause(p)
    <3>1. PICK to \in {"connect", "sleep"} : Go(p, {"loop"}, to)
      BY <2>3 DEF Pause
    <3> QED BY <2>3, <3>1, Moving DEF Pause, Running
  <2>4. CASE Wake(p) \/ Opened(p) \/ Welcomed(p) \/ NoRotation(p)
    <3> USE Moving DEF loopVars, Running
    <3>1. CASE Wake(p)
      BY <3>1 DEF Wake
    <3>2. CASE Opened(p)
      BY <3>2 DEF Opened
    <3>3. CASE Welcomed(p)
      BY <3>3 DEF Welcomed
    <3>4. CASE NoRotation(p)
      BY <3>4 DEF NoRotation
    <3> QED BY <2>4, <3>1, <3>2, <3>3, <3>4
  <2>5. CASE ConnectFails(p)
    BY <2>5, Failing
  <2>6. CASE Lost(p) \/ Restarted(p) \/ Clean(p)
    BY <2>6, SessionOver
  <2>7. CASE Issue(p) \/ Persist(p) \/ PersistFails(p)
    BY <2>7, Rotating
  <2> QED BY <1>1, <2>1, <2>2, <2>3, <2>4, <2>5, <2>6, <2>7 DEF Process
<1>2. ASSUME NEW p \in Procs, Crash(p) PROVE ProcessInv'
  BY <1>2, Ending DEF Crash
<1>3. ASSUME \/ \E p \in Procs : Cancel(p)
             \/ Tick
             \/ UNCHANGED vars
      PROVE  ProcessInv'
  <2>1. /\ UNCHANGED <<pc, fresh, attempt, streak, ended, rotated, lock>>
        /\ clock' \in Nat /\ clock' >= clock
    BY <1>3 DEF Cancel, Tick, vars, loopVars, credVars, ProcessInv, Shape
  <2> QED
    BY <2>1 DEF ProcessInv, Shape, SingleInstance, BackoffMatchesHistory, Dated, Blank
<1> QED BY <1>1, <1>2, <1>3 DEF Next

(* Two processes of one host never serve it at the same time (main.rs,     *)
(* instance_lock.rs), however many are started and killed.                 *)
THEOREM SingleInstanceHolds == Spec => []SingleInstance
<1>1. ProcessInv => SingleInstance
  BY DEF ProcessInv
<1> QED BY ProcessInit, ProcessNext, <1>1, PTL DEF Spec

(* For every schedule, the backoff depends only on what happened since the *)
(* last established session (lib.rs: Agent::run).                          *)
THEOREM BackoffMatchesHistoryHolds == Spec => []BackoffMatchesHistory
<1>1. ProcessInv => BackoffMatchesHistory
  BY DEF ProcessInv
<1> QED BY ProcessInit, ProcessNext, <1>1, PTL DEF Spec

(* What a rotation left on disk is not replaced by an older credential     *)
(* (rotation.rs), whatever processes start, crash and rotate.              *)
THEOREM RotationMovesForwardHolds == Spec => RotationMovesForward
<1>1. ProcessInv /\ [Next]_vars => [rotated # None => rotated' >= rotated]_vars
  <2> SUFFICES ASSUME ProcessInv, [Next]_vars, rotated # None PROVE rotated' >= rotated
    OBVIOUS
  <2>1. CASE \E p \in Procs : Persist(p)
    BY <2>1 DEF Persist, Go, ProcessInv, Shape, Dated
  <2>2. CASE rotated' = rotated
    BY <2>2 DEF ProcessInv, Shape
  <2>3. (\E p \in Procs : Persist(p)) \/ rotated' = rotated
    BY DEF Next, vars, Process, Load, Acquire, AlreadyRunning, Pause, Wake, Leave,
           ConnectFails, Failed, Opened, Welcomed, Rejected, Lost, Restarted, EndedBy,
           Clean, NoRotation, Issue, PersistFails, Cancel, Crash, Tick, credVars
  <2> QED BY <2>1, <2>2, <2>3
<1> QED BY ProcessInit, ProcessNext, <1>1, PTL DEF Spec, RotationMovesForward

(* A process that starts or ends changes its own credential; no other step *)
(* touches one, a rotation included.                                       *)
Held == token \in [Procs -> Nat]

LEMMA OnlyLoadChooses ==
  ASSUME [Next]_vars
  PROVE  \/ \E p \in Procs : Load(p) \/ Ends(p)
         \/ token' = token /\ \A p \in Procs : pc'[p] = "loaded" => pc[p] = "loaded"
<1>1. CASE \E p \in Procs : AlreadyRunning(p) \/ Leave(p) \/ Rejected(p) \/ Crash(p)
  BY <1>1 DEF AlreadyRunning, Leave, Rejected, Crash
<1>2. ASSUME NEW p \in Procs, NEW from, NEW to \in Running, Go(p, from, to)
      PROVE  \A q \in Procs : pc'[q] = "loaded" => pc[q] = "loaded"
  BY <1>2 DEF Go, Running
<1>3. ASSUME NEW p \in Procs,
             \/ Acquire(p) \/ Pause(p) \/ Wake(p) \/ ConnectFails(p) \/ Opened(p) \/ Welcomed(p)
             \/ Lost(p) \/ Restarted(p) \/ Clean(p)
             \/ NoRotation(p) \/ Issue(p) \/ Persist(p) \/ PersistFails(p)
      PROVE  token' = token /\ \E from, to : to \in Running /\ Go(p, from, to)
  BY <1>3
  DEF Acquire, Pause, Wake, ConnectFails, Failed, Opened, Welcomed, Lost, Restarted, EndedBy,
      Clean, NoRotation, Issue, Persist, PersistFails, credVars, Running
<1>4. CASE (\E p \in Procs : Cancel(p)) \/ Tick \/ UNCHANGED vars
  BY <1>4 DEF Cancel, Tick, vars, credVars
<1> QED BY <1>1, <1>2, <1>3, <1>4 DEF Next, Process

LEMMA HeldNext == ProcessInv /\ Held /\ [Next]_vars => Held'
<1> SUFFICES ASSUME ProcessInv, Held, [Next]_vars PROVE Held'
  OBVIOUS
<1>1. ASSUME NEW p \in Procs, Load(p) PROVE Held'
  BY <1>1, TimeAssumption DEF Load, EffectiveIdentity, Held, ProcessInv, Shape
<1>2. ASSUME NEW p \in Procs, Ends(p) PROVE Held'
  BY <1>2 DEF Ends, Held
<1> QED BY <1>1, <1>2, OnlyLoadChooses DEF Held

(* A process never starts with an expired credential while a live one is   *)
(* there (load_effective_identity, rotation.rs), for any lifetimes and for *)
(* whatever earlier processes left on disk.                                *)
THEOREM LiveCredentialChosenHolds == Spec => LiveCredentialChosen
<1>1. Init => Held
  BY DEF Init, Held
<1>2. ASSUME ProcessInv, Held, [Next]_vars, NEW p \in Procs,
             pc[p] = "off", pc'[p] = "loaded", Expired(token'[p])
      PROVE  Expired(0) /\ (rotated = None \/ Expired(rotated))
  <2>1. Load(p)
    BY <1>2, OnlyLoadChooses DEF Load, Ends, Go, ProcessInv, Shape
  <2>2. token'[p] = EffectiveIdentity
    BY <1>2, <2>1 DEF Load, Held
  <2>3. CASE rotated # None /\ ~Expired(rotated)
    BY <1>2, <2>2, <2>3 DEF EffectiveIdentity
  <2>4. CASE ~(rotated # None /\ ~Expired(rotated))
    BY <1>2, <2>2, <2>4 DEF EffectiveIdentity
  <2> QED BY <2>3, <2>4
<1>3. ProcessInv /\ Held /\ [Next]_vars =>
        [\A p \in Procs : pc[p] = "off" /\ pc'[p] = "loaded" /\ Expired(token'[p]) =>
           Expired(0) /\ (rotated = None \/ Expired(rotated))]_vars
  BY <1>2
<1> QED BY ProcessInit, ProcessNext, HeldNext, <1>1, <1>3, PTL DEF Spec, LiveCredentialChosen
=============================================================================
