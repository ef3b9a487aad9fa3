---------------------------- MODULE AgentProcess ----------------------------
(***************************************************************************)
(* The life of an agent process (main.rs: run_agent; instance_lock.rs;     *)
(* rotation.rs; lib.rs: Agent::run, open_websocket, exchange_welcome,      *)
(* post_welcome): it picks a credential, takes the per-host lock, and then *)
(* connects again and again, rotating the credential after a welcome, until*)
(* it is stopped or rejected.  A supervisor starts it again.  The state    *)
(* directory is writable (without one the code runs unlocked, unrotated).  *)
(*                                                                         *)
(* A credential is named by the time it was issued; the enrolled one is 0. *)
(* The clock counts fractions of a credential's validity.  Reconnect       *)
(* delays are on a much finer scale: only whether there is one is kept.    *)
(***************************************************************************)
EXTENDS Integers, Sequences

CONSTANTS
  Procs,         \* processes started for one host id
  None,
  Steps,         \* ReconnectPolicy::steps
  RetryAfter,    \* values of retry_after= in the hub's close reasons
  MaxRetryAfter, \* MAX_RETRY_AFTER
  EnrolledLife,  \* validity of the enrolled credential
  Life,          \* validity of a rotated one
  MaxTime,       \* bound: last value of the clock
  MaxStreak,     \* bound: consecutive failures to connect
  MaxCrashes     \* bound: processes killed in a behaviour

ASSUME ProcsAssumption == None \notin Procs /\ None \notin Nat
ASSUME StepsAssumption == Steps \in Seq(Nat)
ASSUME HintAssumption == RetryAfter \subseteq Nat /\ MaxRetryAfter \in Nat
ASSUME TimeAssumption ==
  EnrolledLife \in Nat \ {0} /\ Life \in Nat \ {0} /\ MaxTime \in Nat
ASSUME BoundAssumption == MaxStreak \in Nat /\ MaxCrashes \in Nat

VARIABLES
  pc,      \* where each process is
  token,   \* the credential it runs with (config.token)
  fresh,   \* a credential issued to it and not yet persisted, or None
  attempt, \* run: attempt
  hint,    \* run: retry_hint, or None
  cancel,  \* its cancellation token
  lock,    \* holder of agent-<host>.lock, or None
  rotated, \* credential in identity.rotated.json, or None
  clock,
  streak,  \* observation: failures since the last established session
  ended,   \* observation: how that session ended
  crashes

loopVars == <<attempt, hint, streak, ended>>
credVars == <<token, fresh, rotated>>
vars == <<pc, token, fresh, attempt, hint, cancel, lock, rotated, clock,
          streak, ended, crashes>>

Running == {"loop", "sleep", "connect", "welcome", "rotate", "issued", "session"}

Validity(t) == IF t = 0 THEN EnrolledLife ELSE Life
Expired(t) == clock >= t + Validity(t)
\* should_rotate: now >= iat + (exp - iat) / 2
PastHalfLife(t) == 2 * (clock - t) >= Validity(t)

\* ReconnectPolicy::delay before jitter: the last step repeats.
RawDelay(a) ==
  IF Steps = <<>> THEN 0
  ELSE Steps[IF a + 1 > Len(Steps) THEN Len(Steps) ELSE a + 1]

\* parse_retry_after: clamped; None when the reason has no usable value.
Clamp(s) == IF s > MaxRetryAfter THEN MaxRetryAfter ELSE s
CloseHints == {Clamp(s) : s \in RetryAfter} \cup {None}

Init ==
  /\ pc = [p \in Procs |-> "off"]
  /\ token = [p \in Procs |-> 0]
  /\ fresh = [p \in Procs |-> None]
  /\ attempt = [p \in Procs |-> 0]
  /\ hint = [p \in Procs |-> None]
  /\ cancel = [p \in Procs |-> FALSE]
  /\ lock = None
  /\ rotated = None
  /\ clock = 0
  /\ streak = [p \in Procs |-> 0]
  /\ ended = [p \in Procs |-> "none"]
  /\ crashes = 0

Go(p, from, to) == pc[p] \in from /\ pc' = [pc EXCEPT ![p] = to]

\* The process ends: its variables are gone and the system drops its lock.
Ends(p) ==
  /\ pc' = [pc EXCEPT ![p] = "off"]
  /\ lock' = IF lock = p THEN None ELSE lock
  /\ token' = [token EXCEPT ![p] = 0]
  /\ fresh' = [fresh EXCEPT ![p] = None]
  /\ attempt' = [attempt EXCEPT ![p] = 0]
  /\ hint' = [hint EXCEPT ![p] = None]
  /\ cancel' = [cancel EXCEPT ![p] = FALSE]
  /\ streak' = [streak EXCEPT ![p] = 0]
  /\ ended' = [ended EXCEPT ![p] = "none"]

-----------------------------------------------------------------------------
(* Startup. *)

UnlessAbsent == \* defect: the rotated credential is used whatever its expiry
  IF rotated # None THEN rotated ELSE 0

\* load_effective_identity: rotated while it is unexpired, else the original.
EffectiveIdentity ==
  IF rotated # None /\ ~Expired(rotated) THEN rotated ELSE 0

Load(p) ==
  /\ Go(p, {"off"}, "loaded")
  /\ token' = [token EXCEPT ![p] = EffectiveIdentity]
  /\ UNCHANGED <<fresh, rotated, loopVars, cancel, lock, clock, crashes>>

StealLock(p) == \* defect: the lock file is taken without asking for the lock
  /\ Go(p, {"loaded"}, "loop")
  /\ lock' = p
  /\ UNCHANGED <<loopVars, credVars, cancel, clock, crashes>>

\* instance_lock::acquire, then Agent::new and run.
Acquire(p) ==
  /\ Go(p, {"loaded"}, "loop")
  /\ lock = None
  /\ lock' = p
  /\ UNCHANGED <<loopVars, credVars, cancel, clock, crashes>>

\* Another process holds the lock: exit status 3.
AlreadyRunning(p) ==
  /\ pc[p] = "loaded"
  /\ lock # None
  /\ Ends(p)
  /\ UNCHANGED <<rotated, clock, crashes>>

-----------------------------------------------------------------------------
(* Agent::run. *)

\* retry_hint.take(), or the schedule with jitter.
Pause(p) ==
  /\ pc[p] = "loop" /\ ~cancel[p]
  /\ \E d \in IF hint[p] # None THEN {hint[p]} ELSE 0..RawDelay(attempt[p]) :
       Go(p, {"loop"}, IF d = 0 THEN "connect" ELSE "sleep")
  /\ hint' = [hint EXCEPT ![p] = None]
  /\ UNCHANGED <<attempt, streak, ended, credVars, cancel, lock, clock, crashes>>

Wake(p) ==
  /\ Go(p, {"sleep"}, "connect")
  /\ UNCHANGED <<loopVars, credVars, cancel, lock, clock, crashes>>

\* while !cancel.is_cancelled(), and the cancelled() branch of the sleep.
Leave(p) ==
  /\ pc[p] \in {"loop", "sleep"} /\ cancel[p]
  /\ Ends(p)
  /\ UNCHANGED <<rotated, clock, crashes>>

\* Any other error before the welcome, and EnrollmentRejected.
Failed(p, from) ==
  /\ Go(p, from, "loop")
  /\ streak[p] < MaxStreak
  /\ attempt' = [attempt EXCEPT ![p] = @ + 1]
  /\ streak' = [streak EXCEPT ![p] = @ + 1]
  /\ UNCHANGED <<hint, ended, credVars, cancel, lock, clock, crashes>>

\* open_websocket and exchange_welcome end without a welcome: refused, timed
\* out, closed, or an enrollment_rejected answer (always, once expired).
ConnectFails(p) == Failed(p, {"connect", "welcome"})

Opened(p) ==
  /\ Go(p, {"connect"}, "welcome")
  /\ UNCHANGED <<loopVars, credVars, cancel, lock, clock, crashes>>

Welcomed(p) ==
  /\ Go(p, {"welcome"}, "rotate")
  /\ ~Expired(token[p])
  /\ UNCHANGED <<loopVars, credVars, cancel, lock, clock, crashes>>

\* Another error answer to hello, or a fatal one in the session.
Rejected(p) ==
  /\ pc[p] \in {"welcome", "session"}
  /\ Ends(p)
  /\ UNCHANGED <<rotated, clock, crashes>>

EndedBy(p, how, next, h) ==
  /\ Go(p, {"session"}, "loop")
  /\ attempt' = [attempt EXCEPT ![p] = next]
  /\ hint' = [hint EXCEPT ![p] = h]
  /\ streak' = [streak EXCEPT ![p] = 0]
  /\ ended' = [ended EXCEPT ![p] = how]
  /\ UNCHANGED <<credVars, cancel, lock, clock, crashes>>

LostKeepsHistory(p) == \* defect: the old backoff is kept after a session
  \E h \in CloseHints : EndedBy(p, "lost", attempt[p] + 1, h)

Lost(p) == \E h \in CloseHints : EndedBy(p, "lost", 1, h)

\* Close code 1012.
Restarted(p) == \E h \in CloseHints : EndedBy(p, "restart", 0, h)

\* Cancelled while waiting for the welcome or in the session.
Clean(p) ==
  /\ cancel[p]
  /\ Go(p, {"welcome", "session"}, "loop")
  /\ attempt' = [attempt EXCEPT ![p] = 0]
  /\ streak' = [streak EXCEPT ![p] = 0]
  /\ ended' = [ended EXCEPT ![p] = "clean"]
  /\ UNCHANGED <<hint, credVars, cancel, lock, clock, crashes>>

-----------------------------------------------------------------------------
(* post_welcome: maybe_rotate. *)

NoRotation(p) ==
  /\ Go(p, {"rotate"}, "session")
  /\ UNCHANGED <<loopVars, credVars, cancel, lock, clock, crashes>>

Issue(p) ==
  /\ PastHalfLife(token[p])
  /\ ~Expired(token[p])
  /\ Go(p, {"rotate"}, "issued")
  /\ fresh' = [fresh EXCEPT ![p] = clock]
  /\ UNCHANGED <<token, rotated, loopVars, cancel, lock, clock, crashes>>

\* persist_rotated: the running process keeps the credential it started with.
Persist(p) ==
  /\ Go(p, {"issued"}, "session")
  /\ rotated' = fresh[p]
  /\ fresh' = [fresh EXCEPT ![p] = None]
  /\ UNCHANGED <<token, loopVars, cancel, lock, clock, crashes>>

\* The answer is unusable or cannot be written: only a warning.
PersistFails(p) ==
  /\ Go(p, {"issued"}, "session")
  /\ fresh' = [fresh EXCEPT ![p] = None]
  /\ UNCHANGED <<token, rotated, loopVars, cancel, lock, clock, crashes>>

-----------------------------------------------------------------------------
(* The environment. *)

\* SIGTERM or ctrl-c.
Cancel(p) ==
  /\ pc[p] \in Running /\ ~cancel[p]
  /\ cancel' = [cancel EXCEPT ![p] = TRUE]
  /\ UNCHANGED <<pc, loopVars, credVars, lock, clock, crashes>>

Crash(p) ==
  /\ pc[p] # "off"
  /\ crashes < MaxCrashes
  /\ crashes' = crashes + 1
  /\ Ends(p)
  /\ UNCHANGED <<rotated, clock>>

Tick ==
  /\ clock < MaxTime
  /\ clock' = clock + 1
  /\ UNCHANGED <<pc, loopVars, credVars, cancel, lock, crashes>>

Process(p) ==
  \/ Load(p) \/ Acquire(p) \/ AlreadyRunning(p)
  \/ Pause(p) \/ Wake(p) \/ Leave(p) \/ ConnectFails(p) \/ Opened(p) \/ Welcomed(p)
  \/ Rejected(p) \/ Lost(p) \/ Restarted(p) \/ Clean(p)
  \/ NoRotation(p) \/ Issue(p) \/ Persist(p) \/ PersistFails(p)

Next == (\E p \in Procs : Process(p) \/ Cancel(p) \/ Crash(p)) \/ Tick

Spec == Init /\ [][Next]_vars

-----------------------------------------------------------------------------
(* Correctness. *)

(* Two processes of one host never serve it at the same time, through      *)
(* crashes and restarts, and the one that does holds the lock.             *)
SingleInstance == \A p \in Procs : pc[p] \in Running => lock = p

(* A process never starts with an expired credential while the host has    *)
(* one that is still valid, whatever rotation left on disk.                *)
LiveCredentialChosen ==
  [][\A p \in Procs : pc[p] = "off" /\ pc'[p] = "loaded" /\ Expired(token'[p]) =>
       Expired(0) /\ (rotated = None \/ Expired(rotated))]_vars

(* The rotated credential only ever moves forward: no interleaving of      *)
(* rotations, crashes and restarts replaces it by an older one.            *)
RotationMovesForward == [][rotated # None => rotated' >= rotated]_vars

(* The backoff depends only on what happened since the last established    *)
(* session: an established session wipes out the failures before it.       *)
BackoffMatchesHistory ==
  \A p \in Procs : pc[p] \in Running =>
    attempt[p] = streak[p] + (IF ended[p] = "lost" THEN 1 ELSE 0)

=============================================================================
