---------------------------- MODULE JobDelivery ----------------------------
(***************************************************************************)
(* How a background request becomes a job_completed event in the hands of  *)
(* the hub (lib.rs: start_background_request, session_loop,                *)
(* replay_pending_results; pending_results.rs: record, drain, clear).      *)
(*                                                                         *)
(* A worker task outlives the session that started it.  It persists its    *)
(* completion and then wakes whichever session is current through one      *)
(* tokio Notify; only the session sends persisted completions: it drains   *)
(* the store, and for each entry sends it and then removes its file.  The  *)
(* connection may break and the process may die between any two steps.     *)
(*                                                                         *)
(* The mutex of the store is held from Commit to Prune and is not a        *)
(* variable: it is held exactly while some worker is "committed".          *)
(***************************************************************************)
EXTENDS Integers, PendingStore

CONSTANTS
  Requests,   \* background requests, each run at most once
  JobOf,      \* request -> the job_id it carries, i.e. its file's name
  None,       \* no file / no request
  Cap,        \* MAX_PENDING_FILES
  Ageable,    \* the requests whose completion may outlive PENDING_TTL
  MaxLosses,  \* bound: connections lost in a behaviour
  MaxCrashes, \* bound: process deaths in a behaviour
  MaxFaults   \* bound: I/O errors in a behaviour

ASSUME RequestsAssumption == IsFiniteSet(Requests) /\ None \notin Requests
ASSUME JobAssumption == JobOf \in [Requests -> Nat]
ASSUME CapAssumption == Cap \in Nat \ {0}
ASSUME AgeAssumption == Ageable \subseteq Requests
ASSUME BoundAssumption ==
  MaxLosses \in Nat /\ MaxCrashes \in Nat /\ MaxFaults \in Nat

Jobs == {JobOf[r] : r \in Requests}

VARIABLES
  \* worker tasks
  phase,    \* request -> where its task is
  attached, \* requests whose response_tx belongs to the current session
  \* the pending-result directory
  store,    \* job id -> the request whose completion its file holds, or None
  stamp,    \* request -> position of its commit in the order of commits (the
            \* mtime of its file), 0 before it
  expired,  \* requests committed longer than PENDING_TTL ago
  \* the agent's connection loop
  pc,       \* "dead" process, "down" between sessions, or the session's step
  why,      \* what started the replay in progress
  batch,    \* the entries drained and not sent yet
  current,  \* the entry sent and not cleared yet
  chan,     \* completions queued in this session's response channel
  waiter,   \* the pending_notification future of this session
  permit,   \* the permit stored in pending_ready
  \* the network
  link,     \* "up" or "broken"
  wire,     \* completions in transit on this connection
  hub,      \* completions the hub has received
  \* observation
  handed,   \* completions some ws.send has accepted
  sentNow,  \* those a replay of the current session has sent
  losses, crashes, faults

workVars == <<phase, attached>>
storeVars == <<store, stamp, expired>>
sessVars == <<pc, why, batch, current, chan, waiter, permit>>
netVars == <<link, wire, hub>>
sentVars == <<handed, sentNow>>
boundVars == <<losses, crashes, faults>>
vars == <<phase, attached, store, stamp, expired, pc, why, batch, current, chan,
          waiter, permit, link, wire, hub, handed, sentNow, losses, crashes, faults>>

Phases == {"none", "running", "recording", "committed", "notifying",
           "fallback", "done", "killed"}
InSession == {"drain", "send", "clear", "idle"}

Init ==
  /\ phase = [r \in Requests |-> "none"]
  /\ attached = {}
  /\ store = [j \in Jobs |-> None]
  /\ stamp = [r \in Requests |-> 0]
  /\ expired = {}
  /\ pc = "down"
  /\ why = "open"
  /\ batch = {}
  /\ current = None
  /\ chan = {}
  /\ waiter = "none"
  /\ permit = FALSE
  /\ link = "broken"
  /\ wire = {}
  /\ hub = {}
  /\ handed = {}
  /\ sentNow = {}
  /\ losses = 0
  /\ crashes = 0
  /\ faults = 0

-----------------------------------------------------------------------------
Files == {j \in Jobs : store[j] # None}
MTime == [j \in Files |-> stamp[store[j]]]
Stored(r) == store[JobOf[r]] = r
Held == \E r \in Requests : phase[r] = "committed"
Without(gone) == [j \in Jobs |-> IF j \in gone THEN None ELSE store[j]]

\* tokio::sync::Notify: notify_one completes the registered waiter, or leaves
\* one permit for the next future that is polled.
NotifyWaiters == \* defect: nobody waiting, nobody told
  /\ waiter' = IF waiter = "registered" THEN "granted" ELSE waiter
  /\ permit' = permit

NotifyOne ==
  IF waiter = "registered"
    THEN waiter' = "granted" /\ permit' = permit
    ELSE permit' = TRUE /\ waiter' = waiter

\* Dropping a future that was granted but never polled passes the grant on.
DropWaiter ==
  /\ waiter' = "none"
  /\ permit' = (permit \/ waiter = "granted")

\* A message accepted by ws.send travels only while the connection is up.
Transmit(rs) == wire' = IF link = "up" THEN wire \cup rs ELSE wire

\* The session returns to run(): its channel, its future and the rest of the
\* drained snapshot go with it.  Workers keep running.
EndSession ==
  /\ pc' = "down"
  /\ why' = "open"
  /\ batch' = {}
  /\ current' = None
  /\ chan' = {}
  /\ DropWaiter
  /\ attached' = {}
  /\ sentNow' = {}

-----------------------------------------------------------------------------
(* The worker task of a background request. *)

\* start_background_request: the "running" ack is sent and the task spawned.
\* (An ack that cannot be sent ends the session and starts nothing: Lost.)
Accept(r) ==
  /\ pc = "idle"
  /\ phase[r] = "none"
  /\ phase' = [phase EXCEPT ![r] = "running"]
  /\ attached' = attached \cup {r}
  /\ UNCHANGED <<storeVars, sessVars, netVars, sentVars, boundVars>>

\* dispatch_safely returns (a panic included) and the event is built.
Dispatched(r) ==
  /\ phase[r] = "running"
  /\ phase' = [phase EXCEPT ![r] = "recording"]
  /\ UNCHANGED <<attached, storeVars, sessVars, netVars, sentVars, boundVars>>

\* record: the mutex, then the atomic write of <job_id>.json, which replaces a
\* file of the same job.
Commit(r) ==
  /\ phase[r] = "recording"
  /\ ~Held
  /\ store' = [store EXCEPT ![JobOf[r]] = r]
  /\ stamp' = [stamp EXCEPT ![r] = Cardinality({q \in Requests : stamp[q] > 0}) + 1]
  /\ phase' = [phase EXCEPT ![r] = "committed"]
  /\ UNCHANGED <<attached, expired, sessVars, netVars, sentVars, boundVars>>

\* record: the oldest files beyond the cap are removed, the mutex is released.
Prune(r) ==
  /\ phase[r] = "committed"
  /\ store' = Without(Victims(Files, MTime, Cap))
  /\ phase' = [phase EXCEPT ![r] = "notifying"]
  /\ UNCHANGED <<attached, stamp, expired, sessVars, netVars, sentVars, boundVars>>

\* pending_path.is_some(): pending_ready.notify_one()
Notify(r) ==
  /\ phase[r] = "notifying"
  /\ NotifyOne
  /\ phase' = [phase EXCEPT ![r] = "done"]
  /\ UNCHANGED <<attached, storeVars, pc, why, batch, current, chan, netVars,
                 sentVars, boundVars>>

\* record returns None: nothing was written.
RecordFails(r) ==
  /\ phase[r] = "recording"
  /\ ~Held
  /\ faults < MaxFaults
  /\ faults' = faults + 1
  /\ phase' = [phase EXCEPT ![r] = "fallback"]
  /\ UNCHANGED <<attached, storeVars, sessVars, netVars, sentVars, losses, crashes>>

FallbackDropped(r) == \* defect: an unpersisted event is not queued
  /\ phase[r] = "fallback"
  /\ phase' = [phase EXCEPT ![r] = "done"]
  /\ UNCHANGED <<attached, storeVars, sessVars, netVars, sentVars, boundVars>>

\* The unpersisted event goes to the channel of the session that started the
\* job; if that session is over, it is dropped.
Fallback(r) ==
  /\ phase[r] = "fallback"
  /\ chan' = IF r \in attached THEN chan \cup {r} ELSE chan
  /\ phase' = [phase EXCEPT ![r] = "done"]
  /\ UNCHANGED <<attached, storeVars, pc, why, batch, current, waiter, permit,
                 netVars, sentVars, boundVars>>

-----------------------------------------------------------------------------
(* The session. *)

\* open_websocket, the welcome, and the arming of pending_notification.
Connect ==
  /\ pc = "down"
  /\ link' = "up"
  /\ wire' = {}
  /\ pc' = "drain"
  /\ why' = "open"
  /\ waiter' = "armed"
  /\ UNCHANGED <<workVars, storeVars, batch, current, chan, permit, hub,
                 sentVars, boundVars>>

DrainTakes == \* defect: the files are removed as they are read
  /\ pc = "drain"
  /\ ~Held
  /\ store' = Without(Files)
  /\ batch' = {store[j] : j \in Files} \ expired
  /\ pc' = "send"
  /\ UNCHANGED <<workVars, stamp, expired, why, current, chan, waiter, permit,
                 netVars, sentVars, boundVars>>

\* drain_pending: expired files are removed, the others are the snapshot.
Drain ==
  /\ pc = "drain"
  /\ ~Held
  /\ store' = Without({j \in Files : store[j] \in expired})
  /\ batch' = {store[j] : j \in Files} \ expired
  /\ pc' = "send"
  /\ UNCHANGED <<workVars, stamp, expired, why, current, chan, waiter, permit,
                 netVars, sentVars, boundVars>>

\* The directory cannot be listed: the files stay for a later replay.
DrainFails ==
  /\ pc = "drain"
  /\ ~Held
  /\ faults < MaxFaults
  /\ faults' = faults + 1
  /\ batch' = {}
  /\ pc' = "send"
  /\ UNCHANGED <<workVars, storeVars, why, current, chan, waiter, permit,
                 netVars, sentVars, losses, crashes>>

\* The snapshot is replayed oldest first.
Oldest(r) == r \in batch /\ \A q \in batch : stamp[r] <= stamp[q]

SendNext(r) ==
  /\ pc = "send"
  /\ Oldest(r)
  /\ batch' = batch \ {r}
  /\ current' = r
  /\ handed' = handed \cup {r}
  /\ sentNow' = sentNow \cup {r}
  /\ Transmit({r})
  /\ pc' = "clear"
  /\ UNCHANGED <<workVars, storeVars, why, chan, waiter, permit, link, hub, boundVars>>

ClearForgotten == \* defect: the entry is sent and its file stays
  /\ pc = "clear"
  /\ ~Held
  /\ current' = None
  /\ pc' = "send"
  /\ UNCHANGED <<workVars, storeVars, why, batch, chan, waiter, permit,
                 netVars, sentVars, boundVars>>

\* clear_pending(path): the file of that name is removed, whatever it holds.
Clear ==
  /\ pc = "clear"
  /\ ~Held
  /\ store' = Without({JobOf[current]})
  /\ current' = None
  /\ pc' = "send"
  /\ UNCHANGED <<workVars, stamp, expired, why, batch, chan, waiter, permit,
                 netVars, sentVars, boundVars>>

\* remove_file fails and is only logged.
ClearFails ==
  /\ pc = "clear"
  /\ ~Held
  /\ faults < MaxFaults
  /\ faults' = faults + 1
  /\ current' = None
  /\ pc' = "send"
  /\ UNCHANGED <<workVars, storeVars, why, batch, chan, waiter, permit,
                 netVars, sentVars, losses, crashes>>

\* The replay is over; one that was started by the notification arms a new
\* future, one that was started by the heartbeat sends its Ping.
ReplayDone ==
  /\ pc = "send"
  /\ batch = {}
  /\ pc' = "idle"
  /\ waiter' = IF why = "notify" THEN "armed" ELSE waiter
  /\ UNCHANGED <<workVars, storeVars, why, batch, current, chan, permit,
                 netVars, sentVars, boundVars>>

\* select! polls pending_notification: it consumes a stored permit, or is
\* registered as the waiter.
PollNotification ==
  /\ pc = "idle"
  /\ \/ waiter = "granted"
        /\ waiter' = "none" /\ pc' = "drain" /\ why' = "notify"
        /\ UNCHANGED permit
     \/ waiter = "armed" /\ permit
        /\ waiter' = "none" /\ pc' = "drain" /\ why' = "notify"
        /\ permit' = FALSE
     \/ waiter = "armed" /\ ~permit
        /\ waiter' = "registered"
        /\ UNCHANGED <<permit, pc, why>>
  /\ UNCHANGED <<workVars, storeVars, batch, current, chan, netVars, sentVars,
                 boundVars>>

HeartbeatPingsOnly == \* defect: no replay with the Ping
  /\ pc = "idle"
  /\ UNCHANGED vars

\* heartbeat.tick() with a recent pong: replay, then Ping.
Heartbeat ==
  /\ pc = "idle"
  /\ pc' = "drain"
  /\ why' = "beat"
  /\ UNCHANGED <<workVars, storeVars, batch, current, chan, waiter, permit,
                 netVars, sentVars, boundVars>>

\* response_rx.recv(): an unpersisted completion is sent.
SendQueued(r) ==
  /\ pc = "idle"
  /\ r \in chan
  /\ chan' = chan \ {r}
  /\ handed' = handed \cup {r}
  /\ Transmit({r})
  /\ UNCHANGED <<workVars, storeVars, pc, why, batch, current, waiter, permit,
                 link, hub, sentNow, boundVars>>

\* The loss is noticed: ws.next ends, a send fails, the pong is overdue.  It
\* can only be noticed where the session looks at the connection.
Lost ==
  /\ link = "broken"
  /\ pc = "idle" \/ pc = "send"
  /\ EndSession
  /\ UNCHANGED <<phase, storeVars, netVars, handed, boundVars>>

-----------------------------------------------------------------------------
(* The environment. *)

\* The connection breaks, or the hub closes it; what is in transit is lost.
Break ==
  /\ link = "up"
  /\ losses < MaxLosses
  /\ losses' = losses + 1
  /\ link' = "broken"
  /\ wire' = {}
  /\ UNCHANGED <<workVars, storeVars, sessVars, hub, sentVars, crashes, faults>>

Receive(r) ==
  /\ r \in wire
  /\ wire' = wire \ {r}
  /\ hub' = hub \cup {r}
  /\ UNCHANGED <<workVars, storeVars, sessVars, link, sentVars, boundVars>>

\* A stored completion outlives PENDING_TTL.
Age(r) ==
  /\ r \in Ageable \ expired
  /\ Stored(r)
  /\ expired' = expired \cup {r}
  /\ UNCHANGED <<workVars, store, stamp, sessVars, netVars, sentVars, boundVars>>

\* The process dies or is stopped: tasks, channel, Notify and connection go.
Crash ==
  /\ pc # "dead"
  /\ crashes < MaxCrashes
  /\ crashes' = crashes + 1
  /\ pc' = "dead"
  /\ why' = "open"
  /\ batch' = {}
  /\ current' = None
  /\ chan' = {}
  /\ waiter' = "none"
  /\ permit' = FALSE
  /\ attached' = {}
  /\ sentNow' = {}
  /\ phase' = [r \in Requests |->
                 IF phase[r] \in {"none", "done"} THEN phase[r] ELSE "killed"]
  /\ link' = "broken"
  /\ wire' = {}
  /\ UNCHANGED <<storeVars, hub, handed, losses, faults>>

\* The supervisor starts the agent again.
Restart ==
  /\ pc = "dead"
  /\ pc' = "down"
  /\ UNCHANGED <<workVars, storeVars, why, batch, current, chan, waiter, permit,
                 netVars, sentVars, boundVars>>

-----------------------------------------------------------------------------
Worker(r) ==
  \/ Dispatched(r) \/ Commit(r) \/ Prune(r) \/ Notify(r)
  \/ RecordFails(r) \/ Fallback(r)

Next ==
  \/ \E r \in Requests : Accept(r)
  \/ \E r \in Requests : Worker(r)
  \/ Connect \/ Drain \/ DrainFails
  \/ \E r \in Requests : SendNext(r)
  \/ Clear \/ ClearFails \/ ReplayDone
  \/ PollNotification \/ Heartbeat
  \/ \E r \in Requests : SendQueued(r)
  \/ Lost \/ Break
  \/ \E r \in Requests : Receive(r)
  \/ \E r \in Requests : Age(r)
  \/ Crash \/ Restart

Spec == Init /\ [][Next]_vars

(* The reconnect loop, the steps of a replay, the tasks and the supervisor *)
(* all keep going.  select! starts at a random branch on every iteration,  *)
(* so a branch that is ready again and again is taken: strong fairness.    *)
Progress ==
  /\ WF_vars(Connect) /\ WF_vars(Restart) /\ WF_vars(Lost)
  /\ WF_vars(Drain) /\ WF_vars(Clear) /\ WF_vars(ReplayDone)
  /\ WF_vars(\E r \in Requests : SendNext(r))
  /\ SF_vars(PollNotification) /\ SF_vars(Heartbeat)
  /\ \A r \in Requests : SF_vars(SendQueued(r))
  /\ \A r \in Requests : WF_vars(Prune(r)) /\ WF_vars(Notify(r)) /\ WF_vars(Fallback(r))

FairSpec == Spec /\ Progress
-----------------------------------------------------------------------------
(* The promise this module implements. *)

\* A drained entry is still owed, whatever became of its file meanwhile.
PromiseState(r) ==
  CASE r \in handed -> "handed"
    [] r \notin handed /\ stamp[r] > 0 ->
         IF Stored(r) \/ r \in batch THEN "owed" ELSE "lost"
    [] r \notin handed /\ stamp[r] = 0 ->
         IF phase[r] = "none" THEN "idle"
         ELSE IF phase[r] \in {"running", "recording", "fallback"} \/ r \in chan
           THEN "running" ELSE "lost"

Promise == INSTANCE CompletionDelivery WITH
  state <- [r \in Requests |-> PromiseState(r)],
  order <- stamp

(* Every step of the agent is a step its promise allows, or none at all:   *)
(* jobs with distinct ids lose a persisted completion only to its TTL or   *)
(* to Cap later completions.                                               *)
KeepsPromise == Promise!Spec

-----------------------------------------------------------------------------
(* Correctness. *)

(* The type of every variable. *)
TypeOK ==
  /\ phase \in [Requests -> Phases]
  /\ attached \subseteq Requests
  /\ store \in [Jobs -> Requests \cup {None}]
  /\ stamp \in [Requests -> Nat]
  /\ expired \subseteq Requests
  /\ pc \in InSession \cup {"dead", "down"}
  /\ why \in {"open", "notify", "beat"}
  /\ batch \subseteq Requests
  /\ current \in Requests \cup {None}
  /\ chan \subseteq Requests
  /\ waiter \in {"none", "armed", "registered", "granted"}
  /\ permit \in BOOLEAN
  /\ link \in {"up", "broken"}
  /\ wire \subseteq Requests
  /\ hub \subseteq Requests
  /\ handed \subseteq Requests
  /\ sentNow \subseteq Requests
  /\ losses \in 0..MaxLosses
  /\ crashes \in 0..MaxCrashes
  /\ faults \in 0..MaxFaults

\* At least Cap completions were committed after r's.
Outlived(r) == Cardinality({q \in Requests : stamp[q] > stamp[r]}) >= Cap

\* A later completion of the same job replaced r's.
Superseded(r) ==
  \E q \in Requests : JobOf[q] = JobOf[r] /\ stamp[q] > stamp[r]

(* A completion that was persisted stays in the store until a send of it   *)
(* has succeeded; before that it can only give way to its own TTL, to Cap  *)
(* more recent completions or to a newer completion of the same job,       *)
(* through every interleaving of replay, record, session loss and crash.   *)
PersistedUntilSent ==
  \A r \in Requests :
    stamp[r] > 0 /\ ~Stored(r) =>
      r \in handed \/ r \in expired \/ Outlived(r) \/ Superseded(r)

(* No wake-up is lost: when the select loop is idle, every stored          *)
(* completion that no record() or notify_one() is still to announce has a  *)
(* permit or a granted future waiting for the loop.  (A replay that met an *)
(* I/O error leaves entries behind for the heartbeat: faults = 0.)         *)
Announced(r) == Stored(r) /\ phase[r] \notin {"committed", "notifying"}

WakeupNotLost ==
  pc = "idle" /\ faults = 0 =>
    \A r \in Requests : Announced(r) => permit \/ waiter = "granted"

(* One session never replays a completion twice, however its opening,      *)
(* notification and heartbeat replays overlap with late completions.       *)
NoRepeatInSession == faults = 0 => batch \cap sentNow = {}

(* Every completion that was persisted is eventually handed to a           *)
(* connection, across lost sessions, crashes and one I/O error: what a     *)
(* failed drain or a crash leaves behind, a later replay picks up.         *)
Discharged(r) == r \in handed \/ r \in expired \/ Outlived(r)

PersistedIsSent == \A r \in Requests : stamp[r] > 0 ~> Discharged(r)

(* A completion that could not be persisted is still sent if the session   *)
(* that started its job lives on.                                          *)
FallbackIsSent ==
  \A r \in Requests : phase[r] = "fallback" ~> r \in handed \/ r \notin attached

=============================================================================
