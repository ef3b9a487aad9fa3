---------------------------- MODULE SessionLoop ----------------------------
(***************************************************************************)
(* One established session after another (lib.rs: session_loop,            *)
(* handle_text_message, handle_request, handle_binary_frame,               *)
(* send_outbound) over one JoinSet of request tasks that outlives them.    *)
(*                                                                         *)
(* The loop is a single task: while it awaits one ws.send, none of its     *)
(* other branches (heartbeat, cancellation, reads) can run.  Tasks answer  *)
(* through the bounded channel of the session that started them.           *)
(*                                                                         *)
(* Time is counted in units of which Interval make one heartbeat interval. *)
(* A due heartbeat is urgent: time does not pass in front of it unless the *)
(* loop is stuck in a send.                                                *)
(***************************************************************************)
EXTENDS Integers, Sequences, FiniteSets

CONSTANTS
  Requests,    \* requests (and transfer chunks) the hub sends, each once
  KindOf,      \* request -> "plain", "export" (its reply carries a binary
               \* frame) or "job" (background)
  None,
  MaxInFlight, \* MAX_IN_FLIGHT_TASKS
  ChanCap,     \* capacity of the response channel
  Interval,    \* heartbeat_interval
  Timeout,     \* heartbeat_timeout
  CanBlock,    \* BOOLEAN: a send may wait for a peer that does not read
  MaxSessions  \* bound: sessions in a behaviour

ASSUME RequestsAssumption == IsFiniteSet(Requests) /\ None \notin Requests
ASSUME KindAssumption == KindOf \in [Requests -> {"plain", "export", "job"}]
ASSUME LimitAssumption == MaxInFlight \in Nat \ {0} /\ ChanCap \in Nat \ {0}
\* AgentConfig::validate
ASSUME HeartbeatAssumption ==
  Interval \in Nat \ {0} /\ Timeout \in Nat /\ Timeout > Interval
ASSUME BlockAssumption == CanBlock \in BOOLEAN
ASSUME BoundAssumption == MaxSessions \in Nat

VARIABLES
  session, \* number of the current (or last) session
  pc,      \* "off", "select", "sending" or "stopped"
  out,     \* the messages of the send in progress
  start,   \* the job to start once its ack is out, or None
  task,    \* request -> its task in the JoinSet
  owner,   \* request -> the session it arrived on, 0 before
  chan,    \* this session's response channel
  link,    \* "up" or "broken"
  cancel,  \* the cancellation token
  tick,    \* time to the next heartbeat
  quiet,   \* time since last_pong
  asked,   \* a Ping was sent since last_pong
  silence, \* observation: time since the hub's last Pong (or the welcome)
  sent,    \* observation: [req, part, on] accepted by ws.send on session `on`
  replies  \* observation: final answers sent to each request

clockVars == <<tick, quiet, asked, silence>>
taskVars == <<task, owner>>
sentVars == <<sent, replies>>
vars == <<session, pc, out, start, task, owner, chan, link, cancel,
          tick, quiet, asked, silence, sent, replies>>

Msg(r, part) == [req |-> r, part |-> part]
InSet(r) == task[r] \in {"running", "finished", "unreaped"}
InFlight == Cardinality({r \in Requests : InSet(r)})

\* tasks.len() >= MAX_IN_FLIGHT_TASKS
Full == InFlight >= MaxInFlight

\* send_outbound: the binary frame precedes its JSON message.
AckFirst(r) == \* defect
  IF KindOf[r] = "export" THEN <<Msg(r, "reply"), Msg(r, "frame")>>
                          ELSE <<Msg(r, "reply")>>
Frames(r) ==
  IF KindOf[r] = "export" THEN <<Msg(r, "frame"), Msg(r, "reply")>>
                          ELSE <<Msg(r, "reply")>>

Init ==
  /\ session = 0
  /\ pc = "off"
  /\ out = <<>>
  /\ start = None
  /\ task = [r \in Requests |-> "none"]
  /\ owner = [r \in Requests |-> 0]
  /\ chan = <<>>
  /\ link = "broken"
  /\ cancel = FALSE
  /\ tick = 0
  /\ quiet = 0
  /\ asked = FALSE
  /\ silence = 0
  /\ sent = {}
  /\ replies = [r \in Requests |-> 0]

-----------------------------------------------------------------------------
Sending(msgs, next) ==
  /\ pc' = "sending"
  /\ out' = msgs
  /\ start' = next

\* The loop returns: the response channel goes with it, the tasks stay.
EndSession ==
  /\ pc' = "off"
  /\ out' = <<>>
  /\ start' = None
  /\ chan' = <<>>
  /\ link' = "broken"
  /\ tick' = 0
  /\ quiet' = 0
  /\ asked' = FALSE
  /\ silence' = 0

Connect ==
  /\ pc = "off"
  /\ ~cancel
  /\ session < MaxSessions
  /\ session' = session + 1
  /\ pc' = "select"
  /\ link' = "up"
  /\ tick' = Interval
  /\ quiet' = 0
  /\ asked' = FALSE
  /\ silence' = 0
  /\ UNCHANGED <<out, start, taskVars, chan, cancel, sentVars>>

Arrives(r) ==
  /\ pc = "select"
  /\ task[r] = "none"
  /\ owner' = [owner EXCEPT ![r] = session]
  /\ UNCHANGED <<session, chan, link, cancel, clockVars, sentVars>>

RefuseAndRun(r) == \* defect: the refusal does not return
  /\ Arrives(r)
  /\ Full
  /\ Sending(<<Msg(r, "refusal")>>, None)
  /\ task' = [task EXCEPT ![r] = "running"]

\* handle_request / handle_binary_frame: the agent is busy, or the hub asks
\* for an export (file_export_chunk) as a background job.
Refuse(r) ==
  /\ Arrives(r)
  /\ Full \/ KindOf[r] = "export"
  /\ Sending(<<Msg(r, "refusal")>>, None)
  /\ task' = [task EXCEPT ![r] = "refused"]

\* start_background_request: the task is spawned after the ack is out.
AcceptJob(r) ==
  /\ Arrives(r)
  /\ ~Full
  /\ KindOf[r] = "job"
  /\ Sending(<<Msg(r, "ack")>>, r)
  /\ UNCHANGED task

\* spawn_foreground_request; a transfer chunk is handled the same way.
AcceptForeground(r) ==
  /\ Arrives(r)
  /\ ~Full
  /\ KindOf[r] \in {"plain", "export"}
  /\ task' = [task EXCEPT ![r] = "running"]
  /\ UNCHANGED <<pc, out, start>>

AnyTrafficCounts == \* defect: a Ping from the hub passes for a Pong
  /\ pc = "select"
  /\ Sending(<<Msg(None, "pong")>>, None)
  /\ quiet' = 0
  /\ asked' = FALSE
  /\ UNCHANGED <<session, taskVars, chan, link, cancel, tick, silence, sentVars>>

HubPing ==
  /\ pc = "select"
  /\ Sending(<<Msg(None, "pong")>>, None)
  /\ UNCHANGED <<session, taskVars, chan, link, cancel, clockVars, sentVars>>

HubPong ==
  /\ pc = "select"
  /\ quiet' = 0
  /\ asked' = FALSE
  /\ silence' = 0
  /\ UNCHANGED <<session, pc, out, start, taskVars, chan, link, cancel, tick, sentVars>>

\* last_pong.elapsed() >= heartbeat_timeout
OverdueEarly == quiet >= Interval \* defect: the wrong limit
Overdue == quiet >= Timeout

\* heartbeat.tick() with a live peer: (replay, see JobDelivery, and) Ping.
HeartbeatPing ==
  /\ pc = "select"
  /\ tick = 0
  /\ ~Overdue
  /\ tick' = Interval
  /\ Sending(<<Msg(None, "ping")>>, None)
  /\ UNCHANGED <<session, taskVars, chan, link, cancel, quiet, asked, silence, sentVars>>

\* heartbeat.tick() with no Pong for too long.
HeartbeatLost ==
  /\ pc = "select"
  /\ tick = 0
  /\ Overdue
  /\ EndSession
  /\ UNCHANGED <<session, taskVars, cancel, sentVars>>

\* response_rx.recv() and send_outbound.
Respond ==
  /\ pc = "select"
  /\ chan # <<>>
  /\ chan' = Tail(chan)
  /\ Sending(Frames(Head(chan)), None)
  /\ UNCHANGED <<session, taskVars, link, cancel, clockVars, sentVars>>

\* tasks.join_next()
Reap(r) ==
  /\ pc = "select"
  /\ task[r] = "unreaped"
  /\ task' = [task EXCEPT ![r] = "reaped"]
  /\ UNCHANGED <<session, pc, out, start, owner, chan, link, cancel, clockVars, sentVars>>

\* ws.send returns Ok: the message is in the socket, whether or not it arrives.
SendOk ==
  LET m == Head(out) IN
  /\ pc = "sending"
  /\ out' = Tail(out)
  /\ pc' = IF Tail(out) = <<>> THEN "select" ELSE "sending"
  /\ start' = None
  /\ task' = IF start = None THEN task ELSE [task EXCEPT ![start] = "running"]
  /\ IF m.req = None
       THEN /\ asked' = (asked \/ m.part = "ping")
            /\ UNCHANGED sentVars
       ELSE /\ sent' = sent \cup {[req |-> m.req, part |-> m.part, on |-> session]}
            /\ replies' = [replies EXCEPT ![m.req] =
                             IF m.part = "frame" THEN @ ELSE @ + 1]
            /\ UNCHANGED asked
  /\ UNCHANGED <<session, owner, chan, link, cancel, tick, quiet, silence>>

\* ws.send returns Err.
SendFails ==
  /\ pc = "sending"
  /\ link = "broken"
  /\ EndSession
  /\ UNCHANGED <<session, taskVars, cancel, sentVars>>

\* ws.next() yields None, an error or a Close frame.
ReadEnds ==
  /\ pc = "select"
  /\ link = "broken"
  /\ EndSession
  /\ UNCHANGED <<session, taskVars, cancel, sentVars>>

-----------------------------------------------------------------------------
Killed == [r \in Requests |-> IF InSet(r) THEN "killed" ELSE task[r]]

Halt ==
  /\ pc' = "stopped"
  /\ out' = <<>>
  /\ start' = None
  /\ chan' = <<>>
  /\ link' = "broken"
  /\ task' = Killed
  /\ UNCHANGED <<session, owner, cancel, clockVars, sentVars>>

StopBetweenSessions == \* defect: the session does not watch the token
  cancel /\ pc = "off" /\ Halt

\* cancel.cancelled() in the loop (or seen by run between sessions): close,
\* abort_all, join.
Stop == cancel /\ pc \in {"off", "select"} /\ Halt

\* An Error message with fatal = true: run returns and drops the JoinSet.
Fatal == pc = "select" /\ Halt

-----------------------------------------------------------------------------
(* The tasks. *)

\* The handler returns; a background task persists its completion by itself.
Dispatched(r) ==
  /\ task[r] = "running"
  /\ task' = [task EXCEPT ![r] = IF KindOf[r] = "job" THEN "unreaped" ELSE "finished"]
  /\ UNCHANGED <<session, pc, out, start, owner, chan, link, cancel, clockVars, sentVars>>

ChannelOpen(r) == pc \in {"select", "sending"} /\ owner[r] = session

TryQueue(r) == \* defect: a full channel discards the answer
  /\ task[r] = "finished"
  /\ chan' = IF ChannelOpen(r) /\ Len(chan) < ChanCap THEN Append(chan, r) ELSE chan
  /\ task' = [task EXCEPT ![r] = "unreaped"]
  /\ UNCHANGED <<session, pc, out, start, owner, link, cancel, clockVars, sentVars>>

QueueAnywhere(r) == \* defect: one channel for all sessions
  /\ task[r] = "finished"
  /\ pc \in {"select", "sending"} => Len(chan) < ChanCap
  /\ chan' = IF pc \in {"select", "sending"} THEN Append(chan, r) ELSE chan
  /\ task' = [task EXCEPT ![r] = "unreaped"]
  /\ UNCHANGED <<session, pc, out, start, owner, link, cancel, clockVars, sentVars>>

\* response_tx.send().await: waits for room; fails once its session is over.
Queue(r) ==
  /\ task[r] = "finished"
  /\ ChannelOpen(r) => Len(chan) < ChanCap
  /\ chan' = IF ChannelOpen(r) THEN Append(chan, r) ELSE chan
  /\ task' = [task EXCEPT ![r] = "unreaped"]
  /\ UNCHANGED <<session, pc, out, start, owner, link, cancel, clockVars, sentVars>>

-----------------------------------------------------------------------------
(* The environment. *)

Break ==
  /\ link = "up"
  /\ link' = "broken"
  /\ UNCHANGED <<session, pc, out, start, taskVars, chan, cancel, clockVars, sentVars>>

Cancel ==
  /\ ~cancel
  /\ cancel' = TRUE
  /\ UNCHANGED <<session, pc, out, start, taskVars, chan, link, clockVars, sentVars>>

Time ==
  /\ \/ pc = "select" /\ tick > 0
     \/ pc = "sending" /\ CanBlock
  /\ tick' = IF tick > 0 THEN tick - 1 ELSE 0
  /\ quiet' = IF quiet < Timeout + Interval THEN quiet + 1 ELSE quiet
  /\ silence' = IF silence < Timeout + Interval THEN silence + 1 ELSE silence
  /\ UNCHANGED <<session, pc, out, start, taskVars, chan, link, cancel, asked, sentVars>>

Loop ==
  \/ \E r \in Requests : Refuse(r) \/ AcceptJob(r) \/ AcceptForeground(r) \/ Reap(r)
  \/ HubPing \/ HubPong \/ HeartbeatPing \/ HeartbeatLost \/ Respond
  \/ SendOk \/ SendFails \/ ReadEnds \/ Stop \/ Fatal

Next ==
  \/ Connect
  \/ Loop
  \/ \E r \in Requests : Dispatched(r) \/ Queue(r)
  \/ Break \/ Cancel \/ Time

Spec == Init /\ [][Next]_vars

(* Handlers return (their own deadlines are not modelled), a send ends one *)
(* way or the other, and select! picks its first branch at random, so a    *)
(* branch that is ready again and again is taken: strong fairness.         *)
Progress ==
  /\ \A r \in Requests : WF_vars(Dispatched(r)) /\ WF_vars(Queue(r))
  /\ WF_vars(SendOk \/ SendFails)
  /\ SF_vars(Respond) /\ SF_vars(Stop)

FairSpec == Spec /\ Progress

-----------------------------------------------------------------------------
(* Correctness. *)

(* Whatever is sent for a request goes out on the session the request came *)
(* in on, even when its task finishes while a later session is running.    *)
AnswersStayInSession == \A m \in sent : m.on = owner[m.req]

(* A request is answered once: never refused and run, never run twice.     *)
AnsweredOnce == \A r \in Requests : replies[r] <= 1

(* The JSON acknowledgement of an exported chunk follows its binary frame  *)
(* on the same connection, whatever else the loop interleaves.             *)
FrameBeforeAck ==
  \A m \in sent : m.part = "reply" /\ KindOf[m.req] = "export" =>
    [req |-> m.req, part |-> "frame", on |-> m.on] \in sent

(* A hub that stays silent is dropped within heartbeat_timeout plus one    *)
(* interval; other traffic of the hub does not count as a sign of life.    *)
SilentHubDropped ==
  pc \in {"select", "sending"} => silence < Timeout + Interval

(* A session is dropped for silence only if a Ping went unanswered.        *)
DroppedForSilence == pc = "select" /\ tick = 0 /\ Overdue /\ pc' = "off" /\ link = "up"

NeverDroppedUnasked == [][DroppedForSilence => asked]_vars

(* A request that was accepted is answered unless its session ends first,  *)
(* also when more answers are ready than the response channel holds.       *)
AnsweredUnlessOver ==
  \A r \in Requests :
    (task[r] = "running" /\ owner[r] = session) ~>
       (replies[r] > 0 \/ owner[r] # session \/ pc \in {"off", "stopped"})

(* Cancellation stops the agent.                                           *)
CancelStops == cancel ~> pc = "stopped"
=============================================================================
