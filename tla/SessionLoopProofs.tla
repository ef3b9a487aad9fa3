--------------------------- MODULE SessionLoopProofs ---------------------------
(***************************************************************************)
(* Theorems about SessionLoop, for every set of requests and every bound:  *)
(* an answer never reaches another session than the one that asked, a      *)
(* request is answered once, a frame precedes its acknowledgement, and,    *)
(* when no send blocks, a silent hub is dropped in time and never unasked. *)
(***************************************************************************)
EXTENDS SessionLoop, TLAPS

Parts == {"frame", "reply", "refusal", "ack", "ping", "pong"}
Tasks == {"none", "running", "finished", "unreaped", "reaped", "refused", "killed"}
Message == [req : Requests \cup {None}, part : Parts]

Shape ==
  /\ session \in Nat
  /\ pc \in {"off", "select", "sending", "stopped"}
  /\ out \in Seq(Message)
  /\ start \in Requests \cup {None}
  /\ task \in [Requests -> Tasks]
  /\ owner \in [Requests -> Nat]
  /\ chan \in Seq(Requests)
  /\ \A m \in sent : m.req \in Requests

(* Between sends nothing is half-sent, and between sessions the channel is *)
(* empty as well: this is what makes the number of the session stand for   *)
(* the connection.                                                         *)
Emptied ==
  /\ pc # "sending" => out = <<>>
  /\ pc = "sending" => out # <<>>
  /\ pc \in {"off", "stopped"} => chan = <<>>

(* What waits in the channel or is being sent belongs to this session, to  *)
(* requests that have arrived for good: the hub's next message cannot make *)
(* them arrive again. A job arrives for good when its ack is out.          *)
Queued == \A i \in 1..Len(chan) : owner[chan[i]] = session /\ task[chan[i]] # "none"
Leaving ==
  \A i \in 1..Len(out) :
    out[i].req # None =>
      /\ owner[out[i].req] = session
      /\ task[out[i].req] # "none" \/ start = out[i].req
Settled == \A m \in sent : m.on = owner[m.req] /\ task[m.req] # "none"

SessionInv == Shape /\ Emptied /\ Queued /\ Leaving /\ Settled

LEMMA SessionInit == Init => SessionInv
  BY DEF Init, SessionInv, Shape, Emptied, Queued, Leaving, Settled, Tasks

(* The loop goes away, whatever becomes of the tasks.                      *)
LEMMA Ended ==
  ASSUME SessionInv, session' = session, owner' = owner, sent' = sent,
         task' = task \/ task' = Killed,
         pc' \in {"off", "stopped"}, out' = <<>>, start' = None, chan' = <<>>
  PROVE  SessionInv'
<1>1. task' \in [Requests -> Tasks] /\ \A r \in Requests : task[r] # "none" => task'[r] # "none"
  BY DEF Killed, SessionInv, Shape, Tasks
<1>2. Shape'
  BY <1>1 DEF SessionInv, Shape
<1>3. Settled'
  BY <1>1 DEF SessionInv, Settled, Shape
<1> QED BY <1>2, <1>3 DEF SessionInv, Emptied, Queued, Leaving

(* Steps of the tasks and of the environment: what is in the socket and    *)
(* the loop's place stay, and no task becomes new again.                   *)
LEMMA Aside ==
  ASSUME SessionInv, session' = session, pc' = pc, out' = out, start' = start,
         chan' = chan, owner' = owner, sent' = sent, task' \in [Requests -> Tasks],
         \A r \in Requests : task[r] # "none" => task'[r] # "none"
  PROVE  SessionInv'
<1>1. Shape' /\ Emptied'
  BY DEF SessionInv, Shape, Emptied
<1>2. Queued'
  BY DEF SessionInv, Queued, Shape
<1>3. Leaving'
  <2> SUFFICES ASSUME NEW i \in 1..Len(out), out[i].req # None
               PROVE  /\ owner[out[i].req] = session
                      /\ task'[out[i].req] # "none" \/ start = out[i].req
    BY DEF Leaving
  <2>1. out[i] \in Message
    BY DEF SessionInv, Shape
  <2>2. out[i].req \in Requests
    BY <2>1 DEF Message
  <2> QED BY <2>2 DEF SessionInv, Leaving
<1>4. Settled'
  BY DEF SessionInv, Settled, Shape
<1> QED BY <1>1, <1>2, <1>3, <1>4 DEF SessionInv

(* A request arrives and is answered at once, started, or announced.       *)
LEMMA Arrived ==
  ASSUME SessionInv, NEW r \in Requests, Arrives(r),
         NEW t \in Tasks, task' = [task EXCEPT ![r] = t],
         NEW part \in Parts,
         \/ t # "none" /\ Sending(<<Msg(r, part)>>, None)
         \/ Sending(<<Msg(r, part)>>, r)
         \/ UNCHANGED <<pc, out, start>>
  PROVE  SessionInv'
<1> USE DEF Arrives
<1>0. /\ pc = "select" /\ task[r] = "none" /\ session' = session /\ chan' = chan
      /\ sent' = sent /\ owner' = [owner EXCEPT ![r] = session]
      /\ out = <<>> /\ None \notin Requests
  BY RequestsAssumption DEF SessionInv, Emptied, clockVars, sentVars
<1>1. /\ task' \in [Requests -> Tasks] /\ task'[r] = t
      /\ \A q \in Requests \ {r} : task'[q] = task[q] /\ owner'[q] = owner[q]
      /\ owner' \in [Requests -> Nat] /\ owner'[r] = session
  BY <1>0 DEF SessionInv, Shape
<1>2. Queued'
  <2> SUFFICES ASSUME NEW i \in 1..Len(chan)
               PROVE  owner'[chan[i]] = session /\ task'[chan[i]] # "none"
    BY <1>0 DEF Queued
  <2>1. chan[i] \in Requests \ {r}
    BY <1>0 DEF SessionInv, Shape, Queued
  <2> QED BY <2>1, <1>1 DEF SessionInv, Queued
<1>3. Settled'
  BY <1>0, <1>1 DEF SessionInv, Shape, Settled
<1>4. CASE UNCHANGED <<pc, out, start>>
  <2>1. Shape' /\ Emptied'
    BY <1>0, <1>1, <1>4 DEF SessionInv, Shape, Emptied
  <2>2. Leaving'
    BY <1>0, <1>4 DEF Leaving
  <2> QED BY <2>1, <2>2, <1>2, <1>3 DEF SessionInv
<1>5. ASSUME NEW next \in {r, None}, t # "none" \/ next = r, Sending(<<Msg(r, part)>>, next)
      PROVE  SessionInv'
  <2>1. /\ out' = <<Msg(r, part)>> /\ pc' = "sending" /\ start' = next
        /\ Msg(r, part) \in Message /\ Msg(r, part).req = r
    BY <1>5 DEF Sending, Msg, Message
  <2>2. out' \in Seq(Message) /\ Len(out') = 1 /\ out'[1] = Msg(r, part) /\ out' # <<>>
    BY <2>1
  <2>3. Shape'
    BY <1>0, <1>1, <2>1, <2>2 DEF SessionInv, Shape
  <2>4. Leaving'
    BY <1>0, <1>1, <1>5, <2>1, <2>2 DEF Leaving
  <2>5. Emptied'
    BY <2>1, <2>2 DEF Emptied
  <2> QED BY <2>3, <2>4, <2>5, <1>2, <1>3 DEF SessionInv
<1> QED BY <1>4, <1>5
LEMMA Sent ==
  ASSUME SessionInv, SendOk
  PROVE  SessionInv'
<1> DEFINE m == Head(out)
<1>1. /\ pc = "sending" /\ out' = Tail(out) /\ start' = None
      /\ session' = session /\ owner' = owner /\ chan' = chan
      /\ task' = IF start = None THEN task ELSE [task EXCEPT ![start] = "running"]
      /\ pc' = IF Tail(out) = <<>> THEN "select" ELSE "sending"
  BY DEF SendOk
<1>2. /\ out # <<>> /\ m \in Message /\ m = out[1] /\ 1 \in 1..Len(out)
      /\ Tail(out) \in Seq(Message)
      /\ \A i \in 1..Len(Tail(out)) : i + 1 \in 1..Len(out) /\ Tail(out)[i] = out[i + 1]
  BY <1>1 DEF SessionInv, Shape, Emptied
<1>3. /\ task' \in [Requests -> Tasks]
      /\ \A r \in Requests : task[r] # "none" \/ start = r => task'[r] # "none"
  BY <1>1, RequestsAssumption DEF SessionInv, Shape, Tasks
<1>4. m.req # None => /\ m.req \in Requests /\ owner[m.req] = session
                      /\ task'[m.req] # "none"
  BY <1>2, <1>3 DEF Message, SessionInv, Leaving
<1>5. \A s \in sent' : s \in sent \/ (/\ m.req # None /\ s.req = m.req /\ s.on = session)
  BY DEF SendOk, sentVars
<1>6. Shape'
  BY <1>1, <1>2, <1>3, <1>4, <1>5 DEF SessionInv, Shape
<1>7. Emptied'
  BY <1>1, <1>2 DEF SessionInv, Emptied
<1>8. Queued'
  <2> SUFFICES ASSUME NEW i \in 1..Len(chan)
               PROVE  owner[chan[i]] = session /\ task'[chan[i]] # "none"
    BY <1>1 DEF Queued
  <2>1. chan[i] \in Requests
    BY DEF SessionInv, Shape
  <2> QED BY <2>1, <1>3 DEF SessionInv, Queued
<1>9. Leaving'
  <2> SUFFICES ASSUME NEW i \in 1..Len(Tail(out)), Tail(out)[i].req # None
               PROVE  /\ owner[Tail(out)[i].req] = session
                      /\ task'[Tail(out)[i].req] # "none"
    BY <1>1 DEF Leaving
  <2>1. Tail(out)[i] \in Message /\ Tail(out)[i] = out[i + 1] /\ i + 1 \in 1..Len(out)
    BY <1>2
  <2>2. Tail(out)[i].req \in Requests
    BY <2>1 DEF Message
  <2> QED BY <2>1, <2>2, <1>3 DEF SessionInv, Leaving
<1>10. Settled'
  BY <1>1, <1>3, <1>4, <1>5 DEF SessionInv, Settled, Shape
<1> QED BY <1>6, <1>7, <1>8, <1>9, <1>10 DEF SessionInv

(* The frames of the first answer in the channel take its place.           *)
LEMMA Responded ==
  ASSUME SessionInv, Respond
  PROVE  SessionInv'
<1> DEFINE r == Head(chan)
<1>1. /\ chan # <<>> /\ chan' = Tail(chan) /\ out' = Frames(r) /\ start' = None
      /\ pc' = "sending" /\ session' = session /\ task' = task /\ owner' = owner
      /\ sent' = sent
  BY DEF Respond, Sending, taskVars, sentVars
<1>2. /\ r \in Requests /\ owner[r] = session /\ task[r] # "none"
      /\ Tail(chan) \in Seq(Requests)
      /\ \A i \in 1..Len(Tail(chan)) : i + 1 \in 1..Len(chan) /\ Tail(chan)[i] = chan[i + 1]
  <2>1. r = chan[1] /\ 1 \in 1..Len(chan) /\ r \in Requests
    BY <1>1 DEF SessionInv, Shape
  <2> QED BY <1>1, <2>1 DEF SessionInv, Shape, Queued
<1>3. /\ Frames(r) \in Seq(Message) /\ Frames(r) # <<>>
      /\ \A i \in 1..Len(Frames(r)) : Frames(r)[i].req = r
  <2>1. Msg(r, "frame") \in Message /\ Msg(r, "reply") \in Message
    BY <1>2 DEF Msg, Message, Parts
  <2>2. Msg(r, "frame").req = r /\ Msg(r, "reply").req = r
    BY DEF Msg
  <2> QED BY <2>1, <2>2 DEF Frames
<1>4. Shape' /\ Emptied'
  BY <1>1, <1>2, <1>3 DEF SessionInv, Shape, Emptied
<1>5. Queued'
  BY <1>1, <1>2 DEF SessionInv, Queued
<1>6. Leaving'
  BY <1>1, <1>2, <1>3 DEF Leaving
<1>7. Settled'
  BY <1>1 DEF SessionInv, Settled
<1> QED BY <1>4, <1>5, <1>6, <1>7 DEF SessionInv

(* An answer enters the channel of the session that asked, or none.        *)
LEMMA Answered ==
  ASSUME SessionInv, NEW r \in Requests, Queue(r)
  PROVE  SessionInv'
<1>1. /\ task[r] = "finished" /\ task' = [task EXCEPT ![r] = "unreaped"]
      /\ session' = session /\ pc' = pc /\ out' = out /\ start' = start
      /\ owner' = owner /\ sent' = sent
  BY DEF Queue, sentVars
<1>2. /\ task' \in [Requests -> Tasks] /\ task'[r] # "none"
      /\ \A q \in Requests : task[q] # "none" => task'[q] # "none"
  BY <1>1 DEF SessionInv, Shape, Tasks
<1>3. CASE ~ChannelOpen(r)
  <2>1. chan' = chan
    BY <1>3 DEF Queue
  <2> QED BY <1>1, <1>2, <2>1, Aside
<1>4. CASE ChannelOpen(r)
  <2>1. chan' = Append(chan, r) /\ pc \in {"select", "sending"} /\ owner[r] = session
    BY <1>4 DEF Queue, ChannelOpen
  <2>2. /\ chan' \in Seq(Requests) /\ Len(chan') = Len(chan) + 1 /\ chan'[Len(chan) + 1] = r
        /\ \A i \in 1..Len(chan) : chan'[i] = chan[i] /\ chan[i] \in Requests
        /\ Len(chan) \in Nat
    BY <2>1 DEF SessionInv, Shape
  <2>3. Shape' /\ Emptied'
    BY <1>1, <1>2, <2>1, <2>2 DEF SessionInv, Shape, Emptied
  <2>4. Queued'
    BY <1>1, <1>2, <2>1, <2>2 DEF SessionInv, Queued
  <2>5. Leaving'
    <3> SUFFICES ASSUME NEW i \in 1..Len(out), out[i].req # None
                 PROVE  /\ owner[out[i].req] = session
                        /\ task'[out[i].req] # "none" \/ start = out[i].req
      BY <1>1 DEF Leaving
    <3>1. out[i] \in Message
      BY DEF SessionInv, Shape
    <3>2. out[i].req \in Requests
      BY <3>1 DEF Message
    <3> QED BY <3>2, <1>2 DEF SessionInv, Leaving
  <2>6. Settled'
    BY <1>1, <1>2 DEF SessionInv, Settled, Shape
  <2> QED BY <2>3, <2>4, <2>5, <2>6 DEF SessionInv
<1> QED BY <1>3, <1>4

LEMMA SessionNext == SessionInv /\ [Next]_vars => SessionInv'
<1> SUFFICES ASSUME SessionInv, [Next]_vars PROVE SessionInv'
  OBVIOUS
<1> USE DEF taskVars, sentVars, clockVars
<1>t. task \in [Requests -> Tasks]
  BY DEF SessionInv, Shape
<1>1. CASE Connect
  <2>1. /\ pc = "off" /\ session' = session + 1 /\ pc' = "select" /\ out' = out
        /\ start' = start /\ task' = task /\ owner' = owner /\ chan' = chan /\ sent' = sent
    BY <1>1 DEF Connect
  <2>2. out = <<>> /\ chan = <<>>
    BY <2>1 DEF SessionInv, Emptied
  <2>3. Shape' /\ Emptied' /\ Settled'
    BY <2>1, <2>2 DEF SessionInv, Shape, Emptied, Settled
  <2> QED BY <2>1, <2>2, <2>3 DEF SessionInv, Queued, Leaving
<1>2. ASSUME NEW r \in Requests, Refuse(r) PROVE SessionInv'
  BY <1>2, Arrived DEF Refuse, Parts, Tasks
<1>3. ASSUME NEW r \in Requests, AcceptJob(r) PROVE SessionInv'
  <2>1. task' = [task EXCEPT ![r] = "none"] /\ Arrives(r) /\ Sending(<<Msg(r, "ack")>>, r)
    BY <1>t, <1>3 DEF AcceptJob, Arrives
  <2> QED BY <2>1, Arrived DEF Parts, Tasks
<1>4. ASSUME NEW r \in Requests, AcceptForeground(r) PROVE SessionInv'
  BY <1>4, Arrived DEF AcceptForeground, Parts, Tasks
<1>5. CASE HubPing \/ HeartbeatPing
  <2>1. PICK part \in Parts : Sending(<<Msg(None, part)>>, None)
    BY <1>5 DEF HubPing, HeartbeatPing, Parts
  <2>2. /\ session' = session /\ task' = task /\ owner' = owner /\ chan' = chan
        /\ sent' = sent /\ pc = "select"
    BY <1>5 DEF HubPing, HeartbeatPing
  <2>3. /\ out' = <<Msg(None, part)>> /\ pc' = "sending" /\ start' = None
        /\ Msg(None, part) \in Message /\ Msg(None, part).req = None
    BY <2>1 DEF Sending, Msg, Message
  <2>4. out' \in Seq(Message) /\ Len(out') = 1 /\ out'[1] = Msg(None, part) /\ out' # <<>>
    BY <2>3
  <2>5. Shape' /\ Emptied' /\ Queued' /\ Settled'
    BY <2>2, <2>3, <2>4 DEF SessionInv, Shape, Emptied, Queued, Settled
  <2>6. Leaving'
    BY <2>3, <2>4 DEF Leaving
  <2> QED BY <2>5, <2>6 DEF SessionInv
<1>6. CASE HubPong \/ Break \/ Cancel \/ Time
  BY <1>t, <1>6, Aside DEF HubPong, Break, Cancel, Time
<1>7. CASE HeartbeatLost \/ SendFails \/ ReadEnds
  BY <1>7, Ended DEF HeartbeatLost, SendFails, ReadEnds, EndSession
<1>8. CASE Respond
  BY <1>8, Responded
<1>9. CASE SendOk
  BY <1>9, Sent
<1>10. CASE Stop \/ Fatal
  BY <1>10, Ended DEF Stop, Fatal, Halt
<1>11. ASSUME NEW r \in Requests, Reap(r) \/ Dispatched(r) PROVE SessionInv'
  <2>1. PICK t \in Tasks \ {"none"} : task' = [task EXCEPT ![r] = t]
    BY <1>11 DEF Reap, Dispatched, Tasks
  <2>2. /\ task' \in [Requests -> Tasks]
        /\ \A q \in Requests : task[q] # "none" => task'[q] # "none"
    BY <1>t, <2>1
  <2> QED BY <1>11, <2>2, Aside DEF Reap, Dispatched
<1>12. ASSUME NEW r \in Requests, Queue(r) PROVE SessionInv'
  BY <1>12, Answered
<1>13. CASE UNCHANGED vars
  BY <1>t, <1>13, Aside DEF vars
<1> QED
  BY <1>1, <1>2, <1>3, <1>4, <1>5, <1>6, <1>7, <1>8, <1>9, <1>10, <1>11, <1>12, <1>13
  DEF Next, Loop

(* Every message to the hub about a request goes out on the session it came *)
(* in on (session_loop, lib.rs), whatever the tasks of earlier sessions do. *)
THEOREM AnswersStayInSessionHolds == Spec => []AnswersStayInSession
<1>1. SessionInv => AnswersStayInSession
  BY DEF SessionInv, Settled, AnswersStayInSession
<1> QED BY <1>1, SessionInit, SessionNext, PTL DEF Spec

(***************************************************************************)
(* A request is answered once, and a chunk before its acknowledgement.     *)
(*                                                                         *)
(* An answer is still to come from a task, waits in the channel or is      *)
(* being sent, in one place only; all but the last message of a send are   *)
(* frames, and a job is answered by its ack.                               *)
(***************************************************************************)
Open(r) ==
  \/ task[r] \in {"none", "finished"}
  \/ task[r] = "running" /\ KindOf[r] # "job"
Over == {"refused", "unreaped", "reaped"}

Unanswered ==
  /\ replies \in [Requests -> {0, 1}]
  /\ \A r \in Requests : Open(r) => replies[r] = 0

OnceQueued ==
  /\ \A i \in 1..Len(chan) : replies[chan[i]] = 0 /\ task[chan[i]] \in Over
  /\ \A i, j \in 1..Len(chan) : chan[i] = chan[j] => i = j

OnceLeaving ==
  /\ \A i \in 1..Len(out) :
       out[i].req # None =>
         /\ replies[out[i].req] = 0
         /\ task[out[i].req] \in Over \/ start = out[i].req
         /\ \A j \in 1..Len(chan) : chan[j] # out[i].req
  /\ \A i \in 1..Len(out) : i < Len(out) => out[i].part = "frame"
  /\ start # None =>
       KindOf[start] = "job" /\ task[start] = "none" /\ Len(out) = 1 /\ out[1].req = start

Framed ==
  \A i \in 1..Len(out) :
    out[i].req # None /\ out[i].part = "reply" /\ KindOf[out[i].req] = "export" =>
      \/ [req |-> out[i].req, part |-> "frame", on |-> session] \in sent
      \/ i > 1 /\ out[i - 1] = Msg(out[i].req, "frame")

OnceInv == Unanswered /\ OnceQueued /\ OnceLeaving /\ Framed /\ FrameBeforeAck

LEMMA OnceInit == Init => OnceInv
  BY DEF Init, OnceInv, Unanswered, OnceQueued, OnceLeaving, Framed, FrameBeforeAck

LEMMA InFlightOnes ==
  ASSUME SessionInv
  PROVE  /\ \A i \in 1..Len(chan) : chan[i] \in Requests
         /\ \A i \in 1..Len(out) : out[i] \in Message
         /\ \A i \in 1..Len(out) : out[i].req # None => out[i].req \in Requests
<1>1. out \in Seq(Message) /\ chan \in Seq(Requests)
  BY DEF SessionInv, Shape
<1>2. \A i \in 1..Len(out) : out[i] \in Message
  BY <1>1
<1>3. \A m \in Message : m.req # None => m.req \in Requests
  BY DEF Message
<1> QED BY <1>1, <1>2, <1>3

(* Only tasks move, and an answer that has left its task stays outside.    *)
LEMMA OnceAside ==
  ASSUME SessionInv, OnceInv, session' = session, sent' = sent, replies' = replies,
         chan' = chan, out' = out, start' = start,
         \A r \in Requests : /\ Open(r)' => Open(r)
                             /\ task[r] \in Over => task'[r] \in Over
                             /\ task[r] = "none" => task'[r] = "none"
  PROVE  OnceInv'
<1>1. Unanswered'
  BY DEF OnceInv, Unanswered
<1>2. OnceQueued'
  BY InFlightOnes DEF OnceInv, OnceQueued
<1>3. OnceLeaving'
  BY InFlightOnes DEF OnceInv, OnceLeaving, SessionInv, Shape
<1>4. Framed' /\ FrameBeforeAck'
  BY DEF OnceInv, Framed, FrameBeforeAck
<1> QED BY <1>1, <1>2, <1>3, <1>4 DEF OnceInv

(* What was on its way is lost, or there was nothing.                      *)
LEMMA OnceEmptied ==
  ASSUME OnceInv, sent' = sent, replies' = replies,
         chan' = <<>>, out' = <<>>, start' = None,
         \A r \in Requests : Open(r)' => Open(r)
  PROVE  OnceInv'
<1>1. Unanswered'
  BY DEF OnceInv, Unanswered
<1>2. OnceQueued' /\ OnceLeaving' /\ Framed'
  BY DEF OnceQueued, OnceLeaving, Framed
<1>3. FrameBeforeAck'
  BY DEF OnceInv, FrameBeforeAck
<1> QED BY <1>1, <1>2, <1>3 DEF OnceInv

LEMMA OncePinged ==
  ASSUME OnceInv, sent' = sent, replies' = replies, task' = task, chan' = chan,
         NEW part, Sending(<<Msg(None, part)>>, None)
  PROVE  OnceInv'
<1>1. /\ out' = <<Msg(None, part)>> /\ start' = None
  BY DEF Sending
<1>2. Len(out') = 1 /\ out'[1].req = None
  BY <1>1 DEF Msg
<1>3. Unanswered' /\ OnceQueued' /\ FrameBeforeAck'
  BY DEF OnceInv, Unanswered, Open, OnceQueued, FrameBeforeAck
<1>4. OnceLeaving' /\ Framed'
  BY <1>1, <1>2 DEF OnceLeaving, Framed
<1> QED BY <1>3, <1>4 DEF OnceInv

(* A request arrives: nothing was said about it before.                    *)
LEMMA OnceArrived ==
  ASSUME SessionInv, OnceInv, NEW r \in Requests, Arrives(r),
         NEW t, task' = [task EXCEPT ![r] = t],
         NEW part \in {"refusal", "ack"},
         \/ t = "refused" /\ Sending(<<Msg(r, part)>>, None)
         \/ t = "none" /\ KindOf[r] = "job" /\ Sending(<<Msg(r, part)>>, r)
         \/ t = "running" /\ UNCHANGED <<pc, out, start>>
  PROVE  OnceInv'
<1>1. /\ task[r] = "none" /\ chan' = chan /\ sent' = sent /\ replies' = replies
      /\ session' = session /\ out = <<>> /\ replies[r] = 0 /\ r # None
  BY RequestsAssumption DEF Arrives, sentVars, SessionInv, Emptied, OnceInv, Unanswered, Open
<1>2. /\ task \in [Requests -> Tasks] /\ task'[r] = t
      /\ \A q \in Requests \ {r} : task'[q] = task[q]
  BY DEF SessionInv, Shape
<1>3. \A i \in 1..Len(chan) : chan[i] \in Requests \ {r}
  BY <1>1, InFlightOnes DEF OnceInv, OnceQueued, Over
<1>4. Unanswered'
  BY <1>1, <1>2 DEF OnceInv, Unanswered, Open
<1>5. OnceQueued'
  BY <1>1, <1>2, <1>3 DEF OnceInv, OnceQueued
<1>6. FrameBeforeAck'
  BY <1>1 DEF OnceInv, FrameBeforeAck
<1>7. OnceLeaving' /\ Framed'
  <2>1. CASE UNCHANGED <<pc, out, start>>
    BY <1>1, <2>1 DEF OnceInv, OnceLeaving, Framed
  <2>2. ASSUME NEW next \in {r, None}, Sending(<<Msg(r, part)>>, next),
               \/ t = "refused" /\ next = None
               \/ t = "none" /\ KindOf[r] = "job" /\ next = r
        PROVE  OnceLeaving' /\ Framed'
    <3>1. out' = <<Msg(r, part)>> /\ start' = next
      BY <2>2 DEF Sending
    <3>2. Len(out') = 1 /\ out'[1].req = r /\ out'[1].part = part
      BY <3>1 DEF Msg
    <3>3. OnceLeaving'
      BY <1>1, <1>2, <1>3, <2>2, <3>1, <3>2 DEF OnceLeaving, Over
    <3>4. Framed'
      BY <3>2 DEF Framed
    <3> QED BY <3>3, <3>4
  <2>3. CASE t = "refused" /\ Sending(<<Msg(r, part)>>, None)
    BY <2>2, <2>3
  <2>4. CASE t = "none" /\ KindOf[r] = "job" /\ Sending(<<Msg(r, part)>>, r)
    BY <2>2, <2>4
  <2> QED BY <2>1, <2>3, <2>4
<1> QED BY <1>4, <1>5, <1>6, <1>7 DEF OnceInv

(* An answer leaves the channel: it was there once.                        *)
LEMMA OnceResponded ==
  ASSUME SessionInv, OnceInv, Respond
  PROVE  OnceInv'
<1> DEFINE r == Head(chan)
<1>1. /\ chan # <<>> /\ chan' = Tail(chan) /\ out' = Frames(r) /\ start' = None
      /\ session' = session /\ task' = task /\ sent' = sent /\ replies' = replies
  BY DEF Respond, Sending, taskVars, sentVars
<1>2. /\ r = chan[1] /\ 1 \in 1..Len(chan) /\ Len(Tail(chan)) = Len(chan) - 1
      /\ \A i \in 1..Len(Tail(chan)) : i + 1 \in 1..Len(chan) /\ Tail(chan)[i] = chan[i + 1]
  BY <1>1 DEF SessionInv, Shape
<1>3. /\ replies[r] = 0 /\ task[r] \in Over
      /\ \A i \in 1..Len(Tail(chan)) : Tail(chan)[i] # r
  BY <1>2 DEF OnceInv, OnceQueued
<1>4. Unanswered' /\ FrameBeforeAck'
  BY <1>1 DEF OnceInv, Unanswered, Open, FrameBeforeAck
<1>5. OnceQueued'
  <2>1. \A i \in 1..Len(Tail(chan)) :
          replies[Tail(chan)[i]] = 0 /\ task[Tail(chan)[i]] \in Over
    BY <1>2 DEF OnceInv, OnceQueued
  <2>2. \A i, j \in 1..Len(Tail(chan)) : Tail(chan)[i] = Tail(chan)[j] => i = j
    BY <1>2 DEF OnceInv, OnceQueued
  <2> QED BY <1>1, <2>1, <2>2 DEF OnceQueued
<1>6. \/ Frames(r) = <<Msg(r, "frame"), Msg(r, "reply")>>
      \/ Frames(r) = <<Msg(r, "reply")>> /\ KindOf[r] # "export"
  BY DEF Frames
<1>7. /\ Len(Frames(r)) \in {1, 2}
      /\ \A i \in 1..Len(Frames(r)) :
           /\ Frames(r)[i].req = r
           /\ i < Len(Frames(r)) => Frames(r)[i].part = "frame"
           /\ Frames(r)[i].part = "reply" /\ KindOf[r] = "export" =>
                i = 2 /\ Frames(r)[1] = Msg(r, "frame")
  <2>1. /\ Msg(r, "frame").req = r /\ Msg(r, "frame").part = "frame"
        /\ Msg(r, "reply").req = r /\ Msg(r, "reply").part = "reply"
    BY DEF Msg
  <2> HIDE DEF r
  <2>2. CASE Frames(r) = <<Msg(r, "frame"), Msg(r, "reply")>>
    BY <2>1, <2>2
  <2>3. CASE Frames(r) = <<Msg(r, "reply")>> /\ KindOf[r] # "export"
    BY <2>1, <2>3
  <2> QED BY <1>6, <2>2, <2>3
<1>8. OnceLeaving'
  BY <1>1, <1>3, <1>7 DEF OnceLeaving
<1>9. Framed'
  BY <1>1, <1>7 DEF Framed
<1> QED BY <1>4, <1>5, <1>8, <1>9 DEF OnceInv

(* A send: a frame leaves its reply to come, any other part is the last.   *)
LEMMA OnceSent ==
  ASSUME SessionInv, OnceInv, SendOk
  PROVE  OnceInv'
<1> DEFINE m == Head(out)
<1>1. /\ pc = "sending" /\ out' = Tail(out) /\ start' = None
      /\ session' = session /\ chan' = chan
      /\ task' = IF start = None THEN task ELSE [task EXCEPT ![start] = "running"]
  BY DEF SendOk
<1>2. /\ out # <<>> /\ m = out[1] /\ 1 \in 1..Len(out) /\ m \in Message
      /\ Len(Tail(out)) = Len(out) - 1 /\ Len(out) \in Nat
      /\ \A i \in 1..Len(Tail(out)) : i + 1 \in 1..Len(out) /\ Tail(out)[i] = out[i + 1]
  BY <1>1 DEF SessionInv, Shape, Emptied
<1>3. m.req # None =>
        /\ m.req \in Requests /\ replies[m.req] = 0
        /\ task[m.req] \in Over \/ start = m.req
        /\ \A j \in 1..Len(chan) : chan[j] # m.req
  BY <1>2, InFlightOnes DEF OnceInv, OnceLeaving
<1>4. start # None =>
        start \in Requests /\ KindOf[start] = "job" /\ Len(out) = 1 /\ m.req = start
  BY <1>2 DEF OnceInv, OnceLeaving, SessionInv, Shape
<1>5. m.part # "frame" => Len(out) = 1
  BY <1>2 DEF OnceInv, OnceLeaving
<1>6. /\ task \in [Requests -> Tasks]
      /\ \A q \in Requests : q # start => task'[q] = task[q]
      /\ start # None => task'[start] = "running"
  BY <1>1, <1>4 DEF SessionInv, Shape
<1>7. /\ replies \in [Requests -> {0, 1}]
      /\ replies' = IF m.req = None \/ m.part = "frame" THEN replies
                    ELSE [replies EXCEPT ![m.req] = @ + 1]
  BY DEF SendOk, sentVars, OnceInv, Unanswered
<1>8. sent' = IF m.req = None THEN sent
              ELSE sent \cup {[req |-> m.req, part |-> m.part, on |-> session]}
  BY DEF SendOk, sentVars
<1>9. \A q \in Requests : replies'[q] # replies[q] => q = m.req /\ Len(out) = 1
  BY <1>5, <1>7
<1>10. \A q \in Requests : task'[q] # task[q] => q = m.req /\ Len(out) = 1 /\ q = start
  BY <1>4, <1>6, RequestsAssumption
<1> HIDE DEF m
<1>11. Unanswered'
  <2>1. replies' \in [Requests -> {0, 1}]
    BY <1>3, <1>7
  <2>2. ASSUME NEW q \in Requests, Open(q)' PROVE replies'[q] = 0
    <3>1. q # start
      BY <1>4, <1>6, <2>2, RequestsAssumption DEF Open
    <3>2. Open(q) /\ replies[q] = 0
      BY <2>2, <3>1, <1>6 DEF Open, OnceInv, Unanswered
    <3>3. q # m.req
      BY <3>1, <3>2, <1>3, RequestsAssumption DEF Open, Over
    <3> QED BY <3>2, <3>3, <1>9
  <2> QED BY <2>1, <2>2 DEF Unanswered
<1>12. OnceQueued'
  <2>1. ASSUME NEW i \in 1..Len(chan)
        PROVE  replies'[chan[i]] = 0 /\ task'[chan[i]] \in Over
    <3>1. chan[i] \in Requests /\ chan[i] # m.req
      BY <1>3, InFlightOnes, RequestsAssumption
    <3>2. replies[chan[i]] = 0 /\ task[chan[i]] \in Over
      BY DEF OnceInv, OnceQueued
    <3> QED BY <3>1, <3>2, <1>9, <1>10
  <2> QED BY <1>1, <2>1 DEF OnceInv, OnceQueued
<1>13. OnceLeaving'
  <2>1. ASSUME NEW i \in 1..Len(Tail(out)), Tail(out)[i].req # None
        PROVE  /\ replies'[Tail(out)[i].req] = 0
               /\ task'[Tail(out)[i].req] \in Over
               /\ \A j \in 1..Len(chan) : chan[j] # Tail(out)[i].req
    <3>1. Len(out) # 1 /\ i + 1 \in 1..Len(out) /\ Tail(out)[i] = out[i + 1]
      BY <1>2
    <3>2. out[i + 1].req \in Requests
      BY <2>1, <3>1, InFlightOnes
    <3>3. start = None
      BY <1>4, <3>1
    <3>4. /\ replies[out[i + 1].req] = 0
          /\ task[out[i + 1].req] \in Over
          /\ \A j \in 1..Len(chan) : chan[j] # out[i + 1].req
      BY <2>1, <3>1, <3>2, <3>3, RequestsAssumption DEF OnceInv, OnceLeaving
    <3> QED BY <3>1, <3>2, <3>4, <1>9, <1>10
  <2>2. \A i \in 1..Len(Tail(out)) : i < Len(Tail(out)) => Tail(out)[i].part = "frame"
    BY <1>2 DEF OnceInv, OnceLeaving
  <2> QED BY <1>1, <2>1, <2>2 DEF OnceLeaving
<1>14. Framed'
  <2> SUFFICES ASSUME NEW i \in 1..Len(Tail(out)),
                      Tail(out)[i].req # None, Tail(out)[i].part = "reply",
                      KindOf[Tail(out)[i].req] = "export"
               PROVE  \/ [req |-> Tail(out)[i].req, part |-> "frame", on |-> session] \in sent'
                      \/ i > 1 /\ Tail(out)[i - 1] = Msg(Tail(out)[i].req, "frame")
    BY <1>1 DEF Framed
  <2> DEFINE q == Tail(out)[i].req
  <2>1. i + 1 \in 1..Len(out) /\ Tail(out)[i] = out[i + 1]
    BY <1>2
  <2>2. \/ [req |-> q, part |-> "frame", on |-> session] \in sent
        \/ out[i] = Msg(q, "frame")
    BY <2>1 DEF OnceInv, Framed
  <2>3. CASE [req |-> q, part |-> "frame", on |-> session] \in sent
    BY <1>8, <2>3
  <2>4. CASE out[i] = Msg(q, "frame") /\ i = 1
    <3>1. m = Msg(q, "frame")
      BY <1>2, <2>4
    <3>2. m.req = q /\ m.part = "frame"
      BY <3>1 DEF Msg
    <3> QED BY <1>8, <3>2
  <2>5. CASE out[i] = Msg(q, "frame") /\ i # 1
    <3>1. i - 1 \in 1..Len(Tail(out)) /\ Tail(out)[i - 1] = out[i]
      BY <1>2, <2>5
    <3> QED BY <2>5, <3>1
  <2> QED BY <2>2, <2>3, <2>4, <2>5
<1>15. FrameBeforeAck'
  <2> SUFFICES ASSUME NEW s \in sent', s.part = "reply", KindOf[s.req] = "export"
               PROVE  [req |-> s.req, part |-> "frame", on |-> s.on] \in sent'
    BY DEF FrameBeforeAck
  <2>1. CASE s \in sent
    BY <1>8, <2>1 DEF OnceInv, FrameBeforeAck
  <2>2. CASE s \notin sent
    <3>1. m.req # None /\ s.req = m.req /\ s.part = m.part /\ s.on = session
      BY <1>8, <2>2
    <3>2. [req |-> m.req, part |-> "frame", on |-> session] \in sent
      BY <1>2, <3>1 DEF OnceInv, Framed
    <3> QED BY <1>8, <3>1, <3>2
  <2> QED BY <2>1, <2>2
<1> QED BY <1>11, <1>12, <1>13, <1>14, <1>15 DEF OnceInv

(* An answer enters the channel, where its task had it until now.          *)
LEMMA OnceEnters ==
  ASSUME SessionInv, OnceInv, NEW r \in Requests, Queue(r)
  PROVE  OnceInv'
<1>1. /\ task[r] = "finished" /\ task' = [task EXCEPT ![r] = "unreaped"]
      /\ session' = session /\ out' = out /\ start' = start
      /\ sent' = sent /\ replies' = replies
  BY DEF Queue, sentVars
<1>2. /\ task' \in [Requests -> Tasks] /\ task'[r] = "unreaped"
      /\ \A q \in Requests \ {r} : task'[q] = task[q]
      /\ replies[r] = 0
  BY <1>1 DEF SessionInv, Shape, Tasks, OnceInv, Unanswered, Open
<1>3. CASE chan' = chan
  <2>1. \A q \in Requests : /\ Open(q)' => Open(q)
                            /\ task[q] \in Over => task'[q] \in Over
                            /\ task[q] = "none" => task'[q] = "none"
    BY <1>1, <1>2 DEF Open, Over
  <2> QED BY <1>1, <1>3, <2>1, OnceAside
<1>4. CASE chan' = Append(chan, r)
  <2>1. /\ Len(chan') = Len(chan) + 1 /\ chan'[Len(chan) + 1] = r /\ Len(chan) \in Nat
        /\ \A i \in 1..Len(chan) : chan'[i] = chan[i]
    BY <1>4 DEF SessionInv, Shape
  <2>2. /\ \A i \in 1..Len(chan) : chan[i] \in Requests \ {r}
        /\ \A i \in 1..Len(chan) : replies[chan[i]] = 0 /\ task'[chan[i]] \in Over
    BY <1>1, <1>2, InFlightOnes DEF OnceInv, OnceQueued, Over
  <2>3. Unanswered'
    BY <1>1, <1>2 DEF OnceInv, Unanswered, Open
  <2>4. OnceQueued'
    <3>1. \A i \in 1..Len(chan') : replies[chan'[i]] = 0 /\ task'[chan'[i]] \in Over
      BY <1>2, <2>1, <2>2 DEF Over
    <3>2. \A i, j \in 1..Len(chan') : chan'[i] = chan'[j] => i = j
      BY <2>1, <2>2 DEF OnceInv, OnceQueued
    <3> QED BY <1>1, <3>1, <3>2 DEF OnceQueued
  <2>5. OnceLeaving'
    <3>1. ASSUME NEW i \in 1..Len(out), out[i].req # None
          PROVE  /\ replies[out[i].req] = 0
                 /\ task'[out[i].req] \in Over \/ start = out[i].req
                 /\ \A j \in 1..Len(chan') : chan'[j] # out[i].req
      <4>1. /\ out[i].req \in Requests /\ replies[out[i].req] = 0
            /\ task[out[i].req] \in Over \/ start = out[i].req
            /\ \A j \in 1..Len(chan) : chan[j] # out[i].req
        BY <3>1, InFlightOnes DEF OnceInv, OnceLeaving
      <4>2. out[i].req # r
        BY <1>1, <4>1, RequestsAssumption DEF Over, OnceInv, OnceLeaving
      <4> QED BY <1>2, <2>1, <4>1, <4>2 DEF Over
    <3> QED BY <1>1, <3>1 DEF OnceInv, OnceLeaving
  <2>6. Framed' /\ FrameBeforeAck'
    BY <1>1 DEF OnceInv, Framed, FrameBeforeAck
  <2> QED BY <2>3, <2>4, <2>5, <2>6 DEF OnceInv
<1> QED BY <1>3, <1>4 DEF Queue

LEMMA OnceNext == SessionInv /\ OnceInv /\ [Next]_vars => OnceInv'
<1> SUFFICES ASSUME SessionInv, OnceInv, [Next]_vars PROVE OnceInv'
  OBVIOUS
<1> USE DEF taskVars, sentVars, clockVars
<1>t. /\ task \in [Requests -> Tasks]
      /\ pc # "sending" => out = <<>> /\ start = None
      /\ pc \in {"off", "stopped"} => chan = <<>>
  BY DEF SessionInv, Shape, Emptied, OnceInv, OnceLeaving
<1>1. CASE Connect
  BY <1>1, <1>t, OnceEmptied DEF Connect, Open
<1>2. ASSUME NEW r \in Requests, Refuse(r) PROVE OnceInv'
  BY <1>2, OnceArrived DEF Refuse
<1>3. ASSUME NEW r \in Requests, AcceptJob(r) PROVE OnceInv'
  <2>1. /\ task' = [task EXCEPT ![r] = "none"] /\ Arrives(r) /\ KindOf[r] = "job"
        /\ Sending(<<Msg(r, "ack")>>, r)
    BY <1>t, <1>3 DEF AcceptJob, Arrives
  <2> QED BY <2>1, OnceArrived
<1>4. ASSUME NEW r \in Requests, AcceptForeground(r) PROVE OnceInv'
  BY <1>4, OnceArrived DEF AcceptForeground
<1>5. CASE HubPing \/ HeartbeatPing
  BY <1>5, OncePinged DEF HubPing, HeartbeatPing
<1>6. CASE HubPong \/ Break \/ Cancel \/ Time
  BY <1>6, OnceAside DEF HubPong, Break, Cancel, Time, Open
<1>7. CASE HeartbeatLost \/ SendFails \/ ReadEnds
  BY <1>7, OnceEmptied DEF HeartbeatLost, SendFails, ReadEnds, EndSession, Open
<1>8. CASE Respond
  BY <1>8, OnceResponded
<1>9. CASE SendOk
  BY <1>9, OnceSent
<1>10. CASE Stop \/ Fatal
  <2>1. /\ task' = Killed /\ out' = <<>> /\ chan' = <<>> /\ start' = None
        /\ sent' = sent /\ replies' = replies
    BY <1>10 DEF Stop, Fatal, Halt
  <2>2. \A r \in Requests : Open(r)' => Open(r)
    BY <1>t, <2>1 DEF Killed, Open
  <2> QED BY <2>1, <2>2, OnceEmptied
<1>11. ASSUME NEW r \in Requests, Reap(r) \/ Dispatched(r) PROVE OnceInv'
  <2>1. \A q \in Requests : /\ Open(q)' => Open(q)
                            /\ task[q] \in Over => task'[q] \in Over
                            /\ task[q] = "none" => task'[q] = "none"
    BY <1>t, <1>11 DEF Reap, Dispatched, Open, Over
  <2> QED BY <1>11, <2>1, OnceAside DEF Reap, Dispatched
<1>12. ASSUME NEW r \in Requests, Queue(r) PROVE OnceInv'
  BY <1>12, OnceEnters
<1>13. CASE UNCHANGED vars
  BY <1>13, OnceAside DEF vars, Open
<1> QED
  BY <1>1, <1>2, <1>3, <1>4, <1>5, <1>6, <1>7, <1>8, <1>9, <1>10, <1>11, <1>12, <1>13
  DEF Next, Loop

(* A request is answered once (lib.rs, handle_request and the response     *)
(* channel): refused, acknowledged as a job, or answered by its task.      *)
THEOREM AnsweredOnceHolds == Spec => []AnsweredOnce
<1>1. OnceInv => AnsweredOnce
  BY DEF OnceInv, Unanswered, AnsweredOnce
<1> QED BY <1>1, SessionInit, SessionNext, OnceInit, OnceNext, PTL DEF Spec

(* The acknowledgement of an exported chunk never precedes its frame on    *)
(* the connection (send_outbound, lib.rs), whatever the loop interleaves.  *)
THEOREM FrameBeforeAckHolds == Spec => []FrameBeforeAck
<1>1. OnceInv => FrameBeforeAck
  BY DEF OnceInv
<1> QED BY <1>1, SessionInit, SessionNext, OnceInit, OnceNext, PTL DEF Spec

(***************************************************************************)
(* A silent hub is dropped, when no send blocks.                           *)
(*                                                                         *)
(* Time passes in "select" only, so a tick comes before the next interval  *)
(* is over; until a Ping is out, no more than one interval has passed.     *)
(***************************************************************************)
On == pc \in {"select", "sending"}
Pinging == pc = "sending" /\ out = <<Msg(None, "ping")>>

ClockInv ==
  /\ tick \in Nat /\ quiet \in Nat /\ silence \in Nat
  /\ On => silence = quiet /\ tick <= Interval /\ quiet + tick < Timeout + Interval
  /\ On /\ ~asked /\ ~Pinging => quiet + tick <= Interval

LEMMA ClockInit == Init => ClockInv
  BY HeartbeatAssumption DEF Init, ClockInv, On, Pinging

LEMMA ClockNext ==
  ASSUME ~CanBlock, SessionInv, ClockInv, [Next]_vars
  PROVE  ClockInv'
<1> USE HeartbeatAssumption DEF taskVars, sentVars, clockVars
<1>s. pc = "select" => out = <<>>
  BY DEF SessionInv, Emptied
<1>1. CASE Connect
  BY <1>1 DEF Connect, ClockInv, On
<1>2. CASE \E r \in Requests : Refuse(r) \/ AcceptJob(r) \/ AcceptForeground(r)
  BY <1>2, <1>s DEF Refuse, AcceptJob, AcceptForeground, Arrives, Sending, ClockInv, On, Pinging
<1>3. CASE HubPing \/ Respond
  BY <1>3, <1>s DEF HubPing, Respond, Sending, ClockInv, On, Pinging
<1>4. CASE HubPong
  BY <1>4, <1>s DEF HubPong, ClockInv, On, Pinging
<1>5. CASE HeartbeatPing
  BY <1>5, <1>s DEF HeartbeatPing, Overdue, Sending, ClockInv, On, Pinging
<1>6. CASE HeartbeatLost \/ SendFails \/ ReadEnds
  BY <1>6 DEF HeartbeatLost, SendFails, ReadEnds, EndSession, ClockInv, On
<1>7. CASE SendOk
  <2>1. Pinging => Head(out).req = None /\ Head(out).part = "ping"
    BY DEF Pinging, Msg
  <2> QED BY <1>7, <2>1 DEF SendOk, ClockInv, On, Pinging
<1>8. CASE Stop \/ Fatal
  BY <1>8 DEF Stop, Fatal, Halt, ClockInv, On
<1>9. CASE \E r \in Requests : Reap(r) \/ Dispatched(r) \/ Queue(r)
  BY <1>9 DEF Reap, Dispatched, Queue, ClockInv, On, Pinging
<1>10. CASE Break \/ Cancel
  BY <1>10 DEF Break, Cancel, ClockInv, On, Pinging
<1>11. CASE Time
  BY <1>11, <1>s DEF Time, ClockInv, On, Pinging
<1>12. CASE UNCHANGED vars
  BY <1>12 DEF vars, ClockInv, On, Pinging
<1> QED
  BY <1>1, <1>2, <1>3, <1>4, <1>5, <1>6, <1>7, <1>8, <1>9, <1>10, <1>11, <1>12
  DEF Next, Loop

(* A hub that stays silent is dropped in time (the heartbeat branch of     *)
(* session_loop, lib.rs), as long as no ws.send waits for it: a send that  *)
(* blocks stops the clock, as the run that allows it shows.                *)
THEOREM SilentHubDroppedHolds == ~CanBlock => (Spec => []SilentHubDropped)
<1> SUFFICES ASSUME ~CanBlock PROVE Spec => []SilentHubDropped
  OBVIOUS
<1>1. ClockInv => SilentHubDropped
  BY HeartbeatAssumption DEF ClockInv, On, SilentHubDropped
<1>2. SessionInv /\ ClockInv /\ [Next]_vars => ClockInv'
  BY ClockNext
<1> QED
  BY <1>1, <1>2, SessionInit, SessionNext, ClockInit, PTL DEF Spec

(* No session is dropped for silence before a Ping was sent into it (same  *)
(* branch): the timeout is longer than the interval between two Pings.     *)
THEOREM NeverDroppedUnaskedHolds == ~CanBlock => (Spec => NeverDroppedUnasked)
<1> SUFFICES ASSUME ~CanBlock PROVE Spec => NeverDroppedUnasked
  OBVIOUS
<1>1. ClockInv => (DroppedForSilence => asked)
  BY HeartbeatAssumption
  DEF ClockInv, On, Pinging, DroppedForSilence, Overdue
<1>2. SessionInv /\ ClockInv /\ [Next]_vars => ClockInv'
  BY ClockNext
<1> QED
  BY <1>1, <1>2, SessionInit, SessionNext, ClockInit, PTL
  DEF Spec, NeverDroppedUnasked
=============================================================================
