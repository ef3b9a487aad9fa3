------------------------------- MODULE LocalApi -------------------------------
(***************************************************************************)
(* local_api.rs: call an action of a service of the host. An endpoint of   *)
(* the configuration is a socket, with HTTP or JSON-RPC on it, or a        *)
(* program that speaks JSON-RPC on its pipes. Before each call the service *)
(* may have to show that its version is acceptable, on a connection of its *)
(* own. The service may be replaced by another version at any time.        *)
(***************************************************************************)
EXTENDS Naturals, Sequences

CONSTANTS MaxCalls,     \* bound on the calls
          MaxSays,      \* bound on the messages of a connection
          MaxUpgrades,  \* bound on the changes of version
          MaxSkipped,   \* MAX_SKIPPED_MESSAGES
          MaxRead       \* MAX_RESPONSE_BYTES, in messages

ASSUME ApiAssumption == {MaxCalls, MaxSays, MaxUpgrades, MaxSkipped, MaxRead} \subseteq Nat

VARIABLE api

(* form: whether its actions and its probe name an HTTP request or a       *)
(* JSON-RPC method.                                                        *)
Endpoint == [transport : {"unix", "stdio", "tcp"}, protocol : {"http", "jsonrpc"},
             form : {"request", "method"}, handshake : {"none", "mcp", "other"},
             run_as : BOOLEAN, env : BOOLEAN, constraint : {"none", "whole", "half"}]

(* endpoint_from_raw and the functions that it calls.                      *)
KnownBasics(e) ==
    e.transport \in {"unix", "stdio"} /\ (e.transport = "stdio" => e.protocol = "jsonrpc")
KnownOptions(e) == e.handshake \in {"none", "mcp"}
WellFormed(e) == e.form = IF e.protocol = "http" THEN "request" ELSE "method"
ValidCompatibility(e) == e.constraint # "half"
Accepted(e) ==
    /\ KnownBasics(e) /\ KnownOptions(e) /\ WellFormed(e) /\ ValidCompatibility(e)
    /\ ~(e.transport = "stdio" /\ e.run_as /\ e.env)

Versions == {"good", "bad"}
ApiIdle(e) ==
    [on |-> FALSE, e |-> e, calls |-> 0, pc |-> "idle", round |-> "action", ver |-> "good",
     upgrades |-> 0, seen |-> {}, conn |-> "none", open |-> FALSE, says |-> 0,
     inbox |-> <<>>, sent |-> {}, skipped |-> 0, read |-> 0, taken |-> <<>>, result |-> "none"]

Idle == api.on /\ api.pc \in {"idle", "done"} /\ api.calls < MaxCalls
End(result) == [api EXCEPT !.pc = "done", !.result = result, !.conn = "none",
                           !.inbox = <<>>]

(* An error of a probe is taken as such only if it says that the endpoint  *)
(* was not reached.                                                        *)
NotReached == {"endpoint_unreachable", "timeout", "run_as_not_permitted"}
Fail(why) == End(IF api.round = "probe" /\ why \notin NotReached
                 THEN "compatibility_unknown" ELSE why)

(* handle: one endpoint that is not well described refuses every call.     *)
InvalidConfig ==
    /\ Idle /\ ~Accepted(api.e)
    /\ api' = [End("invalid_config") EXCEPT !.calls = @ + 1]

(* list and describe do not ask the service.                               *)
Describe ==
    /\ Idle /\ Accepted(api.e)
    /\ api' = [End("described") EXCEPT !.calls = @ + 1]

(* call_endpoint, call_action. ensure_compatible probes on every call: a   *)
(* verdict is never kept.                                                  *)
Checked == api.e.constraint = "whole"
ProbedOnce == Checked /\ api.calls = 0   \* defect: the first verdict is kept
MustProbe == Checked

Call ==
    /\ Idle /\ Accepted(api.e)
    /\ api' = [api EXCEPT !.calls = @ + 1, !.result = "none", !.taken = <<>>, !.seen = {api.ver},
                          !.round = IF MustProbe THEN "probe" ELSE "action", !.pc = "dial"]

UnknownAction ==
    /\ Idle /\ Accepted(api.e)
    /\ api' = [End("action_not_allowed") EXCEPT !.calls = @ + 1]

Stdio == api.e.transport = "stdio"
Http == api.e.protocol = "http"
Relayed == ~Stdio /\ ~Http /\ api.e.run_as

(* call_http: the method, the path and what render puts into it.           *)
MissingParam ==
    /\ api.pc = "dial" /\ Http
    /\ \E why \in {"bad_action", "missing_param"} : api' = Fail(why)

(* A program is not started when somebody else could replace it.           *)
UnsafeBinary ==
    /\ api.pc = "dial" /\ Stdio
    /\ api' = Fail("unsafe_binary")

(* The relay runs under another user and tells by its exit code, 2, 3 or   *)
(* 4, what became of the call; sudo may refuse to start it.                *)
RelayExits == {"endpoint_unreachable", "bad_response"}

RelayFails ==
    /\ Relayed /\ (api.pc = "dial" \/ (api.conn # "none" /\ api.pc # "judge"))
    /\ \E why \in RelayExits \cup {"run_as_not_permitted"} : api' = Fail(why)

(* connect, spawn, or the relay.                                           *)
Unreachable ==
    /\ api.pc = "dial"
    /\ \E why \in {"endpoint_unreachable", "timeout"} : api' = Fail(why)

Dial ==
    /\ api.pc = "dial"
    /\ api' = [api EXCEPT !.pc = IF Stdio /\ api.e.handshake = "mcp" THEN "init" ELSE "request",
                          !.conn = api.ver, !.open = TRUE, !.says = 0, !.sent = {},
                          !.skipped = 0, !.read = 0]

(* stdio_send, or the write to the socket: it may fit a buffer that nobody *)
(* reads any more.                                                         *)
Send ==
    /\ api.pc \in {"init", "request"}
    /\ api' = [api EXCEPT !.sent = @ \cup {api.pc}, !.skipped = 0,
                          !.pc = IF api.pc = "init" THEN "await_init" ELSE "await"]

SendFails ==
    /\ api.pc \in {"init", "request"} /\ ~api.open
    /\ api' = Fail(IF Stdio \/ Http THEN "bad_response" ELSE "endpoint_unreachable")

(* The service answers, notifies, asks for something itself or writes      *)
(* anything else; it can answer only what it has received.                 *)
Says(m) ==
    /\ api.conn # "none" /\ api.open /\ api.says < MaxSays /\ api.inbox = <<>>
    /\ m.kind \in {"result", "error"} => m.id \in api.sent \cup {"other"}
    /\ api' = [api EXCEPT !.inbox = <<m>>, !.says = @ + 1]

Closes ==
    /\ api.conn # "none" /\ api.open
    /\ api' = [api EXCEPT !.open = FALSE]

Messages == [kind : {"result", "error", "ask"}, id : {"init", "request", "other"}]
            \cup [kind : {"note", "junk", "blank"}, id : {"other"}]

(* stdio_receive                                                           *)
Wanted == IF api.pc = "await_init" THEN "init" ELSE "request"
IsReply(m) == m.kind \in {"result", "error"} /\ m.id = Wanted
Waiting == api.pc \in {"await_init", "await"}

Patient == api.skipped <= MaxSkipped /\ api.read < MaxRead

HearNoMore ==
    /\ Waiting /\ Stdio /\ ~Patient
    /\ api' = Fail(IF api.skipped > MaxSkipped THEN "bad_response" ELSE "too_large")

Hear ==
    /\ Waiting /\ Stdio /\ Patient /\ api.inbox # <<>>
    /\ LET m == Head(api.inbox)
           next == [api EXCEPT !.inbox = <<>>, !.read = @ + 1]
       IN api' = CASE m.kind = "junk" -> Fail("bad_response")
                   [] IsReply(m) /\ m.kind = "error" -> Fail("endpoint_error")
                   [] IsReply(m) /\ m.kind = "result" ->
                        IF api.pc = "await_init" THEN [next EXCEPT !.pc = "request"]
                        ELSE [next EXCEPT !.pc = "judge", !.taken = <<m>>]
                   [] m.kind = "ask" /\ ~api.open -> Fail("bad_response")
                   [] OTHER -> [next EXCEPT !.skipped = @ + 1]

(* A socket gives one line, whatever its id.                               *)
HearLine ==
    /\ Waiting /\ ~Stdio /\ ~Http /\ api.inbox # <<>>
    /\ LET m == Head(api.inbox)
       IN api' = CASE m.kind \in {"junk", "blank"} -> Fail("bad_response")
                   [] m.kind = "error" -> Fail("endpoint_error")
                   [] OTHER -> [api EXCEPT !.inbox = <<>>, !.pc = "judge", !.taken = <<m>>]

(* decode_http_response: nothing is an answer too.                         *)
HearHttp ==
    /\ Waiting /\ Http /\ api.inbox # <<>>
    /\ LET m == Head(api.inbox)
       IN api' = CASE m.kind = "junk" -> Fail("bad_response")
                   [] m.kind = "error" -> Fail("endpoint_error")
                   [] OTHER -> [api EXCEPT !.inbox = <<>>, !.pc = "judge", !.taken = <<m>>]

HearEnd ==
    /\ Waiting /\ api.inbox = <<>> /\ ~api.open
    /\ api' = Fail("bad_response")

HearTooMuch ==
    /\ Waiting /\ api.inbox # <<>>
    /\ api' = Fail("too_large")

LateAnswer ==
    /\ api.conn # "none" /\ api.pc # "judge"
    /\ api' = Fail("timeout")

(* The result of a probe decides; the one of an action is projected.       *)
Judge ==
    /\ api.pc = "judge"
    /\ api' = IF api.round = "action" THEN End("ok")
              ELSE IF Head(api.taken).kind # "result" THEN End("compatibility_unknown")
              ELSE IF api.conn = "bad" THEN End("compatibility_mismatch")
              ELSE [api EXCEPT !.round = "action", !.pc = "dial", !.conn = "none",
                               !.taken = <<>>]

ProbeUnreadable ==
    /\ api.pc = "judge" /\ api.round = "probe"
    /\ api' = End("compatibility_unknown")

Upgrade ==
    /\ api.on /\ api.upgrades < MaxUpgrades
    /\ \E v \in Versions \ {api.ver} :
          api' = [api EXCEPT !.ver = v, !.upgrades = @ + 1, !.seen = @ \cup {v}]

ApiStep ==
    \/ InvalidConfig \/ Describe \/ Call \/ UnknownAction
    \/ MissingParam \/ UnsafeBinary \/ RelayFails \/ Unreachable \/ Dial
    \/ Send \/ SendFails \/ Closes \/ \E m \in Messages : Says(m)
    \/ HearNoMore \/ Hear \/ HearLine \/ HearHttp \/ HearEnd \/ HearTooMuch \/ LateAnswer
    \/ Judge \/ ProbeUnreadable \/ Upgrade

ApiInit(E) == \E e \in E : api = [ApiIdle(e) EXCEPT !.on = TRUE]
ApiSpec == ApiInit(Endpoint) /\ [][ApiStep]_api

-----------------------------------------------------------------------------
(* An answer of an endpoint with a constraint means that an acceptable     *)
(* version ran at some time since this very call began. "Re-probing        *)
(* prevents a restarted/upgraded service from inheriting a stale           *)
(* compatibility decision indefinitely" (local_api.rs:1469).               *)
ProbedThisCall == api.result = "ok" /\ Checked => "good" \in api.seen
=============================================================================
