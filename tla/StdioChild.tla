------------------------------ MODULE StdioChild ------------------------------
(***************************************************************************)
(* call_stdio_jsonrpc of local_api.rs, as far as the process goes: a child *)
(* is started for one conversation, given a moment to leave when its input *)
(* ends, and its group is killed in every case. The conversation itself is *)
(* in LocalApi.                                                            *)
(***************************************************************************)
EXTENDS ProcessRunner

TalkSpawn ==
    /\ run.pc = "spawn" /\ run.job.use = "stdio"
    /\ run' = [run EXCEPT !.pc = "talk", !.armed = TRUE, !.feeding = "done"]
    /\ proc' = [proc EXCEPT ![Root] =
                  [st |-> "live", start |-> 1, parent |-> "agent", group |-> TRUE,
                   priv |-> run.job.priv, in |-> TRUE, out |-> TRUE, old |-> FALSE]]
    /\ UNCHANGED <<pipe, written>>

(* An answer, an error or the deadline; the input is closed.               *)
TalkEnds ==
    /\ run.pc = "talk"
    /\ \E answer \in {"completed", "error", "timed_out"} :
          run' = [run EXCEPT !.pc = "stop", !.answer = answer]
    /\ UNCHANGED tree

(* stop_stdio_child: the exit, or STDIO_EXIT_GRACE.                        *)
Stopped ==
    /\ run.pc = "stop"
    /\ run' = [run EXCEPT !.pc = "kill", !.why = "stdio"]
    /\ UNCHANGED tree

(* child.kill, and STDIO_KILL_GRACE. Only an error takes the failure of    *)
(* the cleanup along.                                                      *)
Buried ==
    /\ run.pc = "bury"
    /\ run' = [run EXCEPT !.pc = "finish", !.error = run.error /\ run.answer # "completed"]
    /\ DropChild
    /\ UNCHANGED <<pipe, written>>

TalkStep == TalkSpawn \/ TalkEnds \/ Stopped \/ Buried
=============================================================================
