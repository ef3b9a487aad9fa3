---------------------------- MODULE ProcessRunner ----------------------------
(***************************************************************************)
(* process_runner.rs and process_output.rs: run a command in a process     *)
(* group of its own, feed its input, read its output to the end, and when  *)
(* the deadline passes, a read fails or the request is cancelled, kill the *)
(* group and what has left it. Standard output and error are one pipe.     *)
(***************************************************************************)
EXTENDS ProcessTree

VARIABLE run    \* the request and the state of run_argv_with_limits

(* killer: Direct or Sudo. priv: the child is sudo. input: none, what fits *)
(* the pipe, or more. use: a script has a work directory, and a "stdio"    *)
(* endpoint of local_api.rs talks to the agent through its pipes. quiet:   *)
(* it has no output.                                                       *)
Jobs == [killer : {"direct", "sudo"}, priv : BOOLEAN, input : {"none", "small", "large"},
         use : {"shell", "script", "stdio"}, cleanup : BOOLEAN, quiet : BOOLEAN]
(* A kill looks for descendants: queue is whose children it has yet to     *)
(* list, found the ids it has listed and not yet read the start time of,   *)
(* seen all that it met, and snap the identities it has. rest is what it   *)
(* has yet to signal, and aim what it has checked and signals next.        *)
Pcs == {"stage", "spawn", "wait", "kill", "look", "sudo_group", "kill_group", "filter",
        "sudo_rest", "rest", "killed", "feed", "drain", "reap", "finish", "unwind", "done",
        "dropped", "talk", "stop", "bury"}
Identities == Procs \X Nat
Runs == [job : Jobs, pc : Pcs,
         why : {"none", "completed", "timeout", "capture", "cancelled", "stdio"},
         armed : BOOLEAN, reader : {"none", "open", "eof", "failed", "aborted"},
         taken : BOOLEAN, feeding : {"none", "writing", "done", "broken"},
         queue : SUBSET Procs, found : SUBSET Procs, seen : SUBSET Procs,
         snap : SUBSET Identities, rest : SUBSET Identities, aim : SUBSET Procs,
         captured : 0..MaxWrites,
         answer : {"none", "refused", "completed", "timed_out", "error", "panicked"},
         left : BOOLEAN, error : BOOLEAN, workdir : {"none", "there", "removed", "kept"},
         told : BOOLEAN]
NewRun(job) ==
    [job |-> job, pc |-> "stage", why |-> "none", armed |-> FALSE, reader |-> "none",
     taken |-> FALSE, feeding |-> "none", queue |-> {}, found |-> {}, seen |-> {}, snap |-> {},
     rest |-> {}, aim |-> {}, captured |-> 0, answer |-> "none", left |-> FALSE,
     error |-> FALSE, workdir |-> "none", told |-> FALSE]

(* configure_command and spawn.                                            *)
Spawn ==
    /\ run.pc = "spawn" /\ run.job.use # "stdio"
    /\ run' = [run EXCEPT !.pc = "wait", !.armed = TRUE, !.reader = "open",
                          !.feeding = IF run.job.input = "none" THEN "done" ELSE "writing"]
    /\ proc' = [proc EXCEPT ![Root] =
                  [st |-> "live", start |-> 1, parent |-> "agent", group |-> TRUE,
                   priv |-> run.job.priv, in |-> run.job.input # "none", out |-> TRUE,
                   old |-> FALSE]]
    /\ UNCHANGED <<pipe, written>>

SpawnFails ==
    /\ run.pc = "spawn"
    /\ run' = [run EXCEPT !.pc = "finish", !.answer = "refused"]
    /\ UNCHANGED tree

(* The reader task.                                                        *)
Read ==
    /\ run.reader = "open" /\ pipe > 0
    /\ pipe' = pipe - 1
    /\ run' = [run EXCEPT !.captured = run.captured + 1]
    /\ UNCHANGED <<proc, written>>

ReaderEnds ==
    /\ run.reader = "open" /\ pipe = 0 /\ Holders("out") = {}
    /\ run' = [run EXCEPT !.reader = "eof"]
    /\ UNCHANGED tree

ReadFails ==
    /\ run.reader = "open"
    /\ run' = [run EXCEPT !.reader = "failed"]
    /\ UNCHANGED tree

(* The detached task that writes the input; it outlives the request.       *)
Feed ==
    /\ run.feeding = "writing"
    /\ \/ run.job.input = "small" /\ Holders("in") # {} /\ run' = [run EXCEPT !.feeding = "done"]
       \/ Holders("in") = {} /\ run' = [run EXCEPT !.feeding = "broken"]
    /\ UNCHANGED tree

Consume(p) ==
    /\ run.feeding = "writing" /\ p \in Holders("in")
    /\ run' = [run EXCEPT !.feeding = "done"]
    /\ UNCHANGED tree

(* child.wait                                                              *)
Reap ==
    /\ proc[Root].st = "zombie"
    /\ run.pc \in {"wait", "drain", "reap", "stop", "bury"}
    /\ proc' = [proc EXCEPT ![Root].st = "gone", ![Root].parent = "init"]
    /\ UNCHANGED <<pipe, written, run>>

Reaped == proc[Root].st \in {"gone", "stranger", "newcomer"}

(* wait_until_drained: the exit status and the end of both readers.        *)
ExitIsEnough == Reaped   \* defect: the readers are not waited for
Drained == Reaped /\ run.reader # "open"

Complete ==
    /\ run.pc = "wait" /\ Drained
    /\ IF run.reader # "failed"
       THEN run' = [run EXCEPT !.pc = "feed", !.why = "completed", !.armed = FALSE]
       ELSE run' = [run EXCEPT !.pc = "kill", !.why = "capture"]
    /\ UNCHANGED tree

(* tokio's timeout prefers the result. The join is dropped: the handle of  *)
(* a reader that has ended is used up.                                     *)
Deadline ==
    /\ run.pc = "wait" /\ ~Drained
    /\ run' = [run EXCEPT !.pc = "kill", !.why = "timeout", !.taken = run.reader # "open"]
    /\ UNCHANGED tree

(***************************************************************************)
(* ProcessGroupKill::kill and kill_blocking: look for the descendants,     *)
(* kill the group, and then each descendant that is still the process it   *)
(* was. The processes go on meanwhile.                                     *)
(***************************************************************************)
StartLook ==
    /\ run.pc = "kill"
    /\ run' = [run EXCEPT !.pc = "look", !.queue = {Root}, !.seen = {Root}, !.found = {},
                          !.snap = {}, !.rest = {}, !.aim = {}]
    /\ proc' = [p \in Procs |-> [proc[p] EXCEPT !.old = p \in Live]]
    /\ UNCHANGED <<pipe, written>>

(* child_pids of /proc/<p>/task/*/children, whoever has the id by now. The *)
(* order of the queue is left open.                                        *)
Exists(p) == p \in Live \cup Foreign
ListedOfRoot(p) ==   \* defect: children of children are not looked for
    IF p = Root THEN {q \in Live \cup Foreign : proc[q].parent = p} ELSE {}
Listed(p) == {q \in Live \cup Foreign : proc[q].parent = p}

ListChildren(p) ==
    /\ run.pc = "look" /\ run.found = {} /\ p \in run.queue
    /\ run' = [run EXCEPT !.queue = @ \ {p}, !.found = Listed(p) \ run.seen]
    /\ UNCHANGED tree

(* process_identity reads the start time of whoever has the id by now.     *)
Identify(p) ==
    /\ run.pc = "look" /\ p \in run.found
    /\ LET met == [run EXCEPT !.found = @ \ {p}, !.seen = @ \cup {p}]
       IN run' = IF Exists(p) THEN [met EXCEPT !.snap = @ \cup {Id(p)}, !.queue = @ \cup {p}]
                 ELSE met
    /\ UNCHANGED tree

LookEnds ==
    /\ run.pc = "look" /\ run.found = {} /\ run.queue = {}
    /\ run' = [run EXCEPT !.pc = IF run.job.killer = "sudo" THEN "sudo_group" ELSE "kill_group"]
    /\ UNCHANGED tree

(* kill(2) fails with EPERM if the process belongs to another user, and    *)
(* killpg only if it may signal no member.                                 *)
Signalled(S) == {p \in S : ~proc[p].priv}
NotPermitted(S) == S # {} /\ Signalled(S) = {}

(* sudo_kill of the group: the helper may fail to start, or run late.      *)
SudoKillGroup ==
    /\ run.pc = "sudo_group"
    /\ \/ /\ Group # {} /\ Die(Group)
          /\ run' = [run EXCEPT !.pc = "filter"]
       \/ /\ \E hit \in {{}, Group} : Die(hit)
          /\ run' = [run EXCEPT !.pc = "kill_group"]
    /\ UNCHANGED <<pipe, written>>

KillGroup ==
    /\ run.pc = "kill_group"
    /\ Die(Signalled(Group))
    /\ run' = IF run.job.killer = "sudo"
              THEN [run EXCEPT !.pc = "filter", !.error = @ \/ NotPermitted(Group)]
              ELSE [run EXCEPT !.pc = "rest", !.rest = run.snap,
                               !.error = @ \/ NotPermitted(Group)]
    /\ UNCHANGED <<pipe, written>>

(* identity_is_current: the start time tells a process from one that took  *)
(* its id over.                                                            *)
IsSameId(id) == Exists(id[1])   \* defect: the id is enough
IsCurrent(id) == Exists(id[1]) /\ Id(id[1]) = id

(* One sudo for all that are current.                                      *)
Filter ==
    /\ run.pc = "filter"
    /\ LET current == {id \in run.snap : IsCurrent(id)}
       IN run' = IF current = {} THEN [run EXCEPT !.pc = "killed"]
                 ELSE [run EXCEPT !.pc = "sudo_rest", !.aim = {id[1] : id \in current}]
    /\ UNCHANGED tree

(* It succeeds if it could signal all of them. Otherwise the agent tries   *)
(* itself, with all that it knew of.                                       *)
SudoKillRest ==
    /\ run.pc = "sudo_rest"
    /\ \/ /\ \A p \in run.aim : Exists(p)
          /\ Die(run.aim)
          /\ run' = [run EXCEPT !.pc = "killed", !.aim = {}]
       \/ /\ \E hit \in {{}, {p \in run.aim : Exists(p)}} : Die(hit)
          /\ run' = [run EXCEPT !.pc = "rest", !.rest = run.snap, !.aim = {}]
    /\ UNCHANGED <<pipe, written>>

(* direct_kill_descendants: one by one, each checked before it is killed.  *)
CheckOne(id) ==
    /\ run.pc = "rest" /\ run.aim = {} /\ id \in run.rest
    /\ run' = [run EXCEPT !.rest = @ \ {id}, !.aim = IF IsCurrent(id) THEN {id[1]} ELSE {}]
    /\ UNCHANGED tree

KillOne(p) ==
    /\ run.pc = "rest" /\ p \in run.aim
    /\ Die(Signalled({q \in {p} : Exists(q)}))
    /\ run' = [run EXCEPT !.aim = {}, !.error = @ \/ (Exists(p) /\ proc[p].priv)]
    /\ UNCHANGED <<pipe, written>>

RestEnds ==
    /\ run.pc = "rest" /\ run.aim = {} /\ run.rest = {}
    /\ run' = [run EXCEPT !.pc = "killed"]
    /\ UNCHANGED tree

AfterKill == CASE run.why = "cancelled" -> "unwind"
               [] run.why = "stdio" -> "bury"
               [] OTHER -> "feed"

Killed ==
    /\ run.pc = "killed"
    /\ run' = [run EXCEPT !.pc = AfterKill, !.armed = FALSE, !.snap = {}, !.seen = {}]
    /\ UNCHANGED tree

(***************************************************************************)
(* After the kill, and after a command that has ended.                     *)
(***************************************************************************)
(* finish_stdin_write has no deadline.                                     *)
AwaitFeed ==
    /\ run.pc = "feed" /\ run.feeding # "writing"
    /\ CASE run.why = "completed" ->
              run' = [run EXCEPT !.pc = "finish",
                                 !.answer = IF run.feeding = "broken" THEN "error" ELSE "completed"]
         [] run.why = "timeout" -> run' = [run EXCEPT !.pc = "drain"]
         [] run.why = "capture" -> run' = [run EXCEPT !.pc = "reap"]
    /\ UNCHANGED tree

(* finish_after_kill joins the same handles again, for what is left of     *)
(* five seconds, and awaits them once more when it aborts them. Tokio      *)
(* panics when a handle that has given its result is polled.               *)
Panic == run' = [run EXCEPT !.pc = "unwind", !.answer = "panicked",
                            !.reader = IF @ = "open" THEN "aborted" ELSE @]

(* kill_on_drop                                                            *)
DropChild == Die(Signalled({p \in {Root} : p \in Live}))

DrainPolledTwice ==
    /\ run.pc = "drain" /\ run.taken
    /\ Panic
    /\ UNCHANGED tree

DrainEnds ==
    /\ run.pc = "drain" /\ ~run.taken /\ Drained
    /\ IF run.reader = "failed" THEN Panic
       ELSE run' = [run EXCEPT !.pc = "finish", !.answer = "timed_out"]
    /\ UNCHANGED tree

GraceForever == FALSE   \* defect: the drain waits as long as it takes
Grace == run.pc = "drain"

DrainGivesUp ==
    /\ Grace /\ ~run.taken /\ ~Drained
    /\ IF run.reader # "open" THEN Panic /\ UNCHANGED proc
       ELSE /\ run' = [run EXCEPT !.pc = "finish", !.answer = "timed_out", !.left = TRUE,
                                  !.reader = "aborted"]
            /\ DropChild
    /\ UNCHANGED <<pipe, written>>

(* After a failed read the child is given five seconds to be reaped.       *)
ReapEnds ==
    /\ run.pc = "reap"
    /\ \/ Reaped /\ run' = [run EXCEPT !.pc = "finish", !.answer = "error"]
       \/ run' = [run EXCEPT !.pc = "finish", !.answer = "error", !.error = TRUE]
    /\ DropChild
    /\ UNCHANGED <<pipe, written>>

(* Cancellation drops the future: the readers are aborted, and the guard   *)
(* kills if it is still armed; it starts again if a kill was under way.    *)
Guarded == IF run.armed THEN "kill" ELSE "unwind"

Cancel ==
    /\ run.pc \in {"wait", "feed", "drain", "reap", "talk", "stop", "bury",
                      "sudo_group", "sudo_rest"}
    /\ run.why # "cancelled"
    /\ run' = [run EXCEPT !.pc = Guarded, !.why = "cancelled", !.reader = "aborted"]
    /\ UNCHANGED tree

Look == StartLook \/ LookEnds \/ \E p \in Procs : ListChildren(p) \/ Identify(p)
KillRest ==
    \/ Filter \/ SudoKillRest \/ RestEnds
    \/ (\E id \in run.rest : CheckOne(id)) \/ (\E p \in run.aim : KillOne(p))

Run ==
    \/ Spawn \/ SpawnFails \/ Read \/ ReaderEnds \/ ReadFails \/ Feed \/ Reap
    \/ Complete \/ Deadline \/ Look \/ SudoKillGroup \/ KillGroup \/ KillRest \/ Killed
    \/ AwaitFeed \/ DrainPolledTwice \/ DrainEnds \/ DrainGivesUp \/ ReapEnds
=============================================================================
