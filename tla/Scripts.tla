------------------------------- MODULE Scripts -------------------------------
(***************************************************************************)
(* script.rs and shell.rs: what surrounds the run of a command. A script   *)
(* is staged in a work directory that is removed afterwards, or kept and   *)
(* named in the answer. A command of shell.rs has none.                    *)
(***************************************************************************)
EXTENDS ProcessRunner

ShellStarts ==
    /\ run.pc = "stage" /\ run.job.use # "script"
    /\ run' = [run EXCEPT !.pc = "spawn"]
    /\ UNCHANGED tree

(* prepare_script                                                          *)
Stage ==
    /\ run.pc = "stage" /\ run.job.use = "script"
    /\ run' = [run EXCEPT !.pc = "spawn", !.workdir = "there"]
    /\ UNCHANGED tree

StageFails ==
    /\ run.pc = "stage" /\ run.job.use = "script"
    /\ \E made \in {"none", "there"} :
          run' = [run EXCEPT !.pc = "finish", !.answer = "refused", !.workdir = made]
    /\ UNCHANGED tree

ShellEnds ==
    /\ run.pc = "finish" /\ run.workdir = "none"
    /\ run' = [run EXCEPT !.pc = "done"]
    /\ UNCHANGED tree

(* finish_error and finalize. told: the answer has the path, or the error. *)
CleanUp ==
    /\ run.pc = "finish" /\ run.workdir = "there" /\ run.job.cleanup
    /\ \/ run' = [run EXCEPT !.pc = "done", !.workdir = "removed"]
       \/ run' = [run EXCEPT !.pc = "done", !.told = TRUE]
    /\ UNCHANGED tree

Keep ==
    /\ run.pc = "finish" /\ run.workdir = "there" /\ ~run.job.cleanup
    /\ run' = [run EXCEPT !.pc = "done", !.workdir = "kept", !.told = TRUE]
    /\ UNCHANGED tree

(* A panic or a cancellation drops the TempDir, whatever cleanup says.     *)
Unwind ==
    /\ run.pc = "unwind"
    /\ \E left \in {run.workdir, IF run.workdir = "there" THEN "removed" ELSE "none"} :
          run' = [run EXCEPT !.pc = IF run.answer = "panicked" THEN "done" ELSE "dropped",
                             !.armed = FALSE, !.workdir = left]
    /\ DropChild
    /\ UNCHANGED <<pipe, written>>

ScriptStep ==
    \/ ShellStarts \/ Stage \/ StageFails \/ ShellEnds \/ CleanUp \/ Keep \/ Unwind
=============================================================================
