----------------------------- MODULE HostCommands -----------------------------
(***************************************************************************)
(* What the agent does on behalf of one request besides its work on files: *)
(* it runs a command, a script or a program that it talks to, calls a      *)
(* service of the host, records the operation, reads a file or an output,  *)
(* and computes the text of an edit. These parts share no state, so the    *)
(* specification is their sum: each behaviour is one of one part, and the  *)
(* others stand still.                                                     *)
(***************************************************************************)
EXTENDS Scripts, StdioChild, AuditLog, LocalApi, ReadWindow, TextEdits

CONSTANTS Parts,      \* the parts that the checked instance has
          Kinds,      \* the commands that it runs
          Few,        \* the ids of the commands that have output, which are fewer
          Endpoints,  \* the endpoints that it calls
          Windows,    \* the ranges and caps of its reads: <<start, end, cap>>
          Limits,     \* the limits of its outputs
          Requests    \* its edits: <<mode, original, old, end, new, count, escape>>

ASSUME PartsAssumption == Parts \subseteq {"run", "audit", "api", "scan", "edit"}
ASSUME KindsAssumption == Kinds \subseteq Jobs
ASSUME FewAssumption == Few \subseteq Procs
ASSUME EndpointsAssumption == Endpoints \subseteq Endpoint
ASSUME WindowsAssumption == Windows \subseteq Nat \X Nat \X Nat
ASSUME LimitsAssumption == Limits \subseteq Nat
ASSUME RequestsAssumption ==   \* the characters of an edit are strings
    \A r \in Requests : {r[2], r[3], r[4], r[5]} \subseteq Seq(STRING) /\ r[6] \in Nat

VARIABLE part   \* whose behaviour this is

vars == <<proc, pipe, written, run, audit, api, scan, edit, part>>

Still == [NewRun(CHOOSE job \in Kinds : TRUE) EXCEPT !.pc = "done"]
NoCall == ApiIdle(CHOOSE e \in Endpoints : TRUE)

RunStarts == part = "run" /\ \E job \in Kinds : run = NewRun(job)
AuditStarts == part = "audit" /\ AuditInit
ApiStarts == part = "api" /\ ApiInit(Endpoints)
ScanStarts ==
    /\ part = "scan"
    /\ \/ \E text \in UNION {BoundedSeq(units, MaxText) : units \in Alphabets}, w \in Windows :
             scan = Reads(text, w[1], w[2], w[3])
       \/ \E limit \in Limits : scan = Capture(limit)
EditStarts ==
    /\ part = "edit"
    /\ \E r \in Requests : edit = Asks(r[1], r[2], r[3], r[4], r[5], r[6], r[7])

Init ==
    /\ TreeInit /\ part \in Parts
    /\ RunStarts \/ AuditStarts \/ ApiStarts \/ ScanStarts \/ EditStarts
    /\ part # "run" => run = Still
    /\ part # "audit" => audit = AuditIdle
    /\ part # "api" => api = NoCall
    /\ part # "scan" => scan = ScanIdle
    /\ part # "edit" => edit = EditIdle

Over == run.pc \in {"done", "dropped"}

(* The processes of a command are watched until its request is over. An id *)
(* is given out again if the agent looks at it, or to a child of a         *)
(* stranger; and an output that nobody writes to is not redirected.        *)
Watched == {Root} \cup run.found \cup run.seen
Usable == IF run.job.quiet THEN Procs ELSE Few
Kernel ==
    /\ ~Over
    /\ \/ \E p \in Procs : LeaveGroup(p) \/ Gain(p) \/ Exit(p)
       \/ \E p \in Procs : ~run.job.quiet /\ (Write(p) \/ Redirect(p))
       \/ \E p, q \in Usable : (proc[q].st = "none" \/ q \in Watched) /\ Fork(p, q)
       \/ \E p \in IF Foreign = {} THEN Watched ELSE Usable : Reuse(p, p \in run.aim)
    /\ UNCHANGED run

AgentStep == part = "run" /\ (ScriptStep \/ TalkStep \/ Run)
RunStep == part = "run" /\ (AgentStep \/ Kernel \/ Cancel \/ \E p \in Procs : Consume(p))

Next ==
    \/ RunStep /\ UNCHANGED <<audit, api, scan, edit, part>>
    \/ part = "audit" /\ AuditStep /\ UNCHANGED <<tree, run, api, scan, edit, part>>
    \/ part = "api" /\ ApiStep /\ UNCHANGED <<tree, run, audit, scan, edit, part>>
    \/ part = "scan" /\ ScanStep /\ UNCHANGED <<tree, run, audit, api, edit, part>>
    \/ part = "edit" /\ EditStep /\ UNCHANGED <<tree, run, audit, api, scan, part>>

Spec == Init /\ [][Next]_vars /\ WF_vars(AgentStep /\ UNCHANGED <<audit, api, scan, edit, part>>)

-----------------------------------------------------------------------------
(* What a kill of a tree achieves while the tree goes on changing. When    *)
(* the look ends, each process that was there when it began, and that the  *)
(* root still has among its descendants, is in the snapshot: leaving the   *)
(* group hides nobody "while its ancestor is alive"                        *)
(* (process_runner.rs:238). When the kill ends, nobody of the snapshot     *)
(* lives but for those that the error tells of. Not promised are those     *)
(* whose parent exited during the look, or that started after it listed    *)
(* their parent, unless they are still in the group.                       *)
ReachedAreGone ==
    /\ run.pc \in {"sudo_group", "kill_group"} =>
          \A p \in Descendants : proc[p].old => Id(p) \in run.snap
    /\ run.pc = "killed" /\ ~run.error => \A p \in Live : Id(p) \notin run.snap

(* An answer that does not say that something was left running has all of  *)
(* the output, also what a descendant wrote after the command had ended.   *)
OutputComplete ==
    run.job.use # "stdio" /\ run.answer \in {"completed", "timed_out"} /\ ~run.left =>
        Holders("out") = {} /\ run.captured = written

(* A process of somebody else that takes over an id of the command is not  *)
(* killed, with three exceptions: the group whose leader took over the id  *)
(* of a child that had been reaped already (process_runner.rs:144), an id  *)
(* that passed on between its check and the signal ("newcomer"), and one   *)
(* that passed on before its start time was read (lines 69 to 75) or       *)
(* belongs to a child of such a process: the snapshot then has the         *)
(* stranger itself.                                                        *)
SparesStrangers ==
    [][\A p \in Procs : proc[p].st = "stranger" /\ proc'[p].st # "stranger" =>
          p \in Group \/ Id(p) \in run.snap]_vars

(* "post-timeout process/pipe cleanup is bounded to five seconds and       *)
(* reports left_running=true when an escaped descendant survives instead   *)
(* of extending the request indefinitely" (COMPATIBILITY.md:230); and the  *)
(* children of git, which are given input, have "the authoritative bounded *)
(* timeout directly from the central runner" (line 135).                   *)
CleanupBounded == run.why = "timeout" ~> Over

(* Whatever the processes do, a request is over at some time, under the    *)
(* deadline, the five seconds of grace and the kills; except that a        *)
(* command that neither reads its input nor closes it can hold the answer  *)
(* back, as finish_stdin_write waits without a deadline. After a timeout   *)
(* that is what CleanupBounded says cannot happen.                         *)
StdinHeld == run.pc = "feed" /\ run.feeding = "writing" /\ Holders("in") # {}
AnsweredUnlessStdinHeld == <>Over \/ <>[]StdinHeld

(* "Upstream 0.23.14 partial-output semantics are matched: bytes written   *)
(* before the deadline remain in the timeout result"                       *)
(* (COMPATIBILITY.md:228): a command that passes its deadline is answered  *)
(* with such a result, if its output could be read and it did die.         *)
TimeoutKeepsOutput ==
    run.pc = "done" /\ run.why = "timeout" /\ run.reader # "failed" /\ Reaped
        => run.answer = "timed_out"
=============================================================================
