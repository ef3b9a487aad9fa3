----------------------------- MODULE ProcessTree -----------------------------
(***************************************************************************)
(* The processes of one command as the kernel keeps them: parents, process *)
(* groups, credentials, and who holds the ends of the pipes to the agent.  *)
(* None of it is under the agent's control once the command runs.          *)
(***************************************************************************)
EXTENDS Naturals, FiniteSets

CONSTANTS Procs,      \* process ids that the command may come to use
          Root,       \* the one that the agent spawns
          MaxStarts,  \* bound on the processes that one id is given to
          MaxWrites   \* bound on the output

ASSUME RootAssumption ==
    Root \in Procs /\ IsFiniteSet(Procs) /\ "init" \notin Procs /\ "agent" \notin Procs
ASSUME BoundsAssumption == MaxStarts \in Nat /\ MaxWrites \in Nat

VARIABLES proc,     \* the process at each id
          pipe,     \* output written and not yet read
          written   \* output written

tree == <<proc, pipe, written>>

(* "stranger" and "newcomer": the id belongs to a process of somebody      *)
(* else. start tells the processes apart that had the same id, and old is  *)
(* kept for the properties: it lived when the agent began to look for it.  *)
States == {"none", "live", "zombie", "gone", "stranger", "newcomer"}
Process == [st : States, start : Nat, parent : Procs \cup {"agent", "init"},
            group : BOOLEAN, priv : BOOLEAN, in : BOOLEAN, out : BOOLEAN, old : BOOLEAN]
Nothing == [st |-> "none", start |-> 0, parent |-> "init", group |-> FALSE, priv |-> FALSE,
            in |-> FALSE, out |-> FALSE, old |-> FALSE]

TreeInit == proc = [p \in Procs |-> Nothing] /\ pipe = 0 /\ written = 0

Live == {p \in Procs : proc[p].st = "live"}
Foreign == {p \in Procs : proc[p].st \in {"stranger", "newcomer"}}
Holders(end) == {p \in Live : proc[p][end]}
Group == {p \in Live \cup Foreign : proc[p].group}
Id(p) == <<p, proc[p].start>>

(* What the processes that descend from the root are at this moment.       *)
Children(S) == {q \in Live : proc[q].parent \in S}
Down[n \in 0..Cardinality(Procs)] ==
    IF n = 0 THEN {Root} ELSE Down[n - 1] \cup Children(Down[n - 1])
Descendants == IF Root \in Live THEN Down[Cardinality(Procs)] \ {Root} ELSE {}

(* The processes S die: the agent's child waits to be reaped, and orphans  *)
(* go to init.                                                             *)
Dead(p) == [Nothing EXCEPT !.st = IF proc[p].parent = "agent" THEN "zombie" ELSE "gone",
                           !.parent = IF proc[p].parent = "agent" THEN "agent" ELSE "init",
                           !.start = proc[p].start]
Die(S) ==
    proc' = [p \in Procs |->
               CASE p \in S -> Dead(p)
                 [] p \notin S /\ proc[p].parent \in S -> [proc[p] EXCEPT !.parent = "init"]
                 [] OTHER -> proc[p]]

(* A child inherits everything and gets an id that is free.                *)
FreeIds == {q \in Procs : proc[q].st \in {"none", "gone"} /\ proc[q].start < MaxStarts}
Fork(p, q) ==
    /\ p \in Live /\ q \in FreeIds \ {Root}
    /\ proc' = [proc EXCEPT ![q] = [proc[p] EXCEPT !.parent = p, !.start = proc[q].start + 1,
                                                  !.old = FALSE]]
    /\ UNCHANGED <<pipe, written>>

(* setsid or setpgid, and an exec that changes the user (sudo).            *)
LeaveGroup(p) ==
    /\ p \in Live /\ proc[p].group
    /\ proc' = [proc EXCEPT ![p].group = FALSE]
    /\ UNCHANGED <<pipe, written>>

Gain(p) ==
    /\ p \in Live /\ ~proc[p].priv
    /\ proc' = [proc EXCEPT ![p].priv = TRUE]
    /\ UNCHANGED <<pipe, written>>

(* exec >file 2>&1 </dev/null                                              *)
Redirect(p) ==
    /\ p \in Holders("out")
    /\ proc' = [proc EXCEPT ![p].out = FALSE, ![p].in = FALSE]
    /\ UNCHANGED <<pipe, written>>

Write(p) ==
    /\ p \in Holders("out") /\ written < MaxWrites
    /\ pipe' = pipe + 1 /\ written' = written + 1
    /\ UNCHANGED proc

Exit(p) ==
    /\ p \in Live
    /\ Die({p})
    /\ UNCHANGED <<pipe, written>>

(* A process of somebody else gets an id that is free, or starts a child   *)
(* there. The id of a group that still has members is not given out.       *)
Reuse(p, late) ==
    /\ p \in FreeIds
    /\ p = Root => proc[p].st = "gone" /\ Group = {}
    /\ \E leads \in {FALSE, p = Root}, parent \in {"init"} \cup Foreign :
          proc' = [proc EXCEPT ![p] = [Nothing EXCEPT
                     !.st = IF late THEN "newcomer" ELSE "stranger",
                     !.start = proc[p].start + 1, !.parent = parent, !.group = leads]]
    /\ UNCHANGED <<pipe, written>>
=============================================================================
