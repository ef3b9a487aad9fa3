-------------------------- MODULE HostCommandsProofs --------------------------
(***************************************************************************)
(* Theorems about what the agent does for one request besides its work on  *)
(* files: the run of a command and the kill of its tree, what is kept of   *)
(* an output, the pass over a text, the replacements of an edit, the call  *)
(* of a service and the records of the operations. Each part has an        *)
(* inductive invariant of its own, and each theorem is about the whole of  *)
(* HostCommands!Spec, for all values of its constants.                     *)
(***************************************************************************)
EXTENDS HostCommands, AuditLogProofs, WellFoundedInduction, SequenceTheorems,
        FiniteSetTheorems, TLAPS

(* The least number that is not in the set would have a predecessor that   *)
(* is: the induction that the proofs below use, over sets of numbers.      *)
LEMMA NatSetInduction ==
  ASSUME NEW T, 0 \in T, \A n \in Nat : n \in T => n + 1 \in T
  PROVE  Nat \subseteq T
<1> DEFINE M == Nat \ T
           R == {p \in Nat \X Nat : p[1] < p[2]}
<1>1. IsWellFoundedOn(R, Nat)
  BY NatLessThanWellFounded, Zenon DEF OpToRel
<1>2. \A i \in Nat : i # 0 => <<i - 1, i>> \in R
  OBVIOUS
<1>3. ASSUME M # {} PROVE FALSE
  <2>1. PICK x \in M : \A y \in M : ~(<<y, x>> \in R)
    <3> HIDE DEF R
    <3> QED BY <1>1, <1>3, WFMin
  <2>2. x \in Nat /\ x # 0 /\ x - 1 \in Nat
    OBVIOUS
  <2>3. x - 1 \notin M
    BY <1>2, <2>1, <2>2
  <2>4. (x - 1) + 1 \in T
    BY <2>2, <2>3
  <2> QED BY <2>1, <2>2, <2>4
<1> QED BY <1>3

(* A function that begins with a and goes from step to step by g.          *)
Unrolls(f, n, S, a, g) ==
    f \in [0..n -> S] /\ f[0] = a /\ \A i \in 1..n : f[i] = g[<<i, f[i - 1]>>]

LEMMA Recursion ==
  ASSUME NEW n \in Nat, NEW S, NEW a \in S, NEW g \in [(1..n) \X S -> S]
  PROVE  \E f : Unrolls(f, n, S, a, g)
<1> DEFINE Built(k) == \E f \in [0..k -> S] :
                          f[0] = a /\ \A i \in 1..k : f[i] = g[<<i, f[i - 1]>>]
           T == {k \in Nat : k <= n => Built(k)}
<1>1. 0 \in T
  <2> DEFINE z == [i \in 0..0 |-> a]
  <2>1. z \in [0..0 -> S] /\ z[0] = a
    OBVIOUS
  <2>2. Built(0)
    <3>1. \A i \in 1..0 : z[i] = g[<<i, z[i - 1]>>]
      OBVIOUS
    <3> HIDE DEF z
    <3> QED BY <2>1, <3>1
  <2> QED BY <2>2
<1>2. ASSUME NEW k \in Nat, k \in T PROVE k + 1 \in T
  <2> SUFFICES ASSUME k + 1 <= n PROVE Built(k + 1)
    OBVIOUS
  <2>1. PICK f \in [0..k -> S] : f[0] = a /\ \A i \in 1..k : f[i] = g[<<i, f[i - 1]>>]
    BY <1>2
  <2> DEFINE h == [i \in 0..(k + 1) |-> IF i <= k THEN f[i] ELSE g[<<k + 1, f[k]>>]]
  <2>2. f[k] \in S /\ <<k + 1, f[k]>> \in (1..n) \X S
    BY <2>1
  <2>3. h \in [0..(k + 1) -> S]
    BY <2>1, <2>2
  <2>4. h[0] = a
    BY <2>1
  <2>5. ASSUME NEW i \in 1..(k + 1) PROVE h[i] = g[<<i, h[i - 1]>>]
    <3>1. CASE i <= k
      <4>1. i \in 0..(k + 1) /\ i - 1 \in 0..(k + 1) /\ i - 1 <= k /\ i \in 1..k
        BY <3>1
      <4> QED BY <4>1, <3>1, <2>1
    <3>2. CASE i = k + 1
      <4>1. h[k + 1] = g[<<k + 1, f[k]>>] /\ h[k] = f[k]
        OBVIOUS
      <4>2. i - 1 = k
        BY <3>2
      <4> HIDE DEF h
      <4> QED BY <3>2, <4>1, <4>2
    <3> QED BY <3>1, <3>2
  <2> QED BY <2>3, <2>4, <2>5
<1> HIDE DEF Built
<1>3. Nat \subseteq T
  <2> HIDE DEF T
  <2> QED BY <1>1, <1>2, NatSetInduction
<1>4. Built(n)
  <2>1. n \in T
    BY <1>3
  <2> QED BY <2>1
<1> QED BY <1>4 DEF Built, Unrolls

-----------------------------------------------------------------------------
LEMMA DownIs ==
  ASSUME proc \in [Procs -> Process]
  PROVE  /\ Cardinality(Procs) \in Nat
         /\ Down[0] = {Root}
         /\ \A n \in 1..Cardinality(Procs) : Down[n] = Down[n - 1] \cup Children(Down[n - 1])
<1> DEFINE N == Cardinality(Procs)
           S == SUBSET Procs
           g == [p \in (1..N) \X S |-> p[2] \cup Children(p[2])]
           Is(f) == f = [n \in 0..N |->
                          IF n = 0 THEN {Root} ELSE f[n - 1] \cup Children(f[n - 1])]
<1>1. N \in Nat
  BY RootAssumption, FS_CardinalityType
<1>2. {Root} \in S /\ g \in [(1..N) \X S -> S]
  BY RootAssumption DEF Children, Live
<1>3. PICK f : Unrolls(f, N, S, {Root}, g)
  <2> HIDE DEF N, S, g
  <2> QED BY <1>1, <1>2, Recursion
<1>a. f \in [0..N -> S] /\ f[0] = {Root} /\ \A n \in 1..N : f[n] = g[<<n, f[n - 1]>>]
  BY <1>3 DEF Unrolls
<1>4. ASSUME NEW n \in 1..N PROVE f[n] = f[n - 1] \cup Children(f[n - 1])
  <2>1. n - 1 \in 0..N
    BY <1>1
  <2>2. <<n, f[n - 1]>> \in (1..N) \X S
    BY <2>1, <1>a
  <2> HIDE DEF N, S
  <2> QED BY <2>2, <1>a
<1>5. Is(f)
  <2>1. f = [n \in 0..N |-> f[n]]
    BY <1>a
  <2>2. \A n \in 0..N : n = 0 \/ n \in 1..N
    BY <1>1
  <2> HIDE DEF N, S, g
  <2> QED BY <2>1, <2>2, <1>a, <1>4
<1>6. Is(Down)
  <2>1. Down = CHOOSE h : Is(h)
    BY DEF Down
  <2> HIDE DEF Is
  <2> QED BY <2>1, <1>5
<1>7. \A n \in 0..N : Down[n] = IF n = 0 THEN {Root} ELSE Down[n - 1] \cup Children(Down[n - 1])
  BY <1>6
<1> HIDE DEF Is, N
<1>8. 0 \in 0..N /\ \A n \in 1..N : n \in 0..N /\ n # 0
  BY <1>1
<1> QED BY <1>1, <1>7, <1>8 DEF N

-----------------------------------------------------------------------------
(***************************************************************************)
(* The run of a command.                                                   *)
(***************************************************************************)
Early == {"stage", "spawn"}
Looking == {"look", "sudo_group", "kill_group"}
Signalling == {"filter", "sudo_rest", "rest", "killed"}
Killing == {"kill"} \cup Looking \cup Signalling
Ended == {"finish", "unwind", "done", "dropped"}
Mine == run.job.use # "stdio"   \* the output is read to its end

(* The fields that the argument reads; the others are of any value.        *)
Shaped ==
    /\ run = [job |-> run.job, pc |-> run.pc, why |-> run.why, armed |-> run.armed,
              reader |-> run.reader, taken |-> run.taken, feeding |-> run.feeding,
              queue |-> run.queue, found |-> run.found, seen |-> run.seen,
              snap |-> run.snap, rest |-> run.rest, aim |-> run.aim,
              captured |-> run.captured, answer |-> run.answer, left |-> run.left,
              error |-> run.error, workdir |-> run.workdir, told |-> run.told]
    /\ run.job \in Jobs
    /\ run.reader \in {"none", "open", "eof", "failed", "aborted"}
    /\ run.queue \in SUBSET Procs /\ run.found \in SUBSET Procs /\ run.seen \in SUBSET Procs
    /\ run.snap \in SUBSET Identities /\ run.rest \in SUBSET Identities
    /\ run.aim \in SUBSET Procs

(* What was written is in the pipe or was read; nothing was before the     *)
(* spawn.                                                                  *)
Typed ==
    /\ Shaped /\ proc \in [Procs -> Process]
    /\ run.captured \in Nat /\ pipe \in Nat /\ run.captured + pipe = written
    /\ run.pc \in Killing => run.why \in {"timeout", "capture", "cancelled", "stdio"}
    /\ run.pc = "feed" => run.why \in {"completed", "timeout", "capture"}
    /\ run.pc \in Early => /\ proc = [p \in Procs |-> Nothing] /\ pipe = 0
                           /\ run.reader = "none" /\ run.answer = "none" /\ run.why = "none"
                           /\ run.found = {} /\ run.seen = {}

(* The parent of a child of the tree lives, and is no younger.             *)
Kin ==
    \A q \in Live : proc[q].parent \in Procs =>
        /\ proc[q].parent \in Live
        /\ proc[q].old => proc[proc[q].parent].old

(* A reader that came to the end saw the last holder go, and an answer     *)
(* with output comes only after that.                                      *)
AllRead ==
    /\ run.pc \in {"talk", "stop"} => ~Mine
    /\ run.pc = "wait" => Mine
    /\ Mine /\ run.pc \in Killing \cup {"wait", "feed", "drain", "reap"} => run.reader # "none"
    /\ run.reader = "aborted" => run.why = "cancelled" \/ run.pc \in Ended
    /\ run.why = "cancelled" => run.pc \in Killing \cup Ended
    /\ run.pc = "feed" /\ run.why = "completed" => run.reader = "eof"
    /\ Mine /\ run.pc \notin Ended => run.answer = "none"
    /\ run.reader = "eof" => Holders("out") = {} /\ pipe = 0
    /\ Mine /\ run.answer \in {"completed", "timed_out"} /\ ~run.left => run.reader = "eof"

(* The look: who was there when it began and was met has its identity in   *)
(* the snapshot, and whose children were listed has none that was not      *)
(* found.                                                                  *)
Met ==
    run.pc \in Looking =>
        /\ Root \in run.seen
        /\ \A q \in Live : proc[q].old /\ q \in run.seen \ {Root} => Id(q) \in run.snap
        /\ \A q \in Live : proc[q].old /\ proc[q].parent \in run.seen \ run.queue =>
                              q \in run.seen \cup run.found
        /\ run.pc # "look" => run.found = {} /\ run.queue = {}

(* The signals: who is of the snapshot and lives is still to be signalled, *)
(* unless an error is told of. An identity that died does not come back.   *)
Aimed ==
    /\ run.pc \in Looking \cup Signalling => \A id \in run.snap : id[2] <= proc[id[1]].start
    /\ run.pc \in Looking \cup {"filter"} => run.aim = {}
    /\ run.pc = "sudo_rest" => \A q \in Live : Id(q) \in run.snap => q \in run.aim
    /\ run.pc = "rest" =>
          /\ run.rest \subseteq run.snap
          /\ \A p, q \in run.aim : p = q
          /\ \A q \in Live : Id(q) \in run.snap => Id(q) \in run.rest \/ q \in run.aim \/ run.error
    /\ run.pc = "killed" => \A q \in Live : Id(q) \in run.snap => run.error

(* A stranger at which the agent aims is one that it took for its own when *)
(* it looked.                                                              *)
ChosenRightly ==
    run.pc \in {"sudo_rest", "rest"} =>
        \A p \in run.aim : proc[p].st = "stranger" => Id(p) \in run.snap

(* What the kernel and the signals of the agent can make of the tree, once *)
(* the command is spawned: nobody new but children of those that live.     *)
Ages ==
    /\ proc' \in [Procs -> Process] /\ Kin'
    /\ \A q \in Procs : proc'[q].start >= proc[q].start
    /\ \A q \in Live' :
          \/ proc'[q].start > proc[q].start /\ ~proc'[q].old
          \/ /\ q \in Live /\ proc'[q].start = proc[q].start /\ proc'[q].old = proc[q].old
             /\ proc'[q].parent \in {proc[q].parent, "init"}
    /\ Holders("out") = {} => Holders("out")' = {}

LEMMA UnchangedAges == proc \in [Procs -> Process] /\ Kin /\ UNCHANGED proc => Ages
  BY DEF Ages, Holders, Live, Kin, Process

LEMMA DieAges ==
  ASSUME proc \in [Procs -> Process], Kin, NEW S \in SUBSET Procs, Die(S)
  PROVE  /\ Ages
         /\ \A p \in Procs : /\ p \notin S => proc'[p].st = proc[p].st
                             /\ p \in S => proc'[p].st \in {"zombie", "gone"}
                             /\ proc'[p].start = proc[p].start
<1>1. ASSUME NEW p \in Procs, p \in S
      PROVE  /\ proc'[p] \in Process /\ proc'[p].st \in {"zombie", "gone"}
             /\ proc'[p].start = proc[p].start
  <2>1. proc'[p] = Dead(p) /\ proc[p] \in Process
    BY <1>1 DEF Die
  <2> QED BY <2>1 DEF Dead, Process, Nothing, States
<1>2. ASSUME NEW p \in Procs, p \notin S
      PROVE  /\ proc'[p] \in Process /\ proc'[p].st = proc[p].st
             /\ proc'[p].start = proc[p].start /\ proc'[p].old = proc[p].old
             /\ proc'[p].out = proc[p].out
             /\ proc'[p].parent = IF proc[p].parent \in S THEN "init" ELSE proc[p].parent
  <2>1. proc[p] \in Process
    OBVIOUS
  <2>2. proc'[p] = IF proc[p].parent \in S THEN [proc[p] EXCEPT !.parent = "init"] ELSE proc[p]
    BY <1>2 DEF Die
  <2> QED BY <2>1, <2>2 DEF Process
<1>3. proc' \in [Procs -> Process]
  <2>1. proc' = [p \in Procs |-> proc'[p]]
    BY DEF Die
  <2> QED BY <2>1, <1>1, <1>2
<1>4. Holders("out") = {} => Holders("out")' = {}
  BY <1>1, <1>2 DEF Holders, Live
<1>5. \A q \in Live' : q \in Live /\ q \notin S
  BY <1>1, <1>2 DEF Live
<1>6. Kin'
  <2> SUFFICES ASSUME NEW q \in Live', (proc[q].parent \in Procs)'
               PROVE  (proc[q].parent \in Live /\ (proc[q].old => proc[proc[q].parent].old))'
    BY DEF Kin
  <2>1. q \in Procs /\ q \in Live /\ q \notin S
    BY <1>5 DEF Live
  <2>2. CASE proc[q].parent \in S
    <3>1. proc'[q].parent = "init"
      BY <1>2, <2>1, <2>2
    <3> QED BY <3>1, RootAssumption
  <2>3. CASE proc[q].parent \notin S
    <3>1. proc'[q].parent = proc[q].parent /\ proc'[q].old = proc[q].old
      BY <1>2, <2>1, <2>3
    <3>2. proc[q].parent \in Live /\ (proc[q].old => proc[proc[q].parent].old)
      BY <2>1, <3>1 DEF Kin
    <3>3. proc[q].parent \in Procs
      BY <3>2 DEF Live
    <3>4. proc'[proc[q].parent].st = "live" /\ proc'[proc[q].parent].old = proc[proc[q].parent].old
      BY <1>2, <2>3, <3>2, <3>3 DEF Live
    <3> QED BY <3>1, <3>2, <3>3, <3>4 DEF Live
  <2> QED BY <2>2, <2>3
<1>7. \A q \in Procs : proc[q].start \in Nat /\ proc'[q].start = proc[q].start
  BY <1>1, <1>2 DEF Process
<1>8. \A q \in Live' : proc'[q].old = proc[q].old /\ proc'[q].parent \in {proc[q].parent, "init"}
  BY <1>2, <1>5 DEF Live
<1>9. Ages
  BY <1>3, <1>4, <1>5, <1>6, <1>7, <1>8 DEF Ages, Live
<1> QED BY <1>1, <1>2, <1>9

(* A step that gives one id to a new process, of the command or not.       *)
LEMMA NewAges ==
  ASSUME proc \in [Procs -> Process], Kin, NEW q \in Procs, NEW new \in Process,
         proc[q].st # "live", proc' = [proc EXCEPT ![q] = new],
         new.start = proc[q].start + 1, ~new.old,
         new.st = "live" => new.parent \in Live /\ (new.out => Holders("out") # {})
  PROVE  Ages
<1>1. \A p \in Procs : proc'[p] = IF p = q THEN new ELSE proc[p]
  OBVIOUS
<1>2. proc' \in [Procs -> Process] /\ \A p \in Procs : proc[p].start \in Nat
  BY DEF Process
<1>3. q \notin Live
  BY DEF Live
<1>4. Kin'
  <2> SUFFICES ASSUME NEW p \in Live', (proc[p].parent \in Procs)'
               PROVE  (proc[p].parent \in Live /\ (proc[p].old => proc[proc[p].parent].old))'
    BY DEF Kin
  <2>1. p \in Procs
    BY DEF Live
  <2>2. CASE p = q
    <3>1. proc'[p] = new /\ new.st = "live" /\ new.parent \in Live
      BY <1>1, <2>1, <2>2 DEF Live
    <3>2. new.parent \in Procs /\ new.parent # q
      BY <1>3, <3>1 DEF Live
    <3> QED BY <1>1, <3>1, <3>2 DEF Live
  <2>3. CASE p # q
    <3>1. proc'[p] = proc[p] /\ p \in Live /\ proc[p].parent \in Live
      BY <1>1, <2>1, <2>3 DEF Live, Kin
    <3>2. proc[p].parent \in Procs /\ proc[p].parent # q
      BY <1>3, <3>1 DEF Live
    <3> QED BY <1>1, <3>1, <3>2 DEF Live, Kin
  <2> QED BY <2>2, <2>3
<1>5. Holders("out") = {} => Holders("out")' = {}
  BY <1>1 DEF Holders, Live
<1> QED BY <1>1, <1>2, <1>4, <1>5 DEF Ages, Live

(* A step that leaves the processes where they are.                        *)
LEMMA KeptAges ==
  ASSUME proc \in [Procs -> Process], Kin, NEW p \in Procs, NEW new \in Process,
         proc' = [proc EXCEPT ![p] = new],
         /\ new.st = proc[p].st /\ new.start = proc[p].start /\ new.old = proc[p].old
         /\ new.parent = proc[p].parent /\ (new.out => proc[p].out)
  PROVE  Ages
<1>1. \A q \in Procs : proc'[q] = IF q = p THEN new ELSE proc[q]
  OBVIOUS
<1>2. proc' \in [Procs -> Process] /\ \A q \in Procs : proc[q].start \in Nat
  BY DEF Process
<1>3. \A q \in Procs : /\ proc'[q].st = proc[q].st /\ proc'[q].start = proc[q].start
                       /\ proc'[q].old = proc[q].old /\ proc'[q].parent = proc[q].parent
                       /\ (proc'[q].out => proc[q].out)
  BY <1>1
<1>4. Live' = Live
  BY <1>3 DEF Live
<1>5. Kin' /\ (Holders("out") = {} => Holders("out")' = {})
  BY <1>3, <1>4 DEF Kin, Holders, Live
<1> QED BY <1>2, <1>3, <1>4, <1>5 DEF Ages, Live

Changes(p, q, late) ==
    Redirect(p) \/ LeaveGroup(p) \/ Gain(p) \/ Fork(p, q) \/ Write(p) \/ Exit(p) \/ Reuse(p, late)

LEMMA KernelAges ==
  ASSUME proc \in [Procs -> Process], Kin,
         NEW p \in Procs, NEW q \in Procs, NEW late \in BOOLEAN, Changes(p, q, late)
  PROVE  Ages
<1>0. proc[p] \in Process /\ proc[q] \in Process
  OBVIOUS
<1>1. CASE Redirect(p)
  <2> DEFINE new == [proc[p] EXCEPT !.out = FALSE, !.in = FALSE]
  <2>1. /\ new \in Process /\ new.st = proc[p].st /\ new.start = proc[p].start
        /\ new.old = proc[p].old /\ new.parent = proc[p].parent /\ ~new.out
    BY <1>0 DEF Process
  <2>2. proc' = [proc EXCEPT ![p] = new]
    BY <1>1 DEF Redirect
  <2> HIDE DEF new
  <2> QED BY <2>1, <2>2, KeptAges
<1>2. CASE LeaveGroup(p)
  <2> DEFINE new == [proc[p] EXCEPT !.group = FALSE]
  <2>1. /\ new \in Process /\ new.st = proc[p].st /\ new.start = proc[p].start
        /\ new.old = proc[p].old /\ new.parent = proc[p].parent /\ new.out = proc[p].out
    BY <1>0 DEF Process
  <2>2. proc' = [proc EXCEPT ![p] = new]
    BY <1>2 DEF LeaveGroup
  <2> HIDE DEF new
  <2> QED BY <2>1, <2>2, KeptAges
<1>3. CASE Gain(p)
  <2> DEFINE new == [proc[p] EXCEPT !.priv = TRUE]
  <2>1. /\ new \in Process /\ new.st = proc[p].st /\ new.start = proc[p].start
        /\ new.old = proc[p].old /\ new.parent = proc[p].parent /\ new.out = proc[p].out
    BY <1>0 DEF Process
  <2>2. proc' = [proc EXCEPT ![p] = new]
    BY <1>3 DEF Gain
  <2> HIDE DEF new
  <2> QED BY <2>1, <2>2, KeptAges
<1>4. CASE Fork(p, q)
  <2> DEFINE new == [proc[p] EXCEPT !.parent = p, !.start = proc[q].start + 1, !.old = FALSE]
  <2>0. proc[q].start + 1 \in Nat
    BY <1>0 DEF Process
  <2>1. /\ new \in Process /\ new.st = proc[p].st /\ new.start = proc[q].start + 1
        /\ ~new.old /\ new.parent = p /\ new.out = proc[p].out
    BY <1>0, <2>0 DEF Process
  <2>2. p \in Live /\ proc[q].st # "live" /\ proc' = [proc EXCEPT ![q] = new]
    BY <1>4 DEF Fork, FreeIds
  <2> HIDE DEF new
  <2>3. new.out => Holders("out") # {}
    BY <2>1, <2>2 DEF Holders
  <2> QED BY <2>1, <2>2, <2>3, NewAges
<1>5. CASE Write(p)
  BY <1>5, UnchangedAges DEF Write
<1>6. CASE Exit(p)
  BY <1>6, DieAges DEF Exit
<1>7. CASE Reuse(p, late)
  <2>1. PICK leads \in {FALSE, p = Root}, parent \in {"init"} \cup Foreign :
          proc' = [proc EXCEPT ![p] = [Nothing EXCEPT
                     !.st = IF late THEN "newcomer" ELSE "stranger",
                     !.start = proc[p].start + 1, !.parent = parent, !.group = leads]]
    BY <1>7 DEF Reuse
  <2> DEFINE new == [Nothing EXCEPT
                     !.st = IF late THEN "newcomer" ELSE "stranger",
                     !.start = proc[p].start + 1, !.parent = parent, !.group = leads]
  <2>a. parent \in Procs \cup {"agent", "init"} /\ proc[p].start + 1 \in Nat
    BY <1>0 DEF Foreign, Process
  <2>b. leads \in BOOLEAN
    OBVIOUS
  <2>2. parent \in Procs \cup {"agent", "init"} /\ leads \in BOOLEAN /\ proc[p].start + 1 \in Nat
    BY <2>a, <2>b
  <2>3. new \in Process /\ new.st # "live" /\ new.start = proc[p].start + 1 /\ ~new.old
    BY <2>2 DEF Nothing, Process, States
  <2>4. proc[p].st # "live" /\ proc' = [proc EXCEPT ![p] = new]
    BY <1>7, <2>1 DEF Reuse, FreeIds
  <2> HIDE DEF new
  <2> QED BY <2>3, <2>4, NewAges
<1> QED BY <1>1, <1>2, <1>3, <1>4, <1>5, <1>6, <1>7 DEF Changes

Consuming == \E p \in Procs : Consume(p)
Listing == \E p \in Procs : ListChildren(p)
Identifying == \E p \in Procs : Identify(p)
Checking == \E id \in run.rest : CheckOne(id)
Signaling == \E p \in run.aim : KillOne(p)
RunAct ==
    \/ ScriptStep \/ TalkStep \/ Run \/ Cancel \/ Kernel \/ Consuming

LEMMA Acts ==
  ASSUME RunAct
  PROVE  \/ ShellStarts \/ Stage \/ StageFails \/ ShellEnds \/ CleanUp \/ Keep
         \/ Unwind \/ TalkEnds \/ Stopped \/ Buried \/ SpawnFails \/ ReaderEnds
         \/ ReadFails \/ Feed \/ Complete \/ Deadline \/ StartLook \/ Listing
         \/ Identifying \/ LookEnds \/ SudoKillGroup \/ KillGroup \/ Filter
         \/ SudoKillRest \/ Checking \/ Signaling \/ RestEnds \/ Killed
         \/ AwaitFeed \/ DrainPolledTwice \/ DrainEnds \/ DrainGivesUp \/ ReapEnds
         \/ Cancel \/ TalkSpawn \/ Spawn \/ Read \/ Reap \/ Kernel \/ Consuming
  BY DEF RunAct, ScriptStep, TalkStep, Run, Look, KillRest, Listing, Identifying, Checking,
     Signaling

LEMMA WatchedProcs == Typed => Watched \subseteq Procs
  BY RootAssumption DEF Typed, Shaped, Watched

LEMMA KernelMoves ==
  ASSUME Typed, Kernel
  PROVE  \E p, q \in Procs, late \in BOOLEAN : Changes(p, q, late)
<1>1. Watched \subseteq Procs
  BY WatchedProcs
<1>2. \A p : (p \in run.aim) \in BOOLEAN
  OBVIOUS
<1>4. CASE \E p \in Procs : LeaveGroup(p) \/ Gain(p) \/ Write(p) \/ Exit(p)
  BY <1>4 DEF Changes
<1>5. CASE \E p \in Procs : Redirect(p)
  BY <1>5 DEF Changes
<1>6. CASE \E p, q \in Procs : Fork(p, q)
  BY <1>6 DEF Changes
<1>7. CASE \E p \in Procs : Reuse(p, p \in run.aim)
  <2>1. PICK p \in Procs : Reuse(p, p \in run.aim)
    BY <1>7
  <2>2. \E late \in BOOLEAN : Reuse(p, late)
    BY <1>2, <2>1
  <2> QED BY <2>2 DEF Changes
<1> QED BY <1>1, <1>4, <1>5, <1>6, <1>7, FewAssumption DEF Kernel, Usable

LEMMA KernelLate ==
  ASSUME Typed, Kernel PROVE run.pc \notin Early
<1> SUFFICES ASSUME run.pc \in Early PROVE FALSE
  OBVIOUS
<1>1. /\ \A p \in Procs : proc[p].st = "none"
      /\ Live = {} /\ Foreign = {} /\ Watched = {Root}
  BY DEF Typed, Nothing, Live, Foreign, Watched
<1>2. ~ \E p \in Procs : LeaveGroup(p) \/ Gain(p) \/ Write(p) \/ Exit(p) \/ Redirect(p)
  BY <1>1 DEF LeaveGroup, Gain, Write, Exit, Redirect, Holders
<1>3. ~ \E p, q \in Procs : Fork(p, q)
  BY <1>1 DEF Fork
<1>4. ~Reuse(Root, Root \in run.aim)
  BY <1>1, RootAssumption DEF Reuse
<1> QED BY <1>1, <1>2, <1>3, <1>4, FewAssumption DEF Kernel, Usable

Dying == \E S \in SUBSET Procs : Die(S)

(* What the agent kills by kill_on_drop.                                   *)
LEMMA Dropping ==
  ASSUME DropChild PROVE Dying
<1>1. Signalled({p \in {Root} : p \in Live}) \in SUBSET Procs
  BY RootAssumption DEF Signalled
<1> QED BY <1>1 DEF DropChild, Dying

LEMMA Effects ==
  ASSUME Typed, RunAct
  PROVE  UNCHANGED proc \/ Dying \/ Reap \/ Kernel \/ Spawn \/ TalkSpawn \/ StartLook
<1>1. CASE Unwind \/ Buried \/ ReapEnds
  BY <1>1, Dropping DEF Unwind, Buried, ReapEnds
<1>2. CASE DrainGivesUp
  BY <1>2, Dropping DEF DrainGivesUp
<1>3. Group \in SUBSET Procs /\ \A S \in SUBSET Procs : Signalled(S) \in SUBSET Procs
  BY DEF Group, Live, Foreign, Signalled
<1>4. CASE SudoKillGroup \/ KillGroup
  <2>1. {} \in SUBSET Procs
    OBVIOUS
  <2> QED BY <1>3, <1>4, <2>1 DEF SudoKillGroup, KillGroup, Dying
<1>5. CASE SudoKillRest
  <2>1. run.aim \in SUBSET Procs /\ {p \in run.aim : Exists(p)} \in SUBSET Procs /\ {} \in SUBSET Procs
    BY DEF Typed, Shaped
  <2> QED BY <1>5, <2>1 DEF SudoKillRest, Dying
<1>6. CASE Signaling
  <2>1. PICK p \in run.aim : KillOne(p)
    BY <1>6 DEF Signaling
  <2>2. {q \in {p} : Exists(q)} \in SUBSET Procs
    BY DEF Typed, Shaped
  <2> QED BY <1>3, <2>1, <2>2 DEF KillOne, Dying
<1> QED BY Acts, <1>1, <1>2, <1>4, <1>5, <1>6
    DEF ShellStarts, Stage, StageFails, ShellEnds, CleanUp, Keep, TalkEnds,
    Stopped, SpawnFails, ReaderEnds, ReadFails, Feed, Complete, Deadline,
    Listing, ListChildren, Identifying, Identify, LookEnds, Filter, Checking, CheckOne,
    RestEnds, Killed, AwaitFeed, DrainPolledTwice, DrainEnds, Cancel, Read, Consuming,
    Consume, tree

LEMMA AgesStep ==
  ASSUME Typed, Kin, RunAct
  PROVE  Ages \/ Spawn \/ TalkSpawn \/ StartLook
<1>1. CASE UNCHANGED proc
  BY <1>1, UnchangedAges DEF Typed
<1>2. CASE Dying
  BY <1>2, DieAges DEF Dying, Typed
<1>3. CASE Reap
  <2> DEFINE new == [proc[Root] EXCEPT !.st = "gone", !.parent = "init"]
  <2>1. proc' = [proc EXCEPT ![Root] = new] /\ proc[Root].st = "zombie"
    BY <1>3 DEF Reap
  <2>0. proc[Root] \in Process
    BY RootAssumption DEF Typed
  <2>2. new \in Process /\ new.st = "gone" /\ new.start = proc[Root].start
    BY <2>0 DEF Process, States
  <2> HIDE DEF new
  <2>3. \A q \in Procs : proc'[q] = IF q = Root THEN new ELSE proc[q]
    BY <2>1 DEF Typed
  <2>4. Live' = Live /\ Root \notin Live
    BY <2>1, <2>2, <2>3 DEF Live
  <2>5. Kin' /\ (Holders("out") = {} => Holders("out")' = {})
    BY <2>3, <2>4 DEF Kin, Holders, Live
  <2>6. proc' \in [Procs -> Process] /\ \A q \in Procs : proc[q].start \in Nat
    BY <2>1, <2>2 DEF Typed, Process
  <2> QED BY <2>2, <2>3, <2>4, <2>5, <2>6 DEF Ages, Live
<1>4. CASE Kernel
  <2>1. PICK p \in Procs, q \in Procs, late \in BOOLEAN : Changes(p, q, late)
    BY <1>4, KernelMoves
  <2> QED BY <2>1, KernelAges DEF Typed
<1> QED BY Effects, <1>1, <1>2, <1>3, <1>4

LEMMA TypedStep ==
  ASSUME Typed, Kin, RunAct
  PROVE  Typed'
<1>1. CASE ShellStarts
  BY <1>1 DEF ShellStarts, Typed, Shaped, Early, Killing, Looking, Signalling, tree
<1>2. CASE Stage
  BY <1>2 DEF Stage, Typed, Shaped, Early, Killing, Looking, Signalling, tree
<1>3. CASE StageFails
  <2>1. PICK made : run' = [run EXCEPT !.pc = "finish", !.answer = "refused", !.workdir = made]
    BY <1>3 DEF StageFails
  <2>2. run.pc = "stage" /\ UNCHANGED tree
    BY <1>3 DEF StageFails
  <2> QED BY <2>1, <2>2 DEF Typed, Shaped, Early, Killing, Looking, Signalling, tree
<1>4. CASE ShellEnds
  BY <1>4 DEF ShellEnds, Typed, Shaped, Early, Killing, Looking, Signalling, tree
<1>5. CASE CleanUp
  <2>1. run.pc = "finish" /\ UNCHANGED tree
    BY <1>5 DEF CleanUp
  <2>2. CASE run' = [run EXCEPT !.pc = "done", !.workdir = "removed"]
    BY <2>1, <2>2 DEF Typed, Shaped, Early, Killing, Looking, Signalling, tree
  <2>3. CASE run' = [run EXCEPT !.pc = "done", !.told = TRUE]
    BY <2>1, <2>3 DEF Typed, Shaped, Early, Killing, Looking, Signalling, tree
  <2> QED BY <1>5, <2>2, <2>3 DEF CleanUp
<1>6. CASE Keep
  BY <1>6 DEF Keep, Typed, Shaped, Early, Killing, Looking, Signalling, tree
<1>7. CASE Unwind
  <2> DEFINE end == IF run.answer = "panicked" THEN "done" ELSE "dropped"
  <2>1. PICK left : run' = [run EXCEPT !.pc = end, !.armed = FALSE, !.workdir = left]
    BY <1>7 DEF Unwind
  <2>2. end \in {"done", "dropped"}
    OBVIOUS
  <2> HIDE DEF end
  <2>3. run.pc = "unwind" /\ UNCHANGED <<pipe, written>>
    BY <1>7 DEF Unwind
  <2>4. proc' \in [Procs -> Process]
    BY <1>7, Dropping, DieAges DEF Unwind, Dying, Typed, Ages
  <2> QED BY <2>1, <2>2, <2>3, <2>4 DEF Typed, Shaped, Early, Killing, Looking, Signalling, tree
<1>8. CASE TalkEnds
  BY <1>8 DEF TalkEnds, Typed, Shaped, Early, Killing, Looking, Signalling, tree
<1>9. CASE Stopped
  BY <1>9 DEF Stopped, Typed, Shaped, Early, Killing, Looking, Signalling, tree
<1>10. CASE Buried
  <2>1. proc' \in [Procs -> Process]
    BY <1>10, Dropping, DieAges DEF Buried, Dying, Typed, Ages
  <2>2. \E e : run' = [run EXCEPT !.pc = "finish", !.error = e]
    BY <1>10 DEF Buried
  <2> QED BY <1>10, <2>1, <2>2 DEF Buried, Typed, Shaped, Early, Killing, Looking, Signalling
<1>11. CASE SpawnFails
  BY <1>11 DEF SpawnFails, Typed, Shaped, Early, Killing, Looking, Signalling, tree
<1>12. CASE ReaderEnds
  BY <1>12 DEF ReaderEnds, Holders, Typed, Shaped, Early, Killing, Looking, Signalling, tree
<1>13. CASE ReadFails
  BY <1>13 DEF ReadFails, Typed, Shaped, Early, Killing, Looking, Signalling, tree
<1>14. CASE Feed
  BY <1>14 DEF Feed, Holders, Typed, Shaped, Early, Killing, Looking, Signalling, tree
<1>15. CASE Complete
  <2>1. run.pc = "wait" /\ run.reader # "open" /\ UNCHANGED tree
    BY <1>15 DEF Complete, Drained
  <2>2. \/ /\ run.reader # "failed"
           /\ run' = [run EXCEPT !.pc = "feed", !.why = "completed", !.armed = FALSE]
        \/ run' = [run EXCEPT !.pc = "kill", !.why = "capture"]
    BY <1>15 DEF Complete, Drained
  <2>3. CASE /\ run.reader # "failed"
             /\ run' = [run EXCEPT !.pc = "feed", !.why = "completed", !.armed = FALSE]
    BY <2>1, <2>3 DEF Typed, Shaped, Early, Killing, Looking, Signalling, tree
  <2>4. CASE run' = [run EXCEPT !.pc = "kill", !.why = "capture"]
    BY <2>1, <2>4 DEF Typed, Shaped, Early, Killing, Looking, Signalling, tree
  <2> QED BY <2>2, <2>3, <2>4
<1>16. CASE Deadline
  BY <1>16 DEF Deadline, Drained, Reaped, Typed, Shaped, Early, Killing, Looking, Signalling, tree
<1>17. CASE StartLook
  <2>1. \A p \in Procs : [proc[p] EXCEPT !.old = p \in Live] \in Process
    <3> SUFFICES ASSUME NEW p \in Procs PROVE [proc[p] EXCEPT !.old = p \in Live] \in Process
      OBVIOUS
    <3>1. proc[p] \in Process /\ (p \in Live) \in BOOLEAN
      BY DEF Typed
    <3> QED BY <3>1 DEF Process
  <2>2. proc' \in [Procs -> Process]
    BY <1>17, <2>1 DEF StartLook
  <2>3. {Root} \in SUBSET Procs
    BY RootAssumption
  <2> QED BY <1>17, <2>2, <2>3 DEF StartLook, Typed, Shaped, Early, Killing, Looking, Signalling
<1>18. CASE Listing
  <2>1. PICK p \in Procs : ListChildren(p)
    BY <1>18 DEF Listing
  <2> DEFINE Q == run.queue \ {p}
             F == Listed(p) \ run.seen
  <2>2. Q \in SUBSET Procs /\ F \in SUBSET Procs
    BY DEF Listed, Live, Foreign, Typed, Shaped
  <2>3. run.pc = "look" /\ UNCHANGED tree /\ run' = [run EXCEPT !.queue = Q, !.found = F]
    BY <2>1, Zenon DEF ListChildren
  <2> HIDE DEF Q, F
  <2> QED BY <2>2, <2>3 DEF Typed, Shaped, Early, Killing, Looking, Signalling, tree
<1>19. CASE Identifying
  <2>1. PICK p \in Procs : Identify(p)
    BY <1>19 DEF Identifying
  <2> DEFINE F == run.found \ {p}
             M == run.seen \cup {p}
             met == [run EXCEPT !.found = F, !.seen = M]
             S == run.snap \cup {Id(p)}
             Q == run.queue \cup {p}
  <2>2. Id(p) \in Identities
    BY DEF Id, Identities, Typed, Process
  <2>3. /\ F \in SUBSET Procs /\ M \in SUBSET Procs
        /\ S \in SUBSET Identities /\ Q \in SUBSET Procs
    BY <2>2 DEF Typed, Shaped
  <2>4. /\ run.pc = "look" /\ UNCHANGED tree
        /\ run' = IF Exists(p) THEN [met EXCEPT !.snap = S, !.queue = Q] ELSE met
    <3>1. met.snap = run.snap /\ met.queue = run.queue
      BY DEF Typed, Shaped
    <3> QED BY <2>1, <3>1 DEF Identify
  <2> HIDE DEF F, M, S, Q
  <2>5. CASE run' = met
    BY <2>3, <2>4, <2>5 DEF Typed, Shaped, Early, Killing, Looking, Signalling, tree
  <2>6. CASE run' = [met EXCEPT !.snap = S, !.queue = Q]
    BY <2>3, <2>4, <2>6 DEF Typed, Shaped, Early, Killing, Looking, Signalling, tree
  <2> QED BY <2>4, <2>5, <2>6
<1>20. CASE LookEnds
  <2>1. \E next \in {"sudo_group", "kill_group"} : run' = [run EXCEPT !.pc = next]
    BY <1>20 DEF LookEnds
  <2>2. run.pc = "look" /\ UNCHANGED tree
    BY <1>20 DEF LookEnds
  <2> QED BY <2>1, <2>2 DEF Typed, Shaped, Early, Killing, Looking, Signalling, tree
<1>21. CASE SudoKillGroup
  <2>1. proc' \in [Procs -> Process]
    BY <1>21, AgesStep DEF SudoKillGroup, Typed, Ages, RunAct, Run, Spawn, TalkSpawn, StartLook
  <2>2. /\ run.pc = "sudo_group" /\ UNCHANGED <<pipe, written>>
        /\ \E next \in {"filter", "kill_group"} : run' = [run EXCEPT !.pc = next]
    BY <1>21 DEF SudoKillGroup
  <2> QED BY <2>1, <2>2 DEF Typed, Shaped, Early, Killing, Looking, Signalling, tree
<1>22. CASE KillGroup
  <2>1. proc' \in [Procs -> Process]
    BY <1>22, AgesStep DEF KillGroup, Typed, Ages, RunAct, Run, Spawn, TalkSpawn, StartLook
  <2>2. run.pc = "kill_group" /\ UNCHANGED <<pipe, written>>
    BY <1>22 DEF KillGroup
  <2>3. PICK e : \/ run' = [run EXCEPT !.pc = "filter", !.error = e]
                 \/ run' = [run EXCEPT !.pc = "rest", !.rest = run.snap, !.error = e]
    BY <1>22 DEF KillGroup
  <2>5. CASE run' = [run EXCEPT !.pc = "filter", !.error = e]
    BY <2>1, <2>2, <2>5 DEF Typed, Shaped, Early, Killing, Looking, Signalling, tree
  <2>6. CASE run' = [run EXCEPT !.pc = "rest", !.rest = run.snap, !.error = e]
    BY <2>1, <2>2, <2>6 DEF Typed, Shaped, Early, Killing, Looking, Signalling, tree
  <2> QED BY <2>3, <2>5, <2>6
<1>23. CASE Filter
  <2> DEFINE A == {id[1] : id \in {i \in run.snap : IsCurrent(i)}}
  <2>1. A \in SUBSET Procs
    BY DEF Typed, Shaped, Identities
  <2>2. run.pc = "filter" /\ UNCHANGED tree
    BY <1>23 DEF Filter
  <2>3. \/ run' = [run EXCEPT !.pc = "killed"]
        \/ run' = [run EXCEPT !.pc = "sudo_rest", !.aim = A]
    BY <1>23 DEF Filter
  <2> HIDE DEF A
  <2>5. CASE run' = [run EXCEPT !.pc = "killed"]
    BY <2>1, <2>2, <2>5 DEF Typed, Shaped, Early, Killing, Looking, Signalling, tree
  <2>6. CASE run' = [run EXCEPT !.pc = "sudo_rest", !.aim = A]
    BY <2>1, <2>2, <2>6 DEF Typed, Shaped, Early, Killing, Looking, Signalling, tree
  <2> QED BY <2>3, <2>5, <2>6
<1>24. CASE SudoKillRest
  <2>1. proc' \in [Procs -> Process]
    BY <1>24, AgesStep DEF SudoKillRest, Typed, Ages, RunAct, Run, Spawn, TalkSpawn, StartLook
  <2>2. run.pc = "sudo_rest" /\ UNCHANGED <<pipe, written>>
    BY <1>24 DEF SudoKillRest
  <2>3. \/ run' = [run EXCEPT !.pc = "killed", !.aim = {}]
        \/ run' = [run EXCEPT !.pc = "rest", !.rest = run.snap, !.aim = {}]
    BY <1>24 DEF SudoKillRest
  <2>5. CASE run' = [run EXCEPT !.pc = "killed", !.aim = {}]
    BY <2>1, <2>2, <2>5 DEF Typed, Shaped, Early, Killing, Looking, Signalling, tree
  <2>6. CASE run' = [run EXCEPT !.pc = "rest", !.rest = run.snap, !.aim = {}]
    BY <2>1, <2>2, <2>6 DEF Typed, Shaped, Early, Killing, Looking, Signalling, tree
  <2> QED BY <2>3, <2>5, <2>6
<1>25. CASE Checking
  <2>1. PICK id \in run.rest : CheckOne(id)
    BY <1>25 DEF Checking
  <2> DEFINE R == run.rest \ {id}
             A == IF IsCurrent(id) THEN {id[1]} ELSE {}
  <2>2. R \in SUBSET Identities /\ A \in SUBSET Procs
    BY DEF Typed, Shaped, Identities
  <2>3. run.pc = "rest" /\ UNCHANGED tree /\ run' = [run EXCEPT !.rest = R, !.aim = A]
    BY <2>1, Zenon DEF CheckOne
  <2> HIDE DEF R, A
  <2> QED BY <2>2, <2>3 DEF Typed, Shaped, Early, Killing, Looking, Signalling, tree
<1>26. CASE Signaling
  <2>1. PICK p \in run.aim : KillOne(p)
    BY <1>26 DEF Signaling
  <2>2. proc' \in [Procs -> Process]
    BY <1>26, <2>1, AgesStep DEF KillOne, Typed, Ages, RunAct, Run, Spawn, TalkSpawn, StartLook
  <2>3. /\ run.pc = "rest" /\ UNCHANGED <<pipe, written>>
        /\ \E e : run' = [run EXCEPT !.aim = {}, !.error = e]
    BY <2>1 DEF KillOne
  <2> QED BY <2>2, <2>3 DEF Typed, Shaped, Early, Killing, Looking, Signalling, tree
<1>27. CASE RestEnds
  BY <1>27 DEF RestEnds, Typed, Shaped, Early, Killing, Looking, Signalling, tree
<1>28. CASE Killed
  <2>1. /\ AfterKill \in {"unwind", "bury", "feed"}
        /\ AfterKill = "feed" => run.why \notin {"cancelled", "stdio"}
    BY DEF AfterKill
  <2> QED BY <1>28, <2>1 DEF Killed, Typed, Shaped, Early, Killing, Looking, Signalling, tree
<1>29. CASE AwaitFeed
  <2>1. run.pc = "feed" /\ UNCHANGED tree
    BY <1>29 DEF AwaitFeed, Typed
  <2>2. \/ \E answer \in {"error", "completed"} :
            run.why = "completed" /\ run' = [run EXCEPT !.pc = "finish", !.answer = answer]
        \/ run' = [run EXCEPT !.pc = "drain"]
        \/ run' = [run EXCEPT !.pc = "reap"]
    BY <1>29 DEF AwaitFeed, Typed
  <2>3. CASE \E answer \in {"error", "completed"} :
                run.why = "completed" /\ run' = [run EXCEPT !.pc = "finish", !.answer = answer]
    BY <2>1, <2>3 DEF Typed, Shaped, Early, Killing, Looking, Signalling, tree
  <2>4. CASE run' = [run EXCEPT !.pc = "drain"]
    BY <2>1, <2>4 DEF Typed, Shaped, Early, Killing, Looking, Signalling, tree
  <2>5. CASE run' = [run EXCEPT !.pc = "reap"]
    BY <2>1, <2>5 DEF Typed, Shaped, Early, Killing, Looking, Signalling, tree
  <2> QED BY <2>2, <2>3, <2>4, <2>5
<1>30. CASE DrainPolledTwice
  BY <1>30 DEF DrainPolledTwice, Panic, Typed, Shaped, Early, Killing, Looking, Signalling, tree
<1>31. CASE DrainEnds
  <2>1. run.pc = "drain" /\ run.reader # "open" /\ UNCHANGED tree
    BY <1>31 DEF DrainEnds, Drained
  <2>2. \/ Panic
        \/ run.reader # "failed" /\ run' = [run EXCEPT !.pc = "finish", !.answer = "timed_out"]
    BY <1>31 DEF DrainEnds, Drained
  <2>3. CASE Panic
    BY <2>1, <2>3 DEF Panic, Typed, Shaped, Early, Killing, Looking, Signalling, tree
  <2>4. CASE run.reader # "failed" /\ run' = [run EXCEPT !.pc = "finish", !.answer = "timed_out"]
    BY <2>1, <2>4 DEF Typed, Shaped, Early, Killing, Looking, Signalling, tree
  <2> QED BY <2>2, <2>3, <2>4
<1>32. CASE DrainGivesUp
  <2>1. run.pc = "drain" /\ UNCHANGED <<pipe, written>>
    BY <1>32 DEF DrainGivesUp, Grace
  <2>2. \/ Panic
        \/ run' = [run EXCEPT !.pc = "finish", !.answer = "timed_out", !.left = TRUE,
                               !.reader = "aborted"]
    BY <1>32 DEF DrainGivesUp, Grace
  <2>3. proc' \in [Procs -> Process]
    BY <1>32, Dropping, DieAges DEF DrainGivesUp, Dying, Typed, Ages
  <2>4. CASE Panic
    BY <2>1, <2>3, <2>4 DEF Panic, Typed, Shaped, Early, Killing, Looking, Signalling
  <2>5. CASE run' = [run EXCEPT !.pc = "finish", !.answer = "timed_out", !.left = TRUE,
                                 !.reader = "aborted"]
    BY <2>1, <2>3, <2>5 DEF Typed, Shaped, Early, Killing, Looking, Signalling
  <2> QED BY <2>2, <2>4, <2>5
<1>33. CASE ReapEnds
  <2>1. proc' \in [Procs -> Process]
    BY <1>33, Dropping, DieAges DEF ReapEnds, Dying, Typed, Ages
  <2>2. run.pc = "reap" /\ UNCHANGED <<pipe, written>>
    BY <1>33 DEF ReapEnds
  <2>3. \/ run' = [run EXCEPT !.pc = "finish", !.answer = "error"]
        \/ run' = [run EXCEPT !.pc = "finish", !.answer = "error", !.error = TRUE]
    BY <1>33 DEF ReapEnds
  <2>5. CASE run' = [run EXCEPT !.pc = "finish", !.answer = "error"]
    BY <2>1, <2>2, <2>5 DEF Typed, Shaped, Early, Killing, Looking, Signalling, tree
  <2>6. CASE run' = [run EXCEPT !.pc = "finish", !.answer = "error", !.error = TRUE]
    BY <2>1, <2>2, <2>6 DEF Typed, Shaped, Early, Killing, Looking, Signalling, tree
  <2> QED BY <2>3, <2>5, <2>6
<1>34. CASE Cancel
  BY <1>34 DEF Cancel, Guarded, Typed, Shaped, Early, Killing, Looking, Signalling, tree
<1>35. CASE TalkSpawn
  <2>1. proc' \in [Procs -> Process]
    <3> DEFINE new == [st |-> "live", start |-> 1, parent |-> "agent", group |-> TRUE,
                       priv |-> run.job.priv, in |-> TRUE, out |-> TRUE,
                       old |-> FALSE]
    <3>1. new \in Process
      BY DEF Typed, Shaped, Process, States, Jobs
    <3>2. proc' = [proc EXCEPT ![Root] = new]
      BY <1>35 DEF TalkSpawn
    <3> HIDE DEF new
    <3> QED BY <3>1, <3>2, RootAssumption DEF Typed
  <2> QED BY <1>35, <2>1 DEF TalkSpawn, Typed, Shaped, Early, Killing, Looking, Signalling
<1>36. CASE Spawn
  <2>1. proc' \in [Procs -> Process]
    <3> DEFINE new == [st |-> "live", start |-> 1, parent |-> "agent", group |-> TRUE,
                       priv |-> run.job.priv, in |-> run.job.input # "none", out |-> TRUE,
                       old |-> FALSE]
    <3>1. new \in Process
      BY DEF Typed, Shaped, Process, States, Jobs
    <3>2. proc' = [proc EXCEPT ![Root] = new]
      BY <1>36 DEF Spawn
    <3> HIDE DEF new
    <3> QED BY <3>1, <3>2, RootAssumption DEF Typed
  <2> QED BY <1>36, <2>1 DEF Spawn, Typed, Shaped, Early, Killing, Looking, Signalling
<1>37. CASE Read
  BY <1>37 DEF Read, Typed, Shaped, Early, Killing, Looking, Signalling, tree
<1>38. CASE Reap
  <2>1. proc' \in [Procs -> Process]
    BY <1>38, AgesStep DEF Reap, Typed, Ages, RunAct, Run, Spawn, TalkSpawn, StartLook
  <2> QED BY <1>38, <2>1 DEF Reap, Typed, Shaped, Early, Killing, Looking, Signalling
<1>39. CASE Kernel
  <2>1. PICK p \in Procs, q \in Procs, late \in BOOLEAN : Changes(p, q, late)
    BY <1>39, KernelMoves
  <2>2. run' = run
    BY <1>39 DEF Kernel
  <2>4. run.pc \notin Early
    BY <1>39, KernelLate
  <2>3. UNCHANGED <<pipe, written>> \/ (pipe' = pipe + 1 /\ written' = written + 1)
    BY <2>1 DEF Changes, Redirect, LeaveGroup, Gain, Fork, Write, Exit, Reuse
  <2>5. pipe' \in Nat /\ run.captured + pipe' = written'
    BY <2>3 DEF Typed
  <2>6. proc' \in [Procs -> Process]
    BY <2>1, KernelAges DEF Typed, Ages
  <2> QED BY <2>2, <2>4, <2>5, <2>6 DEF Typed, Shaped
<1>40. CASE Consuming
  BY <1>40 DEF Consuming, Consume, Typed, Shaped, Early, Killing, Looking, Signalling, tree
<1> QED BY Acts, <1>1, <1>2, <1>3, <1>4, <1>5, <1>6, <1>7, <1>8, <1>9, <1>10, <1>11,
    <1>12, <1>13, <1>14, <1>15, <1>16, <1>17, <1>18, <1>19, <1>20, <1>21, <1>22,
    <1>23, <1>24, <1>25, <1>26, <1>27, <1>28, <1>29, <1>30, <1>31, <1>32, <1>33,
    <1>34, <1>35, <1>36, <1>37, <1>38, <1>39, <1>40

LEMMA AllReadStep ==
  ASSUME Typed, Kin, AllRead, RunAct
  PROVE  AllRead'
<1>0. Spawn \/ TalkSpawn \/ StartLook \/ (Holders("out") = {} => Holders("out")' = {})
  BY AgesStep DEF Ages
<1>1. CASE ShellStarts
  <2>0. Holders("out")' = Holders("out")
    BY <1>1 DEF ShellStarts, tree, Holders, Live
  <2> QED BY <1>1, <2>0
      DEF ShellStarts, Typed, Shaped, Early, Killing, Looking, Signalling, Ended, Mine, AllRead, tree
<1>2. CASE Stage
  <2>0. Holders("out")' = Holders("out")
    BY <1>2 DEF Stage, tree, Holders, Live
  <2> QED BY <1>2, <2>0
      DEF Stage, Typed, Shaped, Early, Killing, Looking, Signalling, Ended, Mine, AllRead, tree
<1>3. CASE StageFails
  <2>0. Holders("out")' = Holders("out")
    BY <1>3 DEF StageFails, tree, Holders, Live
  <2> QED BY <1>3, <2>0
      DEF StageFails, Typed, Shaped, Early, Killing, Looking, Signalling, Ended, Mine, AllRead, tree
<1>4. CASE ShellEnds
  <2>0. Holders("out")' = Holders("out")
    BY <1>4 DEF ShellEnds, tree, Holders, Live
  <2> QED BY <1>4, <2>0
      DEF ShellEnds, Typed, Shaped, Early, Killing, Looking, Signalling, Ended, Mine, AllRead, tree
<1>5. CASE CleanUp
  <2>0. Holders("out")' = Holders("out")
    BY <1>5 DEF CleanUp, tree, Holders, Live
  <2>1. run.pc = "finish" /\ UNCHANGED tree
    BY <1>5 DEF CleanUp
  <2>2. CASE run' = [run EXCEPT !.pc = "done", !.workdir = "removed"]
    BY <2>0, <2>1, <2>2 DEF Typed, Shaped, Early, Killing, Looking, Signalling, Ended, Mine, AllRead, tree
  <2>3. CASE run' = [run EXCEPT !.pc = "done", !.told = TRUE]
    BY <2>0, <2>1, <2>3 DEF Typed, Shaped, Early, Killing, Looking, Signalling, Ended, Mine, AllRead, tree
  <2> QED BY <1>5, <2>2, <2>3 DEF CleanUp
<1>6. CASE Keep
  <2>0. Holders("out")' = Holders("out")
    BY <1>6 DEF Keep, tree, Holders, Live
  <2> QED BY <1>6, <2>0
      DEF Keep, Typed, Shaped, Early, Killing, Looking, Signalling, Ended, Mine, AllRead, tree
<1>7. CASE Unwind
  <2>0. Holders("out") = {} => Holders("out")' = {}
    BY <1>7, <1>0 DEF Unwind, Spawn, TalkSpawn, StartLook
  <2>1. \E left, end : /\ run' = [run EXCEPT !.pc = end, !.armed = FALSE, !.workdir = left]
                       /\ end \in {"done", "dropped"}
    BY <1>7 DEF Unwind
  <2> QED BY <1>7, <2>0, <2>1
      DEF Unwind, Typed, Shaped, Early, Killing, Looking, Signalling, Ended, Mine, AllRead, tree
<1>8. CASE TalkEnds
  <2>0. Holders("out")' = Holders("out")
    BY <1>8 DEF TalkEnds, tree, Holders, Live
  <2> QED BY <1>8, <2>0
      DEF TalkEnds, Typed, Shaped, Early, Killing, Looking, Signalling, Ended, Mine, AllRead, tree
<1>9. CASE Stopped
  <2>0. Holders("out")' = Holders("out")
    BY <1>9 DEF Stopped, tree, Holders, Live
  <2> QED BY <1>9, <2>0
      DEF Stopped, Typed, Shaped, Early, Killing, Looking, Signalling, Ended, Mine, AllRead, tree
<1>10. CASE Buried
  <2>0. Holders("out") = {} => Holders("out")' = {}
    BY <1>10, <1>0 DEF Buried, Spawn, TalkSpawn, StartLook
  <2>1. \E e : run' = [run EXCEPT !.pc = "finish", !.error = e]
    BY <1>10 DEF Buried
  <2> QED BY <1>10, <2>0, <2>1
      DEF Buried, Typed, Shaped, Early, Killing, Looking, Signalling, Ended, Mine, AllRead, tree
<1>11. CASE SpawnFails
  <2>0. Holders("out")' = Holders("out")
    BY <1>11 DEF SpawnFails, tree, Holders, Live
  <2> QED BY <1>11, <2>0
      DEF SpawnFails, Typed, Shaped, Early, Killing, Looking, Signalling, Ended, Mine, AllRead, tree
<1>12. CASE ReaderEnds
  <2>0. Holders("out")' = Holders("out")
    BY <1>12 DEF ReaderEnds, tree, Holders, Live
  <2> QED BY <1>12, <2>0
      DEF ReaderEnds, Typed, Shaped, Early, Killing, Looking, Signalling, Ended, Mine, AllRead, tree
<1>13. CASE ReadFails
  <2>0. Holders("out")' = Holders("out")
    BY <1>13 DEF ReadFails, tree, Holders, Live
  <2> QED BY <1>13, <2>0
      DEF ReadFails, Typed, Shaped, Early, Killing, Looking, Signalling, Ended, Mine, AllRead, tree
<1>14. CASE Feed
  <2>0. Holders("out")' = Holders("out")
    BY <1>14 DEF Feed, tree, Holders, Live
  <2> QED BY <1>14, <2>0
      DEF Feed, Typed, Shaped, Early, Killing, Looking, Signalling, Ended, Mine, AllRead, tree
<1>15. CASE Complete
  <2>0. Holders("out")' = Holders("out")
    BY <1>15 DEF Complete, tree, Holders, Live
  <2>1. run.pc = "wait" /\ run.reader # "open" /\ UNCHANGED tree
    BY <1>15 DEF Complete, Drained
  <2>2. \/ /\ run.reader # "failed"
           /\ run' = [run EXCEPT !.pc = "feed", !.why = "completed", !.armed = FALSE]
        \/ run' = [run EXCEPT !.pc = "kill", !.why = "capture"]
    BY <1>15 DEF Complete, Drained
  <2>3. CASE /\ run.reader # "failed"
             /\ run' = [run EXCEPT !.pc = "feed", !.why = "completed", !.armed = FALSE]
    BY <2>1, <2>0, <2>3 DEF Typed, Shaped, Early, Killing, Looking, Signalling, Ended, Mine, AllRead, tree
  <2>4. CASE run' = [run EXCEPT !.pc = "kill", !.why = "capture"]
    BY <2>1, <2>0, <2>4 DEF Typed, Shaped, Early, Killing, Looking, Signalling, Ended, Mine, AllRead, tree
  <2> QED BY <2>2, <2>3, <2>4
<1>16. CASE Deadline
  <2>0. Holders("out")' = Holders("out")
    BY <1>16 DEF Deadline, tree, Holders, Live
  <2> QED BY <1>16, <2>0
      DEF Deadline, Drained, Reaped, Typed, Shaped, Early, Killing, Looking, Signalling, Ended, Mine,
      AllRead, tree
<1>17. CASE StartLook
  <2>0. Holders("out")' = Holders("out")
    <3>1. \A p \in Procs : proc'[p] = [proc[p] EXCEPT !.old = p \in Live] /\ proc[p] \in Process
      BY <1>17 DEF StartLook, Typed
    <3>2. \A p \in Procs : proc'[p].st = proc[p].st /\ proc'[p].out = proc[p].out
      BY <3>1 DEF Process
    <3> QED BY <3>2 DEF Holders, Live
  <2> QED BY <1>17, <2>0
      DEF StartLook, Typed, Shaped, Early, Killing, Looking, Signalling, Ended, Mine, AllRead, tree
<1>18. CASE Listing
  <2>0. Holders("out") = {} => Holders("out")' = {}
    BY <1>18, <1>0 DEF Listing, ListChildren, Spawn, TalkSpawn, StartLook
  <2>1. run'.pc \in Killing /\ run.pc \in Killing /\ pipe' = pipe
        /\ run' = [run EXCEPT !.pc = run'.pc, !.queue = run'.queue, !.found = run'.found,
                     !.seen = run'.seen, !.snap = run'.snap, !.rest = run'.rest, !.aim = run'.aim,
                     !.error = run'.error]
    BY <1>18 DEF Listing, ListChildren, Typed, Shaped, Killing, Looking, Signalling, tree
  <2> QED BY <2>0, <2>1
      DEF Typed, Shaped, Early, Killing, Looking, Signalling, Ended, Mine, AllRead, tree
<1>19. CASE Identifying
  <2>0. Holders("out") = {} => Holders("out")' = {}
    BY <1>19, <1>0 DEF Identifying, Identify, Spawn, TalkSpawn, StartLook
  <2>1. run'.pc \in Killing /\ run.pc \in Killing /\ pipe' = pipe
        /\ run' = [run EXCEPT !.pc = run'.pc, !.queue = run'.queue, !.found = run'.found,
                     !.seen = run'.seen, !.snap = run'.snap, !.rest = run'.rest, !.aim = run'.aim,
                     !.error = run'.error]
    BY <1>19 DEF Identifying, Identify, Typed, Shaped, Killing, Looking, Signalling, tree
  <2> QED BY <2>0, <2>1
      DEF Typed, Shaped, Early, Killing, Looking, Signalling, Ended, Mine, AllRead, tree
<1>20. CASE LookEnds
  <2>0. Holders("out") = {} => Holders("out")' = {}
    BY <1>20, <1>0 DEF LookEnds, Spawn, TalkSpawn, StartLook
  <2>1. run'.pc \in Killing /\ run.pc \in Killing /\ pipe' = pipe
        /\ run' = [run EXCEPT !.pc = run'.pc, !.queue = run'.queue, !.found = run'.found,
                     !.seen = run'.seen, !.snap = run'.snap, !.rest = run'.rest, !.aim = run'.aim,
                     !.error = run'.error]
    BY <1>20 DEF LookEnds, Typed, Shaped, Killing, Looking, Signalling, tree
  <2> QED BY <2>0, <2>1
      DEF Typed, Shaped, Early, Killing, Looking, Signalling, Ended, Mine, AllRead, tree
<1>21. CASE SudoKillGroup
  <2>0. Holders("out") = {} => Holders("out")' = {}
    BY <1>21, <1>0 DEF SudoKillGroup, Spawn, TalkSpawn, StartLook
  <2>1. run'.pc \in Killing /\ run.pc \in Killing /\ pipe' = pipe
        /\ run' = [run EXCEPT !.pc = run'.pc, !.queue = run'.queue, !.found = run'.found,
                     !.seen = run'.seen, !.snap = run'.snap, !.rest = run'.rest, !.aim = run'.aim,
                     !.error = run'.error]
    BY <1>21 DEF SudoKillGroup, Typed, Shaped, Killing, Looking, Signalling, tree
  <2> QED BY <2>0, <2>1
      DEF Typed, Shaped, Early, Killing, Looking, Signalling, Ended, Mine, AllRead, tree
<1>22. CASE KillGroup
  <2>0. Holders("out") = {} => Holders("out")' = {}
    BY <1>22, <1>0 DEF KillGroup, Spawn, TalkSpawn, StartLook
  <2>2. run.pc = "kill_group" /\ UNCHANGED <<pipe, written>>
    BY <1>22 DEF KillGroup
  <2>3. PICK e : \/ run' = [run EXCEPT !.pc = "filter", !.error = e]
                 \/ run' = [run EXCEPT !.pc = "rest", !.rest = run.snap, !.error = e]
    BY <1>22 DEF KillGroup
  <2> QED BY <2>0, <2>2, <2>3
      DEF Typed, Shaped, Early, Killing, Looking, Signalling, Ended, Mine, AllRead, tree
<1>23. CASE Filter
  <2>0. Holders("out") = {} => Holders("out")' = {}
    BY <1>23, <1>0 DEF Filter, Spawn, TalkSpawn, StartLook
  <2>1. run'.pc \in Killing /\ run.pc \in Killing /\ pipe' = pipe
        /\ run' = [run EXCEPT !.pc = run'.pc, !.queue = run'.queue, !.found = run'.found,
                     !.seen = run'.seen, !.snap = run'.snap, !.rest = run'.rest, !.aim = run'.aim,
                     !.error = run'.error]
    BY <1>23 DEF Filter, Typed, Shaped, Killing, Looking, Signalling, tree
  <2> QED BY <2>0, <2>1
      DEF Typed, Shaped, Early, Killing, Looking, Signalling, Ended, Mine, AllRead, tree
<1>24. CASE SudoKillRest
  <2>0. Holders("out") = {} => Holders("out")' = {}
    BY <1>24, <1>0 DEF SudoKillRest, Spawn, TalkSpawn, StartLook
  <2>1. run'.pc \in Killing /\ run.pc \in Killing /\ pipe' = pipe
        /\ run' = [run EXCEPT !.pc = run'.pc, !.queue = run'.queue, !.found = run'.found,
                     !.seen = run'.seen, !.snap = run'.snap, !.rest = run'.rest, !.aim = run'.aim,
                     !.error = run'.error]
    BY <1>24 DEF SudoKillRest, Typed, Shaped, Killing, Looking, Signalling, tree
  <2> QED BY <2>0, <2>1
      DEF Typed, Shaped, Early, Killing, Looking, Signalling, Ended, Mine, AllRead, tree
<1>25. CASE Checking
  <2>0. Holders("out") = {} => Holders("out")' = {}
    BY <1>25, <1>0 DEF Checking, CheckOne, Spawn, TalkSpawn, StartLook
  <2>1. run'.pc \in Killing /\ run.pc \in Killing /\ pipe' = pipe
        /\ run' = [run EXCEPT !.pc = run'.pc, !.queue = run'.queue, !.found = run'.found,
                     !.seen = run'.seen, !.snap = run'.snap, !.rest = run'.rest, !.aim = run'.aim,
                     !.error = run'.error]
    BY <1>25 DEF Checking, CheckOne, Typed, Shaped, Killing, Looking, Signalling, tree
  <2> QED BY <2>0, <2>1
      DEF Typed, Shaped, Early, Killing, Looking, Signalling, Ended, Mine, AllRead, tree
<1>26. CASE Signaling
  <2>0. Holders("out") = {} => Holders("out")' = {}
    BY <1>26, <1>0 DEF Signaling, KillOne, Spawn, TalkSpawn, StartLook
  <2>1. run'.pc \in Killing /\ run.pc \in Killing /\ pipe' = pipe
        /\ run' = [run EXCEPT !.pc = run'.pc, !.queue = run'.queue, !.found = run'.found,
                     !.seen = run'.seen, !.snap = run'.snap, !.rest = run'.rest, !.aim = run'.aim,
                     !.error = run'.error]
    BY <1>26 DEF Signaling, KillOne, Typed, Shaped, Killing, Looking, Signalling, tree
  <2> QED BY <2>0, <2>1
      DEF Typed, Shaped, Early, Killing, Looking, Signalling, Ended, Mine, AllRead, tree
<1>27. CASE RestEnds
  <2>0. Holders("out") = {} => Holders("out")' = {}
    BY <1>27, <1>0 DEF RestEnds, Spawn, TalkSpawn, StartLook
  <2>1. run'.pc \in Killing /\ run.pc \in Killing /\ pipe' = pipe
        /\ run' = [run EXCEPT !.pc = run'.pc, !.queue = run'.queue, !.found = run'.found,
                     !.seen = run'.seen, !.snap = run'.snap, !.rest = run'.rest, !.aim = run'.aim,
                     !.error = run'.error]
    BY <1>27 DEF RestEnds, Typed, Shaped, Killing, Looking, Signalling, tree
  <2> QED BY <2>0, <2>1
      DEF Typed, Shaped, Early, Killing, Looking, Signalling, Ended, Mine, AllRead, tree
<1>28. CASE Killed
  <2>0. Holders("out")' = Holders("out")
    BY <1>28 DEF Killed, tree, Holders, Live
  <2>1. /\ AfterKill \in {"unwind", "bury", "feed"}
        /\ run.why = "cancelled" => AfterKill = "unwind"
    BY DEF AfterKill
  <2> QED BY <1>28, <2>0, <2>1
      DEF Killed, Typed, Shaped, Early, Killing, Looking, Signalling, Ended, Mine, AllRead, tree
<1>29. CASE AwaitFeed
  <2>0. Holders("out")' = Holders("out")
    BY <1>29 DEF AwaitFeed, tree, Holders, Live
  <2>1. run.pc = "feed" /\ UNCHANGED tree
    BY <1>29 DEF AwaitFeed, Typed
  <2>2. \/ \E answer \in {"error", "completed"} :
            run.why = "completed" /\ run' = [run EXCEPT !.pc = "finish", !.answer = answer]
        \/ run' = [run EXCEPT !.pc = "drain"]
        \/ run' = [run EXCEPT !.pc = "reap"]
    BY <1>29 DEF AwaitFeed, Typed
  <2>3. CASE \E answer \in {"error", "completed"} :
                run.why = "completed" /\ run' = [run EXCEPT !.pc = "finish", !.answer = answer]
    BY <2>1, <2>0, <2>3 DEF Typed, Shaped, Early, Killing, Looking, Signalling, Ended, Mine, AllRead, tree
  <2>4. CASE run' = [run EXCEPT !.pc = "drain"]
    BY <2>1, <2>0, <2>4 DEF Typed, Shaped, Early, Killing, Looking, Signalling, Ended, Mine, AllRead, tree
  <2>5. CASE run' = [run EXCEPT !.pc = "reap"]
    BY <2>1, <2>0, <2>5 DEF Typed, Shaped, Early, Killing, Looking, Signalling, Ended, Mine, AllRead, tree
  <2> QED BY <2>2, <2>3, <2>4, <2>5
<1>30. CASE DrainPolledTwice
  <2>0. Holders("out")' = Holders("out")
    BY <1>30 DEF DrainPolledTwice, tree, Holders, Live
  <2> QED BY <1>30, <2>0
      DEF DrainPolledTwice, Panic, Typed, Shaped, Early, Killing, Looking, Signalling, Ended, Mine,
      AllRead, tree
<1>31. CASE DrainEnds
  <2>0. Holders("out")' = Holders("out")
    BY <1>31 DEF DrainEnds, tree, Holders, Live
  <2>1. run.pc = "drain" /\ run.reader # "open" /\ UNCHANGED tree
    BY <1>31 DEF DrainEnds, Drained
  <2>2. \/ Panic
        \/ run.reader # "failed" /\ run' = [run EXCEPT !.pc = "finish", !.answer = "timed_out"]
    BY <1>31 DEF DrainEnds, Drained
  <2>3. CASE Panic
    BY <2>1, <2>0, <2>3 DEF Panic, Typed, Shaped, Early, Killing, Looking, Signalling, Ended, Mine, AllRead,
         tree
  <2>4. CASE run.reader # "failed" /\ run' = [run EXCEPT !.pc = "finish", !.answer = "timed_out"]
    BY <2>1, <2>0, <2>4 DEF Typed, Shaped, Early, Killing, Looking, Signalling, Ended, Mine, AllRead, tree
  <2> QED BY <2>2, <2>3, <2>4
<1>32. CASE DrainGivesUp
  <2>0. Holders("out") = {} => Holders("out")' = {}
    BY <1>32, <1>0 DEF DrainGivesUp, Grace, Spawn, TalkSpawn, StartLook
  <2>1. run.pc = "drain" /\ UNCHANGED <<pipe, written>>
    BY <1>32 DEF DrainGivesUp, Grace
  <2>2. \/ Panic
        \/ run' = [run EXCEPT !.pc = "finish", !.answer = "timed_out", !.left = TRUE,
                               !.reader = "aborted"]
    BY <1>32 DEF DrainGivesUp, Grace
  <2>3. CASE Panic
    BY <2>1, <2>0, <2>3 DEF Panic, Typed, Shaped, Early, Killing, Looking, Signalling, Ended, Mine, AllRead, tree
  <2>4. CASE run' = [run EXCEPT !.pc = "finish", !.answer = "timed_out", !.left = TRUE,
                                 !.reader = "aborted"]
    BY <2>1, <2>0, <2>4 DEF Typed, Shaped, Early, Killing, Looking, Signalling, Ended, Mine, AllRead, tree
  <2> QED BY <2>2, <2>3, <2>4
<1>33. CASE ReapEnds
  <2>0. Holders("out") = {} => Holders("out")' = {}
    BY <1>33, <1>0 DEF ReapEnds, Spawn, TalkSpawn, StartLook
  <2> QED BY <1>33, <2>0
      DEF ReapEnds, Typed, Shaped, Early, Killing, Looking, Signalling, Ended, Mine, AllRead, tree
<1>34. CASE Cancel
  <2>0. Holders("out")' = Holders("out")
    BY <1>34 DEF Cancel, tree, Holders, Live
  <2> QED BY <1>34, <2>0
      DEF Cancel, Guarded, Typed, Shaped, Early, Killing, Looking, Signalling, Ended, Mine, AllRead, tree
<1>35. CASE TalkSpawn
  BY <1>35 DEF TalkSpawn, Typed, Shaped, Early, Killing, Looking, Signalling, Ended, Mine, AllRead, tree
<1>36. CASE Spawn
  BY <1>36 DEF Spawn, Typed, Shaped, Early, Killing, Looking, Signalling, Ended, Mine, AllRead, tree
<1>37. CASE Read
  <2>0. Holders("out")' = Holders("out")
    BY <1>37 DEF Read, tree, Holders, Live
  <2> QED BY <1>37, <2>0
      DEF Read, Typed, Shaped, Early, Killing, Looking, Signalling, Ended, Mine, AllRead, tree
<1>38. CASE Reap
  <2>0. Holders("out") = {} => Holders("out")' = {}
    BY <1>38, <1>0 DEF Reap, Spawn, TalkSpawn, StartLook
  <2> QED BY <1>38, <2>0
      DEF Reap, Typed, Shaped, Early, Killing, Looking, Signalling, Ended, Mine, AllRead, tree
<1>39. CASE Kernel
  <2>1. PICK p \in Procs, q \in Procs, late \in BOOLEAN : Changes(p, q, late)
    BY <1>39, KernelMoves
  <2>2. run' = run
    BY <1>39 DEF Kernel
  <2>3. Holders("out") = {} => Holders("out")' = {}
    BY <2>1, KernelAges DEF Typed, Ages
  <2>4. pipe' = pipe \/ (pipe' = pipe + 1 /\ Holders("out") # {})
    BY <2>1 DEF Changes, Redirect, LeaveGroup, Gain, Fork, Write, Exit, Reuse
  <2> QED BY <2>2, <2>3, <2>4 DEF AllRead, Mine
<1>40. CASE Consuming
  <2>0. Holders("out")' = Holders("out")
    BY <1>40 DEF Consuming, Consume, tree, Holders, Live
  <2> QED BY <1>40, <2>0
      DEF Consuming, Consume, Typed, Shaped, Early, Killing, Looking, Signalling, Ended, Mine, AllRead,
      tree
<1> QED BY Acts, <1>1, <1>2, <1>3, <1>4, <1>5, <1>6, <1>7, <1>8, <1>9, <1>10, <1>11,
    <1>12, <1>13, <1>14, <1>15, <1>16, <1>17, <1>18, <1>19, <1>20, <1>21, <1>22,
    <1>23, <1>24, <1>25, <1>26, <1>27, <1>28, <1>29, <1>30, <1>31, <1>32, <1>33,
    <1>34, <1>35, <1>36, <1>37, <1>38, <1>39, <1>40

(* What an act is to a kill: one of its own, one that ends it or comes     *)
(* before it, or one that leaves what it knows alone.                      *)
Kept ==
    /\ run'.pc = run.pc /\ run'.queue = run.queue /\ run'.found = run.found
    /\ run'.seen = run.seen /\ run'.snap = run.snap /\ run'.rest = run.rest
    /\ run'.aim = run.aim /\ run'.error = run.error

LEMMA KillMoves ==
  ASSUME Typed, Kin, RunAct
  PROVE  \/ StartLook \/ Listing \/ Identifying \/ LookEnds \/ SudoKillGroup \/ KillGroup
         \/ Filter \/ SudoKillRest \/ Checking \/ Signaling \/ RestEnds
         \/ run'.pc \notin Looking \cup Signalling
         \/ Kept /\ Ages
<1>1. CASE ShellStarts \/ Stage \/ StageFails \/ ShellEnds \/ CleanUp \/ Keep \/ SpawnFails
  <2>1. run'.pc \in {"spawn", "finish", "done"}
    BY <1>1 DEF ShellStarts, Stage, StageFails, ShellEnds, CleanUp, Keep, SpawnFails, Typed, Shaped
  <2> QED BY <2>1 DEF Looking, Signalling
<1>2. CASE TalkEnds \/ Stopped \/ Buried \/ Deadline \/ Complete
  <2>1. run'.pc \in {"stop", "kill", "finish", "feed"}
    BY <1>2 DEF TalkEnds, Stopped, Buried, Deadline, Complete, Typed, Shaped
  <2> QED BY <2>1 DEF Looking, Signalling
<1>3. CASE Unwind
  <2>1. run'.pc \in {"done", "dropped"}
    BY <1>3 DEF Unwind, Typed, Shaped
  <2> QED BY <2>1 DEF Looking, Signalling
<1>4. CASE Killed
  <2>1. AfterKill \in {"unwind", "bury", "feed"} /\ run'.pc = AfterKill
    BY <1>4 DEF AfterKill, Killed, Typed, Shaped
  <2> QED BY <2>1 DEF Looking, Signalling
<1>5. CASE AwaitFeed
  <2>1. run'.pc \in {"finish", "drain", "reap"}
    BY <1>5 DEF AwaitFeed, Typed, Shaped
  <2> QED BY <2>1 DEF Looking, Signalling
<1>6. CASE DrainPolledTwice \/ DrainEnds \/ DrainGivesUp \/ ReapEnds
  <2>1. run'.pc \in {"finish", "unwind"}
    BY <1>6 DEF DrainPolledTwice, DrainEnds, DrainGivesUp, ReapEnds, Panic, Typed, Shaped
  <2> QED BY <2>1 DEF Looking, Signalling
<1>7. CASE Cancel \/ Spawn \/ TalkSpawn
  <2>1. run'.pc \in {"kill", "unwind", "wait", "talk"}
    BY <1>7 DEF Cancel, Spawn, TalkSpawn, Guarded, Typed, Shaped
  <2> QED BY <2>1 DEF Looking, Signalling
<1>8. CASE ReaderEnds \/ ReadFails \/ Feed \/ Read \/ Reap \/ Kernel \/ Consuming
  <2>1. Kept
    BY <1>8 DEF Kept, ReaderEnds, ReadFails, Feed, Read, Reap, Kernel, Consuming, Consume, Typed, Shaped
  <2>2. CASE Ages
    BY <2>1, <2>2
  <2>3. CASE Spawn \/ TalkSpawn
    BY <1>7, <2>3
  <2>4. CASE StartLook
    BY <2>4
  <2> QED BY <2>2, <2>3, <2>4, AgesStep
<1> QED BY Acts, <1>1, <1>2, <1>3, <1>4, <1>5, <1>6, <1>7, <1>8

(* The look begins with all that live at that time.                        *)
LEMMA LookBegins ==
  ASSUME Typed, Kin, StartLook
  PROVE  /\ proc' \in [Procs -> Process] /\ Kin' /\ Live' = Live
         /\ \A q \in Procs : proc'[q].st = proc[q].st
         /\ run'.pc = "look" /\ run'.seen = {Root} /\ run'.queue = {Root}
         /\ run'.found = {} /\ run'.snap = {} /\ run'.rest = {} /\ run'.aim = {}
<1>1. \A q \in Procs : proc'[q] = [proc[q] EXCEPT !.old = q \in Live] /\ proc[q] \in Process
  BY DEF StartLook, Typed
<1>2. \A q \in Procs : /\ proc'[q] \in Process /\ proc'[q].st = proc[q].st
                       /\ proc'[q].parent = proc[q].parent /\ proc'[q].old = (q \in Live)
  <2> SUFFICES ASSUME NEW q \in Procs
               PROVE  /\ proc'[q] \in Process /\ proc'[q].st = proc[q].st
                      /\ proc'[q].parent = proc[q].parent /\ proc'[q].old = (q \in Live)
    OBVIOUS
  <2>1. (q \in Live) \in BOOLEAN
    OBVIOUS
  <2> QED BY <1>1, <2>1 DEF Process
<1>3. proc' \in [Procs -> Process]
  <2>1. proc' = [q \in Procs |-> proc'[q]]
    BY DEF StartLook
  <2> QED BY <1>2, <2>1
<1>4. Live' = Live
  BY <1>2 DEF Live
<1>5. Kin'
  <2> SUFFICES ASSUME NEW q \in Live', (proc[q].parent \in Procs)'
               PROVE  (proc[q].parent \in Live /\ (proc[q].old => proc[proc[q].parent].old))'
    BY DEF Kin
  <2>1. q \in Procs /\ q \in Live /\ proc'[q].parent = proc[q].parent
    BY <1>2, <1>4 DEF Live
  <2>2. proc[q].parent \in Live /\ proc[q].parent \in Procs
    BY <2>1 DEF Kin
  <2>3. proc'[proc[q].parent].old
    BY <1>2, <2>2
  <2> QED BY <1>4, <2>1, <2>2, <2>3
<1> QED BY <1>2, <1>3, <1>4, <1>5 DEF StartLook, Typed, Shaped

LEMMA KinStep ==
  ASSUME Typed, Kin, RunAct PROVE Kin'
<1>1. CASE Spawn \/ TalkSpawn
  <2>1. \A q \in Procs : q # Root => proc'[q] = proc[q]
    BY <1>1 DEF Spawn, TalkSpawn, Typed
  <2>2. \A q \in Procs : proc[q].st = "none"
    BY <1>1 DEF Spawn, TalkSpawn, Typed, Early, Nothing
  <2>3. \A q \in Live' : q = Root
    BY <2>1, <2>2 DEF Live
  <2>4. proc'[Root].parent = "agent"
    BY <1>1, RootAssumption DEF Spawn, TalkSpawn, Typed
  <2> QED BY <2>3, <2>4, RootAssumption DEF Kin
<1> QED BY <1>1, AgesStep, LookBegins DEF Ages

(* Who lives after a step with an identity of the snapshot lived before it *)
(* with the same.                                                          *)
LEMMA IdentityStays ==
  ASSUME Typed, Ages, NEW T \in SUBSET Identities,
         \A id \in T : id[2] <= proc[id[1]].start
  PROVE  /\ \A id \in T : id[2] <= proc'[id[1]].start
         /\ \A q \in Live' : Id(q)' \in T => q \in Live /\ Id(q)' = Id(q)
<1>0. \A q \in Procs : proc[q].start \in Nat /\ proc'[q].start \in Nat
                       /\ proc'[q].start >= proc[q].start
  BY DEF Typed, Ages, Process
<1>1. \A id \in T : id[2] <= proc'[id[1]].start
  <2> SUFFICES ASSUME NEW id \in T PROVE id[2] <= proc'[id[1]].start
    OBVIOUS
  <2>1. id[1] \in Procs /\ id[2] \in Nat
    BY DEF Identities
  <2> QED BY <1>0, <2>1
<1>2. ASSUME NEW q \in Live', Id(q)' \in T
      PROVE  q \in Live /\ Id(q)' = Id(q)
  <2>1. q \in Procs /\ Id(q)' = <<q, proc'[q].start>>
    BY DEF Live, Id
  <2>2. proc'[q].start <= proc[q].start
    BY <1>2, <2>1
  <2>3. ~(proc'[q].start > proc[q].start)
    BY <1>0, <2>1, <2>2
  <2>4. q \in Live /\ proc'[q].start = proc[q].start
    BY <2>3 DEF Ages
  <2> QED BY <2>1, <2>4 DEF Id
<1> QED BY <1>1, <1>2

LEMMA MetKept ==
  ASSUME Typed, Kin, Met, Ages, run.pc \in Looking, run'.pc \in Looking,
         run.pc # "look" => run'.pc # "look", run'.pc # "look" => run.found = {} /\ run.queue = {},
         run'.queue = run.queue, run'.found = run.found, run'.seen = run.seen, run'.snap = run.snap
  PROVE  Met'
<1>1. ASSUME NEW q \in Live', proc'[q].old
      PROVE  /\ q \in Live /\ proc[q].old /\ Id(q)' = Id(q)
             /\ proc'[q].parent \in {proc[q].parent, "init"}
  BY <1>1 DEF Ages, Id
<1>2. "init" \notin run.seen
  BY RootAssumption DEF Typed, Shaped
<1> QED BY <1>1, <1>2 DEF Met

LEMMA MetStep ==
  ASSUME Typed, Kin, Met, RunAct
  PROVE  Met'
<1>1. CASE StartLook
  <2>1. ASSUME NEW q \in Live' PROVE proc'[q].parent \notin run'.seen \ run'.queue
    BY <1>1, LookBegins
  <2> QED BY <1>1, <2>1, LookBegins DEF Met
<1>2. CASE Listing
  <2>1. PICK p \in Procs : ListChildren(p)
    BY <1>2 DEF Listing
  <2>2. /\ proc' = proc /\ run.pc = "look" /\ run'.pc = "look" /\ run.found = {}
        /\ run'.seen = run.seen /\ run'.snap = run.snap /\ run'.queue = run.queue \ {p}
        /\ run'.found = Listed(p) \ run.seen
    BY <2>1 DEF ListChildren, Typed, Shaped, tree
  <2>3. Live' = Live
    BY <2>2 DEF Live
  <2>4. ASSUME NEW q \in Live, proc[q].old, proc[q].parent \in run'.seen \ run'.queue
        PROVE  q \in run'.seen \cup run'.found
    <3>1. CASE proc[q].parent = p
      <4>1. q \in Listed(p)
        BY <3>1 DEF Listed
      <4> QED BY <2>2, <4>1
    <3>2. CASE proc[q].parent # p
      <4>1. proc[q].parent \in run.seen \ run.queue
        BY <2>2, <2>4, <3>2
      <4>2. q \in run.seen \cup run.found
        BY <2>2, <2>4, <4>1 DEF Met, Looking
      <4> QED BY <2>2, <4>2
    <3> QED BY <3>1, <3>2
  <2> QED BY <2>2, <2>3, <2>4 DEF Met, Looking, Id
<1>3. CASE Identifying
  <2>1. PICK p \in Procs : Identify(p)
    BY <1>3 DEF Identifying
  <2>2. /\ proc' = proc /\ run.pc = "look" /\ run'.pc = "look" /\ p \in run.found
        /\ run'.seen = run.seen \cup {p} /\ run'.found = run.found \ {p}
        /\ Exists(p) => /\ run'.snap = run.snap \cup {Id(p)}
                        /\ run'.queue = run.queue \cup {p}
        /\ ~Exists(p) => run'.snap = run.snap /\ run'.queue = run.queue
    BY <2>1 DEF Identify, Typed, Shaped, tree
  <2>3. Live' = Live
    BY <2>2 DEF Live
  <2>4. ASSUME NEW q \in Live, proc[q].old, q \in run'.seen \ {Root}
        PROVE  Id(q) \in run'.snap
    <3>1. CASE q = p
      <4>1. Exists(p)
        BY <3>1 DEF Exists
      <4> QED BY <2>2, <3>1, <4>1
    <3>2. CASE q # p
      <4>1. q \in run.seen \ {Root}
        BY <2>2, <2>4, <3>2
      <4>2. Id(q) \in run.snap
        BY <2>2, <2>4, <4>1 DEF Met, Looking
      <4> QED BY <2>2, <4>2
    <3> QED BY <3>1, <3>2
  <2>5. ASSUME NEW q \in Live, proc[q].old, proc[q].parent \in run'.seen \ run'.queue
        PROVE  q \in run'.seen \cup run'.found
    <3>1. CASE proc[q].parent = p
      <4>1. p \in Live
        BY <3>1 DEF Kin
      <4>2. Exists(p)
        BY <4>1 DEF Exists
      <4> QED BY <2>2, <2>5, <3>1, <4>2
    <3>2. CASE proc[q].parent # p
      <4>1. proc[q].parent \in run.seen \ run.queue
        BY <2>2, <2>5, <3>2
      <4>2. q \in run.seen \cup run.found
        BY <2>2, <2>5, <4>1 DEF Met, Looking
      <4> QED BY <2>2, <4>2
    <3> QED BY <3>1, <3>2
  <2>6. Root \in run'.seen
    BY <2>2 DEF Met, Looking
  <2>7. \A q : Id(q)' = Id(q)
    BY <2>2 DEF Id
  <2> QED BY <2>2, <2>3, <2>4, <2>5, <2>6, <2>7 DEF Met
<1>4. CASE LookEnds
  <2>1. /\ run'.pc \in {"sudo_group", "kill_group"} /\ run.pc = "look" /\ UNCHANGED proc
        /\ run.found = {} /\ run.queue = {} /\ run'.found = run.found
        /\ run'.queue = run.queue /\ run'.seen = run.seen /\ run'.snap = run.snap
    BY <1>4 DEF LookEnds, Typed, Shaped, tree
  <2> QED BY <2>1, MetKept, UnchangedAges DEF Typed, Looking
<1>5. CASE SudoKillGroup
  <2>1. /\ run'.pc \in {"filter", "kill_group"} /\ run.pc = "sudo_group"
        /\ run'.found = run.found
        /\ run'.queue = run.queue /\ run'.seen = run.seen /\ run'.snap = run.snap
    BY <1>5 DEF SudoKillGroup, Typed, Shaped
  <2>2. Ages
    BY <1>5, <2>1, AgesStep DEF RunAct, Run, Spawn, TalkSpawn, StartLook
  <2>3. CASE run'.pc = "kill_group"
    BY <2>1, <2>2, <2>3, MetKept DEF Met, Looking
  <2>4. CASE run'.pc = "filter"
    BY <2>4 DEF Met, Looking
  <2> QED BY <2>1, <2>3, <2>4
<1>6. CASE KillGroup \/ Filter \/ SudoKillRest \/ Checking \/ Signaling \/ RestEnds
  <2>1. run'.pc \in {"filter", "rest", "killed", "sudo_rest"}
    BY <1>6 DEF KillGroup, Filter, SudoKillRest, Checking, CheckOne, Signaling, KillOne,
       RestEnds, Typed, Shaped
  <2> QED BY <2>1 DEF Met, Looking
<1>7. CASE run'.pc \notin Looking \cup Signalling
  BY <1>7 DEF Met
<1>8. CASE Kept /\ Ages
  <2>1. CASE run.pc \in Looking
    BY <1>8, <2>1, MetKept DEF Kept, Met, Looking
  <2>2. CASE run.pc \notin Looking
    BY <1>8, <2>2 DEF Kept, Met
  <2> QED BY <2>1, <2>2
<1> QED BY KillMoves, <1>1, <1>2, <1>3, <1>4, <1>5, <1>6, <1>7, <1>8

(* Nothing of what the snapshot says comes to be by a step of the tree.    *)
LEMMA Alike ==
  ASSUME Typed, Aimed, Ages, run.pc \in Looking \cup Signalling, run'.snap = run.snap
  PROVE  /\ \A id \in run'.snap : id[2] <= proc'[id[1]].start
         /\ \A q \in Live' : Id(q)' \in run'.snap =>
               q \in Live /\ Id(q)' = Id(q) /\ Id(q) \in run.snap
<1>1. run.snap \in SUBSET Identities /\ \A id \in run.snap : id[2] <= proc[id[1]].start
  BY DEF Typed, Shaped, Aimed
<1> QED BY <1>1, IdentityStays

LEMMA AimedStep ==
  ASSUME Typed, Kin, Aimed, RunAct
  PROVE  Aimed'
<1>0. Typed'
  BY TypedStep
<1>1. CASE StartLook
  BY <1>1, LookBegins DEF Aimed
<1>2. CASE Listing
  <2>1. /\ proc' = proc /\ run.pc = "look" /\ run'.pc = "look"
        /\ run'.snap = run.snap /\ run'.aim = run.aim
    BY <1>2 DEF Listing, ListChildren, Typed, Shaped, tree
  <2> QED BY <2>1 DEF Aimed, Looking
<1>3. CASE Identifying
  <2>1. PICK p \in Procs : Identify(p)
    BY <1>3 DEF Identifying
  <2>2. /\ proc' = proc /\ run.pc = "look" /\ run'.pc = "look" /\ run'.aim = run.aim
        /\ run'.snap \in {run.snap, run.snap \cup {Id(p)}}
    BY <2>1 DEF Identify, Typed, Shaped, tree
  <2>3. Id(p)[1] = p /\ Id(p)[2] = proc[p].start /\ proc[p].start \in Nat
    BY DEF Id, Typed, Process
  <2>4. \A id \in run'.snap : id[2] <= proc[id[1]].start
    BY <2>2, <2>3 DEF Aimed, Looking
  <2> QED BY <2>2, <2>4 DEF Aimed, Looking
<1>4. CASE LookEnds
  <2>1. /\ run'.pc \in {"sudo_group", "kill_group"} /\ run.pc = "look" /\ UNCHANGED proc
        /\ run'.snap = run.snap /\ run'.aim = run.aim
    BY <1>4 DEF LookEnds, Typed, Shaped, tree
  <2> QED BY <2>1 DEF Aimed, Looking
<1>5. CASE SudoKillGroup
  <2>1. /\ run'.pc \in {"filter", "kill_group"} /\ run.pc = "sudo_group"
        /\ run'.snap = run.snap /\ run'.aim = run.aim
    BY <1>5 DEF SudoKillGroup, Typed, Shaped
  <2>2. Ages
    BY <1>5, <2>1, AgesStep DEF RunAct, Run, Spawn, TalkSpawn, StartLook
  <2>3. \A id \in run'.snap : id[2] <= proc'[id[1]].start
    BY <2>1, <2>2, Alike DEF Looking
  <2> QED BY <2>1, <2>3 DEF Aimed, Looking
<1>6. CASE KillGroup
  <2>1. /\ run'.pc \in {"filter", "rest"} /\ run.pc = "kill_group"
        /\ run'.snap = run.snap /\ run'.aim = run.aim
        /\ run'.pc = "rest" => run'.rest = run.snap
    BY <1>6 DEF KillGroup, Typed, Shaped
  <2>2. Ages
    BY <1>6, <2>1, AgesStep DEF RunAct, Run, Spawn, TalkSpawn, StartLook
  <2>3. \A id \in run'.snap : id[2] <= proc'[id[1]].start
    BY <2>1, <2>2, Alike DEF Looking
  <2>4. run'.aim = {}
    BY <2>1 DEF Aimed, Looking
  <2> QED BY <2>1, <2>3, <2>4 DEF Aimed
<1>7. CASE Filter
  <2> DEFINE current == {id \in run.snap : IsCurrent(id)}
  <2>1. /\ run.pc = "filter" /\ proc' = proc /\ run'.snap = run.snap
        /\ \/ current = {} /\ run'.pc = "killed"
           \/ run'.pc = "sudo_rest" /\ run'.aim = {id[1] : id \in current}
    BY <1>7 DEF Filter, Typed, Shaped, tree
  <2>2. ASSUME NEW q \in Live, Id(q) \in run.snap
        PROVE  Id(q) \in current /\ Id(q)[1] = q
    BY <2>2 DEF IsCurrent, Exists, Id
  <2>3. Live' = Live /\ \A q : Id(q)' = Id(q)
    BY <2>1 DEF Live, Id
  <2>4. \A id \in run'.snap : id[2] <= proc'[id[1]].start
    BY <2>1 DEF Aimed, Signalling
  <2> HIDE DEF current
  <2> QED BY <2>1, <2>2, <2>3, <2>4 DEF Aimed, Looking
<1>8. CASE SudoKillRest
  <2>1. /\ run.pc = "sudo_rest" /\ run'.snap = run.snap /\ run'.aim = {}
        /\ \/ run'.pc = "killed" /\ Die(run.aim)
           \/ run'.pc = "rest" /\ run'.rest = run.snap
    BY <1>8 DEF SudoKillRest, Typed, Shaped
  <2>2. Ages
    BY <1>8, <2>1, AgesStep DEF RunAct, Run, Spawn, TalkSpawn, StartLook
  <2>3. /\ \A id \in run'.snap : id[2] <= proc'[id[1]].start
        /\ \A q \in Live' : Id(q)' \in run'.snap =>
               q \in Live /\ Id(q)' = Id(q) /\ Id(q) \in run.snap
    BY <2>1, <2>2, Alike DEF Signalling
  <2>4. CASE run'.pc = "killed" /\ Die(run.aim)
    <3>1. run.aim \in SUBSET Procs
      BY DEF Typed, Shaped
    <3>2. \A q \in run.aim : q \notin Live'
      BY <2>4, <3>1, DieAges DEF Typed, Live
    <3>3. \A q \in Live' : Id(q)' \notin run'.snap
      BY <2>1, <2>3, <3>2 DEF Aimed
    <3> QED BY <2>3, <2>4, <3>3 DEF Aimed, Looking
  <2>5. CASE run'.pc = "rest" /\ run'.rest = run.snap
    BY <2>1, <2>3, <2>5 DEF Aimed, Looking
  <2> QED BY <2>1, <2>4, <2>5
<1>9. CASE Checking
  <2>1. PICK id \in run.rest : CheckOne(id)
    BY <1>9 DEF Checking
  <2>2. /\ proc' = proc /\ run.pc = "rest" /\ run'.pc = "rest" /\ run'.snap = run.snap
        /\ run.aim = {} /\ run'.rest = run.rest \ {id} /\ run'.error = run.error
        /\ run'.aim = IF IsCurrent(id) THEN {id[1]} ELSE {}
    BY <2>1 DEF CheckOne, Typed, Shaped, tree
  <2>3. Live' = Live /\ \A q : Id(q)' = Id(q)
    BY <2>2 DEF Live, Id
  <2>4. ASSUME NEW q \in Live, Id(q) \in run.snap
        PROVE  Id(q) \in run'.rest \/ q \in run'.aim \/ run.error
    <3>1. Id(q) \in run.rest \/ run.error
      BY <2>2, <2>4 DEF Aimed
    <3>2. Id(q) = id => IsCurrent(id) /\ id[1] = q
      BY DEF IsCurrent, Exists, Id
    <3> QED BY <2>2, <3>1, <3>2
  <2>5. \A id1 \in run'.snap : id1[2] <= proc'[id1[1]].start
    BY <2>2 DEF Aimed, Signalling
  <2> QED BY <2>2, <2>3, <2>4, <2>5 DEF Aimed, Looking
<1>10. CASE Signaling
  <2>1. PICK p \in run.aim : KillOne(p)
    BY <1>10 DEF Signaling
  <2>2. /\ run.pc = "rest" /\ run'.pc = "rest" /\ run'.snap = run.snap /\ run'.aim = {}
        /\ run'.rest = run.rest /\ Die(Signalled({q \in {p} : Exists(q)}))
        /\ run'.error = (run.error \/ (Exists(p) /\ proc[p].priv))
    BY <2>1 DEF KillOne, Typed, Shaped
  <2>3. Ages
    BY <1>10, <2>2, AgesStep DEF RunAct, Run, Spawn, TalkSpawn, StartLook
  <2>4. /\ \A id \in run'.snap : id[2] <= proc'[id[1]].start
        /\ \A q \in Live' : Id(q)' \in run'.snap =>
               q \in Live /\ Id(q)' = Id(q) /\ Id(q) \in run.snap
    BY <2>2, <2>3, Alike DEF Signalling
  <2>5. ASSUME NEW q \in Live', Id(q)' \in run'.snap
        PROVE  Id(q)' \in run'.rest \/ run'.error
    <3>1. q \in Live /\ Id(q)' = Id(q) /\ (Id(q) \in run.rest \/ q \in run.aim \/ run.error)
      BY <2>2, <2>4, <2>5 DEF Aimed
    <3>2. CASE q \in run.aim
      <4>1. q = p /\ Exists(p)
        BY <2>2, <3>1, <3>2 DEF Aimed, Exists
      <4>2. CASE proc[p].priv
        BY <2>2, <4>1, <4>2
      <4>3. CASE ~proc[p].priv
        <5>1. {x \in {p} : Exists(x)} \in SUBSET Procs /\ p \in Procs
          BY DEF Typed, Shaped
        <5>2. Signalled({x \in {p} : Exists(x)}) \in SUBSET Procs
          BY <5>1 DEF Signalled
        <5>3. p \in Signalled({x \in {p} : Exists(x)})
          BY <4>1, <4>3 DEF Signalled
        <5>4. p \notin Live'
          BY <2>2, <5>1, <5>2, <5>3, DieAges DEF Typed, Live
        <5> QED BY <4>1, <5>4
      <4> QED BY <4>2, <4>3
    <3>3. CASE Id(q) \in run.rest \/ run.error
      BY <2>2, <3>1, <3>3
    <3> QED BY <3>1, <3>2, <3>3
  <2> QED BY <2>2, <2>4, <2>5 DEF Aimed, Looking
<1>11. CASE RestEnds
  <2>1. /\ proc' = proc /\ run.pc = "rest" /\ run'.pc = "killed" /\ run'.snap = run.snap
        /\ run.aim = {} /\ run.rest = {} /\ run'.error = run.error
    BY <1>11 DEF RestEnds, Typed, Shaped, tree
  <2>2. Live' = Live /\ \A q : Id(q)' = Id(q)
    BY <2>1 DEF Live, Id
  <2> QED BY <2>1, <2>2 DEF Aimed, Looking, Signalling
<1>12. CASE run'.pc \notin Looking \cup Signalling
  BY <1>12 DEF Aimed, Signalling
<1>13. CASE Kept /\ Ages /\ run.pc \in Looking \cup Signalling
  <2>1. /\ \A id \in run'.snap : id[2] <= proc'[id[1]].start
        /\ \A q \in Live' : Id(q)' \in run'.snap =>
               q \in Live /\ Id(q)' = Id(q) /\ Id(q) \in run.snap
    BY <1>13, Alike DEF Kept
  <2> QED BY <1>13, <2>1 DEF Kept, Aimed
<1>14. CASE Kept /\ run.pc \notin Looking \cup Signalling
  BY <1>12, <1>14 DEF Kept
<1> QED BY KillMoves, <1>1, <1>2, <1>3, <1>4, <1>5, <1>6, <1>7, <1>8, <1>9, <1>10, <1>11,
    <1>12, <1>13, <1>14

(* While the agent aims at an id, whoever takes it over is a newcomer.     *)
LEMMA Strangers ==
  ASSUME Typed, Kin, RunAct, NEW p \in Procs, proc'[p].st = "stranger",
         Kernel => p \in run.aim
  PROVE  proc[p].st = "stranger" /\ Id(p)' = Id(p)
<1>1. CASE UNCHANGED proc
  BY <1>1 DEF Id
<1>2. CASE Dying
  BY <1>2, DieAges DEF Dying, Typed, Id
<1>3. CASE Spawn \/ TalkSpawn
  <2>1. \A q \in Procs : proc[q].st = "none"
    BY <1>3 DEF Spawn, TalkSpawn, Typed, Early, Nothing
  <2>2. proc' = [proc EXCEPT ![Root] = proc'[Root]] /\ proc'[Root].st = "live"
    BY <1>3, RootAssumption DEF Spawn, TalkSpawn, Typed
  <2> QED BY <2>1, <2>2 DEF Typed
<1>4. CASE StartLook
  <2>1. proc'[p] = [proc[p] EXCEPT !.old = p \in Live] /\ proc[p] \in Process
    BY <1>4 DEF StartLook, Typed
  <2>2. proc'[p].st = proc[p].st /\ proc'[p].start = proc[p].start
    BY <2>1 DEF Process
  <2> QED BY <2>2 DEF Id
<1>5. CASE Reap
  <2>1. proc[Root] \in Process
    BY RootAssumption DEF Typed
  <2>2. proc' = [proc EXCEPT ![Root] = proc'[Root]] /\ proc'[Root].st = "gone"
    BY <1>5, <2>1, RootAssumption DEF Reap, Typed, Process
  <2> QED BY <2>2 DEF Typed, Id
<1>6. CASE Kernel
  <2>0. proc[p] \in Process
    BY DEF Typed
  <2>1. CASE \E q \in Procs : Reuse(q, q \in run.aim)
    <3>1. PICK q \in Procs : Reuse(q, q \in run.aim)
      BY <2>1
    <3>2. PICK leads, parent : proc' = [proc EXCEPT ![q] = [Nothing EXCEPT
             !.st = IF q \in run.aim THEN "newcomer" ELSE "stranger",
             !.start = proc[q].start + 1, !.parent = parent, !.group = leads]]
      BY <3>1 DEF Reuse
    <3> DEFINE new == [Nothing EXCEPT !.st = IF q \in run.aim THEN "newcomer" ELSE "stranger",
             !.start = proc[q].start + 1, !.parent = parent, !.group = leads]
    <3>3. new.st = IF q \in run.aim THEN "newcomer" ELSE "stranger"
      BY DEF Nothing
    <3>4. proc' = [proc EXCEPT ![q] = new]
      BY <3>2
    <3> HIDE DEF new
    <3>5. q # p
      BY <1>6, <3>3, <3>4 DEF Typed
    <3> QED BY <3>4, <3>5 DEF Typed, Id
  <2>2. CASE \E q \in Procs : Exit(q)
    <3>1. PICK q \in Procs : Die({q})
      BY <2>2 DEF Exit
    <3> QED BY <3>1, DieAges DEF Typed, Id
  <2>3. CASE \E q \in Procs : Write(q)
    BY <1>1, <2>3 DEF Write
  <2>4. CASE \E q, r \in Procs : Fork(q, r)
    <3>1. PICK q \in Procs, r \in Procs : Fork(q, r)
      BY <2>4
    <3> DEFINE new == [proc[q] EXCEPT !.parent = q, !.start = proc[r].start + 1, !.old = FALSE]
    <3>2. proc' = [proc EXCEPT ![r] = new] /\ new.st = "live"
      BY <3>1 DEF Fork, Live, Typed, Process
    <3> HIDE DEF new
    <3> QED BY <3>2 DEF Typed, Id
  <2>5. CASE \E q \in Procs : LeaveGroup(q) \/ Gain(q) \/ Redirect(q)
    <3>1. PICK q \in Procs : LeaveGroup(q) \/ Gain(q) \/ Redirect(q)
      BY <2>5
    <3>2. PICK new : proc' = [proc EXCEPT ![q] = new] /\ new.st = "live"
      BY <3>1 DEF LeaveGroup, Gain, Redirect, Holders, Live, Typed, Process
    <3> QED BY <3>2 DEF Typed, Id
  <2> QED BY <1>6, <2>1, <2>2, <2>3, <2>4, <2>5, WatchedProcs, FewAssumption DEF Kernel, Usable
<1> QED BY Effects, <1>1, <1>2, <1>3, <1>4, <1>5, <1>6

LEMMA DiesAlone ==
  ASSUME proc \in [Procs -> Process], NEW S \in SUBSET Procs, Die(S), NEW p \in Procs \ S
  PROVE  proc'[p].st = proc[p].st
<1>1. proc[p] \in Process
  OBVIOUS
<1>2. proc'[p] = proc[p] \/ proc'[p] = [proc[p] EXCEPT !.parent = "init"]
  BY DEF Die
<1> QED BY <1>1, <1>2 DEF Process

LEMMA ChosenStep ==
  ASSUME Typed, Kin, Aimed, ChosenRightly, RunAct
  PROVE  ChosenRightly'
<1>0. SUFFICES ASSUME run'.pc \in {"sudo_rest", "rest"}, NEW p \in run'.aim,
                      proc'[p].st = "stranger"
               PROVE  Id(p)' \in run'.snap
  BY DEF ChosenRightly
<1>00. p \in Procs
  BY TypedStep DEF Typed, Shaped
<1>1. CASE StartLook
  BY <1>0, <1>1, LookBegins
<1>2. CASE Listing \/ Identifying \/ LookEnds \/ SudoKillGroup
  <2>1. run'.pc \in {"look", "filter", "sudo_group", "kill_group"}
    BY <1>2 DEF Listing, ListChildren, Identifying, Identify, LookEnds, SudoKillGroup,
       Typed, Shaped
  <2> QED BY <1>0, <2>1
<1>3. CASE KillGroup
  <2>1. run.pc = "kill_group" /\ run'.aim = run.aim
    BY <1>3 DEF KillGroup, Typed, Shaped
  <2> QED BY <1>0, <2>1 DEF Aimed, Looking
<1>4. CASE Filter
  <2> DEFINE current == {id \in run.snap : IsCurrent(id)}
  <2>1. proc' = proc /\ run'.snap = run.snap /\ run'.aim = {id[1] : id \in current}
    BY <1>0, <1>4 DEF Filter, Typed, Shaped, tree
  <2>2. PICK id \in run.snap : IsCurrent(id) /\ id[1] = p
    BY <1>0, <2>1
  <2> QED BY <2>1, <2>2 DEF IsCurrent, Id
<1>5. CASE SudoKillRest \/ Signaling
  <2>1. run'.aim = {}
    BY <1>5 DEF SudoKillRest, Signaling, KillOne, Typed, Shaped
  <2> QED BY <1>0, <2>1
<1>6. CASE Checking
  <2>1. PICK id \in run.rest : CheckOne(id)
    BY <1>6 DEF Checking
  <2>2. /\ proc' = proc /\ run'.snap = run.snap /\ run.pc = "rest"
        /\ run'.aim = IF IsCurrent(id) THEN {id[1]} ELSE {}
    BY <2>1 DEF CheckOne, Typed, Shaped, tree
  <2>3. IsCurrent(id) /\ id[1] = p
    BY <1>0, <2>2
  <2>4. Id(p)' = id
    BY <2>2, <2>3 DEF IsCurrent, Id
  <2>5. id \in run.snap
    BY <2>2 DEF Aimed
  <2> QED BY <2>2, <2>4, <2>5
<1>7. CASE RestEnds
  <2>1. run'.pc = "killed"
    BY <1>7 DEF RestEnds, Typed, Shaped
  <2> QED BY <1>0, <2>1
<1>8. CASE run'.pc \notin Looking \cup Signalling
  BY <1>0, <1>8 DEF Signalling
<1>9. CASE Kept
  <2>1. run.pc \in {"sudo_rest", "rest"} /\ p \in run.aim /\ run'.snap = run.snap
    BY <1>0, <1>9 DEF Kept
  <2>2. proc[p].st = "stranger" /\ Id(p)' = Id(p)
    BY <1>0, <1>00, <2>1, Strangers
  <2> QED BY <2>1, <2>2 DEF ChosenRightly
<1> QED BY KillMoves, <1>1, <1>2, <1>3, <1>4, <1>5, <1>6, <1>7, <1>8, <1>9

(* When the look is over, it has met every descendant that was there when  *)
(* it began: each has a parent that it met, and whose children it listed.  *)
LEMMA DescendantsMet ==
  ASSUME Typed, Kin, Met, run.pc \in {"sudo_group", "kill_group"}
  PROVE  \A p \in Descendants : proc[p].old => Id(p) \in run.snap
<1>0. /\ run.queue = {} /\ run.found = {} /\ Root \in run.seen
      /\ \A q \in Live : proc[q].old /\ q \in run.seen \ {Root} => Id(q) \in run.snap
      /\ \A q \in Live : proc[q].old /\ proc[q].parent \in run.seen => q \in run.seen
  BY DEF Met, Looking
<1> DEFINE N == Cardinality(Procs)
           Seen(S) == \A p \in S : p = Root \/ (p \in Live /\ (proc[p].old => p \in run.seen))
           T == {n \in Nat : n <= N => Seen(Down[n])}
<1>1. proc \in [Procs -> Process] /\ N \in Nat
  BY DownIs DEF Typed
<1>2. 0 \in T
  BY <1>1, DownIs
<1>3. ASSUME NEW n \in Nat, n \in T PROVE n + 1 \in T
  <2> SUFFICES ASSUME n + 1 <= N PROVE Seen(Down[n + 1])
    OBVIOUS
  <2>1. Seen(Down[n])
    BY <1>1, <1>3
  <2>2. n + 1 \in 1..N /\ (n + 1) - 1 = n
    BY <1>1
  <2>3. Down[n + 1] = Down[n] \cup Children(Down[n])
    BY <1>1, <2>2, DownIs
  <2>4. ASSUME NEW q \in Children(Down[n]), proc[q].old PROVE q \in run.seen
    <3>1. q \in Live /\ proc[q].parent \in Down[n]
      BY DEF Children
    <3>2. proc[q].parent = Root \/ proc[q].parent \in Live
      BY <2>1, <3>1
    <3>3. proc[q].parent \in Procs
      BY <3>2, RootAssumption DEF Live
    <3>4. proc[proc[q].parent].old
      BY <2>4, <3>1, <3>3 DEF Kin
    <3>5. proc[q].parent \in run.seen
      BY <1>0, <2>1, <3>1, <3>4
    <3> QED BY <1>0, <2>4, <3>1, <3>5
  <2> QED BY <2>1, <2>3, <2>4 DEF Children
<1>4. Nat \subseteq T
  <2> HIDE DEF T
  <2> QED BY <1>2, <1>3, NatSetInduction
<1>5. Seen(Down[N])
  BY <1>1, <1>4
<1> SUFFICES ASSUME NEW p \in Descendants, proc[p].old PROVE Id(p) \in run.snap
  OBVIOUS
<1>6. p \in Down[N] /\ p # Root
  BY DEF Descendants
<1> HIDE DEF Seen
<1>7. p \in Live /\ p \in run.seen
  BY <1>5, <1>6 DEF Seen
<1> QED BY <1>0, <1>6, <1>7

RunInv ==
    /\ part = "run" => Typed /\ Kin /\ AllRead /\ Met /\ Aimed /\ ChosenRightly
    /\ part # "run" => run = Still

LEMMA RunInvInit == Init => RunInv
<1> SUFFICES ASSUME Init PROVE RunInv
  OBVIOUS
<1>1. ASSUME part = "run" PROVE Typed /\ Kin /\ AllRead /\ Met /\ Aimed /\ ChosenRightly
  <2>1. PICK job \in Kinds : run = NewRun(job)
    BY <1>1 DEF Init, RunStarts, AuditStarts, ApiStarts, ScanStarts, EditStarts
  <2>2. TreeInit /\ job \in Jobs
    BY <2>1, KindsAssumption DEF Init
  <2>3. Nothing \in Process /\ Nothing.st = "none"
    BY DEF Nothing, Process, States
  <2>4. proc \in [Procs -> Process] /\ Live = {} /\ Foreign = {}
    BY <2>2, <2>3 DEF TreeInit, Live, Foreign
  <2>5. Typed
    BY <2>1, <2>2, <2>4 DEF TreeInit, Typed, Shaped, NewRun, Killing, Looking, Signalling
  <2>6. AllRead
    BY <2>1, <2>4 DEF AllRead, NewRun, Killing, Looking, Signalling, Ended, Mine
  <2>7. Kin
    BY <2>4 DEF Kin
  <2>8. Met /\ Aimed /\ ChosenRightly
    BY <2>1 DEF Met, Aimed, ChosenRightly, NewRun, Looking, Signalling
  <2> QED BY <2>5, <2>6, <2>7, <2>8
<1> QED BY <1>1 DEF Init, TreeInit, RunInv

LEMMA RunInvNext == RunInv /\ [Next]_vars => RunInv'
<1> SUFFICES ASSUME RunInv, [Next]_vars PROVE RunInv'
  OBVIOUS
<1>1. CASE part = "run" /\ RunStep /\ UNCHANGED part
  <2>1. RunAct
    BY <1>1 DEF RunStep, AgentStep, RunAct, Consuming
  <2>2. Typed /\ Kin /\ AllRead /\ Met /\ Aimed /\ ChosenRightly
    BY <1>1 DEF RunInv
  <2> QED BY <1>1, <2>1, <2>2, TypedStep, KinStep, AllReadStep, MetStep, AimedStep, ChosenStep
          DEF RunInv
<1>2. CASE UNCHANGED <<tree, run, part>>
  <2>1. CASE part = "run"
    <3>1. Typed /\ Kin /\ AllRead /\ Met /\ Aimed /\ ChosenRightly
      BY <2>1 DEF RunInv
    <3>2. UNCHANGED <<proc, pipe, written, run>>
      BY <1>2 DEF tree
    <3>3. Typed' /\ AllRead'
      BY <3>1, <3>2 DEF Typed, Shaped, AllRead, Holders, Live, Mine
    <3>4. Kin' /\ Met' /\ Aimed' /\ ChosenRightly'
      BY <3>1, <3>2 DEF Kin, Met, Aimed, ChosenRightly, Live, Id
    <3> QED BY <1>2, <2>1, <3>3, <3>4 DEF RunInv
  <2>2. CASE part # "run"
    BY <1>2, <2>2 DEF RunInv, Still, NewRun, tree
  <2> QED BY <2>1, <2>2
<1> QED BY <1>1, <1>2 DEF Next, RunStep, vars, tree

(* When descendant_snapshot ends (process_runner.rs), it has every process *)
(* that was there when it began and still descends from the root, whatever *)
(* the processes did meanwhile; and when ProcessGroupKill is through with  *)
(* its signals, none of the snapshot lives, or the answer has an error.    *)
THEOREM ReachedAreGoneHolds == Spec => []ReachedAreGone
<1>1. RunInv => ReachedAreGone
  <2> SUFFICES ASSUME RunInv PROVE ReachedAreGone
    OBVIOUS
  <2>1. CASE part = "run"
    <3>1. run.pc \in {"sudo_group", "kill_group"} =>
            \A p \in Descendants : proc[p].old => Id(p) \in run.snap
      BY <2>1, DescendantsMet DEF RunInv
    <3>2. run.pc = "killed" /\ ~run.error => \A p \in Live : Id(p) \notin run.snap
      BY <2>1 DEF RunInv, Aimed
    <3> QED BY <3>1, <3>2 DEF ReachedAreGone
  <2>2. CASE part # "run"
    BY <2>2 DEF RunInv, ReachedAreGone, Still, NewRun
  <2> QED BY <2>1, <2>2
<1> QED BY <1>1, RunInvInit, RunInvNext, PTL DEF Spec

(* run_argv_with_limits answers without the mark "left running" only with  *)
(* all of the output, from whichever process it came.                      *)
THEOREM OutputCompleteHolds == Spec => []OutputComplete
<1>1. RunInv => OutputComplete
  <2>1. ASSUME run = Still PROVE run.answer = "none"
    BY <2>1 DEF Still, NewRun
  <2> QED BY <2>1 DEF RunInv, Typed, AllRead, Mine, OutputComplete
<1> QED BY <1>1, RunInvInit, RunInvNext, PTL DEF Spec

LEMMA StrangersStay ==
  ASSUME Typed, ChosenRightly, RunAct, NEW p \in Procs, proc[p].st = "stranger",
         p \notin Group, Id(p) \notin run.snap
  PROVE  proc'[p].st = "stranger"
<1>0. p \notin Live
  BY DEF Live
<1>1. CASE UNCHANGED proc
  BY <1>1
<1>2. CASE \E S \in SUBSET Procs : p \notin S /\ Die(S)
  BY <1>2, DiesAlone DEF Typed
<1>3. CASE Spawn \/ TalkSpawn
  BY <1>3 DEF Spawn, TalkSpawn, Typed, Early, Nothing
<1>4. CASE Reap
  <2>1. proc' = [proc EXCEPT ![Root] = proc'[Root]] /\ Root # p
    BY <1>4, RootAssumption DEF Reap, Typed
  <2> QED BY <2>1 DEF Typed
<1>5. CASE StartLook
  <2>1. proc'[p] = [proc[p] EXCEPT !.old = p \in Live] /\ proc[p] \in Process
    BY <1>5 DEF StartLook, Typed
  <2> QED BY <2>1 DEF Process
<1>6. CASE DropChild
  <2>1. Signalled({q \in {Root} : q \in Live}) \in SUBSET Procs
        /\ p \notin Signalled({q \in {Root} : q \in Live})
    BY <1>0, RootAssumption DEF Signalled
  <2> QED BY <1>2, <1>6, <2>1 DEF DropChild
<1>7. CASE SudoKillGroup \/ KillGroup
  <2>1. \A S \in SUBSET Group : S \in SUBSET Procs /\ p \notin S
    BY DEF Group, Live, Foreign
  <2>2. \E S \in SUBSET Group : Die(S)
    BY <1>7 DEF SudoKillGroup, KillGroup, Signalled
  <2> QED BY <1>2, <2>1, <2>2
<1>8. CASE SudoKillRest
  <2>1. p \notin run.aim /\ run.aim \in SUBSET Procs
    BY <1>8 DEF SudoKillRest, ChosenRightly, Typed, Shaped
  <2>2. \A S \in SUBSET run.aim : S \in SUBSET Procs /\ p \notin S
    BY <2>1
  <2>3. \E S \in SUBSET run.aim : Die(S)
    BY <1>8 DEF SudoKillRest
  <2> QED BY <1>2, <2>2, <2>3
<1>9. CASE Signaling
  <2>1. PICK q \in run.aim : KillOne(q)
    BY <1>9 DEF Signaling
  <2>2. q # p /\ q \in Procs
    BY <2>1 DEF KillOne, ChosenRightly, Typed, Shaped
  <2>3. Signalled({x \in {q} : Exists(x)}) \in SUBSET Procs
        /\ p \notin Signalled({x \in {q} : Exists(x)})
    BY <2>2 DEF Signalled
  <2> QED BY <1>2, <2>1, <2>3 DEF KillOne
<1>10. CASE Kernel
  <2>1. CASE \E q \in Procs : Reuse(q, q \in run.aim)
    <3>1. PICK q \in Procs : Reuse(q, q \in run.aim)
      BY <2>1
    <3>2. q # p /\ \E new : proc' = [proc EXCEPT ![q] = new]
      BY <3>1 DEF Reuse, FreeIds
    <3> QED BY <3>2 DEF Typed
  <2>2. CASE \E q \in Procs : Exit(q)
    <3>1. PICK q \in Procs : q \in Live /\ Die({q})
      BY <2>2 DEF Exit
    <3> QED BY <1>0, <1>2, <3>1
  <2>3. CASE \E q \in Procs : Write(q)
    BY <1>1, <2>3 DEF Write
  <2>4. CASE \E q, r \in Procs : Fork(q, r)
    <3>1. PICK q \in Procs, r \in Procs : Fork(q, r)
      BY <2>4
    <3>2. r # p /\ \E new : proc' = [proc EXCEPT ![r] = new]
      BY <3>1 DEF Fork, FreeIds
    <3> QED BY <3>2 DEF Typed
  <2>5. CASE \E q \in Procs : LeaveGroup(q) \/ Gain(q) \/ Redirect(q)
    <3>1. PICK q \in Procs : LeaveGroup(q) \/ Gain(q) \/ Redirect(q)
      BY <2>5
    <3>2. q \in Live /\ \E new : proc' = [proc EXCEPT ![q] = new]
      BY <3>1 DEF LeaveGroup, Gain, Redirect, Holders
    <3> QED BY <1>0, <3>2 DEF Typed
  <2> QED BY <1>10, <2>1, <2>2, <2>3, <2>4, <2>5, WatchedProcs, FewAssumption DEF Kernel, Usable
<1>11. CASE Unwind \/ Buried \/ ReapEnds \/ DrainGivesUp
  BY <1>1, <1>6, <1>11 DEF Unwind, Buried, ReapEnds, DrainGivesUp
<1> QED BY Acts, <1>1, <1>3, <1>4, <1>5, <1>7, <1>8, <1>9, <1>10, <1>11
    DEF ShellStarts, Stage, StageFails, ShellEnds, CleanUp, Keep, TalkEnds,
    Stopped, SpawnFails, ReaderEnds, ReadFails, Feed, Complete, Deadline,
    Listing, ListChildren, Identifying, Identify, LookEnds, Filter, Checking, CheckOne,
    RestEnds, Killed, AwaitFeed, DrainPolledTwice, DrainEnds, Cancel, Read, Consuming,
    Consume, tree

(* A process of somebody else is ended by a kill (process_runner.rs) only  *)
(* if it is in the group of the id that was spawned, or if it is itself    *)
(* what the snapshot has: identity_is_current spares the others.           *)
THEOREM SparesStrangersHolds == Spec => SparesStrangers
<1>1. RunInv /\ [Next]_vars =>
        [\A p \in Procs : proc[p].st = "stranger" /\ proc'[p].st # "stranger" =>
             p \in Group \/ Id(p) \in run.snap]_vars
  <2> SUFFICES ASSUME RunInv, Next, NEW p \in Procs, proc[p].st = "stranger",
                      p \notin Group, Id(p) \notin run.snap
               PROVE  proc'[p].st = "stranger"
    OBVIOUS
  <2>1. CASE part = "run" /\ RunStep
    <3>1. RunAct
      BY <2>1 DEF RunStep, AgentStep, RunAct, Consuming
    <3> QED BY <2>1, <3>1, StrangersStay DEF RunInv
  <2>2. CASE UNCHANGED tree
    BY <2>2 DEF tree
  <2> QED BY <2>1, <2>2 DEF Next, RunStep
<1> QED BY <1>1, RunInvInit, RunInvNext, PTL DEF Spec, SparesStrangers

-----------------------------------------------------------------------------
(* The sequences that FlattenSeq goes through, one part after another.     *)
Joins(f, s, S) ==
    f \in [0..Len(s) -> Seq(S)] /\ f[0] = <<>> /\ \A i \in 1..Len(s) : f[i] = f[i - 1] \o s[i]

LEMMA JoinsAgree ==
  ASSUME NEW S, NEW s \in Seq(Seq(S)), NEW t \in Seq(Seq(S)), NEW f, NEW h,
         Joins(f, s, S), Joins(h, t, S), NEW n \in Nat, n <= Len(s), n <= Len(t),
         \A i \in 1..n : s[i] = t[i]
  PROVE  f[n] = h[n]
<1> DEFINE T == {k \in Nat : k <= n => f[k] = h[k]}
<1>1. 0 \in T
  BY DEF Joins
<1>2. ASSUME NEW k \in Nat, k \in T PROVE k + 1 \in T
  <2> SUFFICES ASSUME k + 1 <= n PROVE f[k + 1] = h[k + 1]
    OBVIOUS
  <2>1. f[k] = h[k]
    BY <1>2
  <2>2. k + 1 \in 1..n /\ k + 1 \in 1..Len(s) /\ k + 1 \in 1..Len(t) /\ (k + 1) - 1 = k
    OBVIOUS
  <2> QED BY <2>1, <2>2 DEF Joins
<1>3. Nat \subseteq T
  <2> HIDE DEF T
  <2> QED BY <1>1, <1>2, NatSetInduction
<1>4. n \in T
  BY <1>3
<1> QED BY <1>4

LEMMA JoinsExist ==
  ASSUME NEW S, NEW s \in Seq(Seq(S))
  PROVE  \E f : Joins(f, s, S)
<1> DEFINE n == Len(s)
           Q == Seq(S)
           g == [p \in (1..n) \X Q |-> p[2] \o s[p[1]]]
<1>1. n \in Nat /\ <<>> \in Q /\ \A i \in 1..n : s[i] \in Q
  BY ElementOfSeq
<1>2. g \in [(1..n) \X Q -> Q]
  <2>1. \A i \in 1..n, q \in Q : q \o s[i] \in Q
    BY <1>1, ConcatProperties
  <2> HIDE DEF n, Q
  <2> QED BY <2>1
<1>3. PICK f : Unrolls(f, n, Q, <<>>, g)
  <2> HIDE DEF n, Q, g
  <2> QED BY <1>1, <1>2, Recursion
<1>4. f \in [0..n -> Q] /\ f[0] = <<>> /\ \A i \in 1..n : f[i] = g[<<i, f[i - 1]>>]
  BY <1>3 DEF Unrolls
<1>5. ASSUME NEW i \in 1..n PROVE f[i] = f[i - 1] \o s[i]
  <2>1. i - 1 \in 0..n
    BY <1>1
  <2>2. <<i, f[i - 1]>> \in (1..n) \X Q
    BY <2>1, <1>4
  <2> HIDE DEF n, Q
  <2> QED BY <2>2, <1>4
<1> QED BY <1>4, <1>5 DEF Joins

LEMMA FlattenJoins ==
  ASSUME NEW S, NEW s \in Seq(Seq(S)), NEW f, Joins(f, s, S)
  PROVE  FlattenSeq(s) = f[Len(s)]
<1> DEFINE n == Len(s)
           Is(h) == h = [i \in 1..n |-> IF i = 1 THEN s[i] ELSE h[i - 1] \o s[i]]
           e == [i \in 1..n |-> f[i]]
<1>1. n \in Nat /\ \A i \in 1..n : s[i] \in Seq(S)
  BY ElementOfSeq
<1>2. CASE n = 0
  BY <1>2, EmptySeq DEF FlattenSeq, Joins
<1>3. CASE n # 0
  <2>1. \A i \in 1..n : e[i] = f[i]
    OBVIOUS
  <2>2. f[1] = s[1]
    <3>1. f[1] = f[0] \o s[1] /\ f[0] = <<>>
      <4>1. 1 \in 1..Len(s) /\ 1 - 1 = 0
        BY <1>1, <1>3
      <4> QED BY <4>1, Zenon DEF Joins
    <3>2. s[1] \in Seq(S)
      BY <1>1, <1>3
    <3> QED BY <3>1, <3>2, ConcatEmptySeq
  <2>3. \A i \in 1..n : i # 1 => i - 1 \in 1..n /\ f[i] = f[i - 1] \o s[i]
    <3>1. \A i \in 1..n : i # 1 => i - 1 \in 1..n
      BY <1>1
    <3>2. \A i \in 1..n : f[i] = f[i - 1] \o s[i]
      BY DEF Joins
    <3> QED BY <3>1, <3>2
  <2>4. Is(e)
    <3>1. \A i \in 1..n : e[i] = IF i = 1 THEN s[i] ELSE e[i - 1] \o s[i]
      BY <2>1, <2>2, <2>3
    <3>2. e = [i \in 1..n |-> e[i]]
      OBVIOUS
    <3> HIDE DEF e, n
    <3> QED BY <3>1, <3>2
  <2> DEFINE d == CHOOSE h : Is(h)
  <2>5. Is(d)
    <3> HIDE DEF Is
    <3> QED BY <2>4
  <2>6. FlattenSeq(s) = d[n]
    BY <1>3 DEF FlattenSeq
  <2>7. \A i \in 1..n : d[i] = IF i = 1 THEN s[i] ELSE d[i - 1] \o s[i]
    <3> HIDE DEF d, n
    <3> QED BY <2>5
  <2> HIDE DEF d, Is, e
  <2> DEFINE T == {k \in Nat : k + 1 <= n => d[k + 1] = f[k + 1]}
  <2>8. 0 \in T
    <3>1. 1 \in 1..n
      BY <1>1, <1>3
    <3> QED BY <3>1, <2>2, <2>7
  <2>9. ASSUME NEW k \in Nat, k \in T PROVE k + 1 \in T
    <3> SUFFICES ASSUME (k + 1) + 1 <= n PROVE d[(k + 1) + 1] = f[(k + 1) + 1]
      OBVIOUS
    <3>1. d[k + 1] = f[k + 1]
      BY <1>1, <2>9
    <3> DEFINE i == (k + 1) + 1
    <3>2. i \in 1..n /\ i # 1 /\ i - 1 = k + 1
      BY <1>1
    <3> HIDE DEF i, n
    <3>3. d[i] = d[i - 1] \o s[i] /\ f[i] = f[i - 1] \o s[i]
      BY <3>2, <2>3, <2>7
    <3> QED BY <3>1, <3>2, <3>3 DEF i
  <2>10. Nat \subseteq T
    <3> HIDE DEF T
    <3> QED BY <2>8, <2>9, NatSetInduction
  <2>11. d[n] = f[n]
    <3>1. n - 1 \in Nat /\ (n - 1) + 1 = n
      BY <1>1, <1>3
    <3>2. n - 1 \in T
      BY <2>10, <3>1
    <3> QED BY <3>1, <3>2
  <2> QED BY <2>6, <2>11
<1> QED BY <1>2, <1>3

LEMMA FlattenEmpty == FlattenSeq(<<>>) = <<>>
  BY DEF FlattenSeq

LEMMA FlattenType ==
  ASSUME NEW S, NEW s \in Seq(Seq(S))
  PROVE  FlattenSeq(s) \in Seq(S)
<1>1. PICK f : Joins(f, s, S)
  BY JoinsExist
<1>2. FlattenSeq(s) = f[Len(s)]
  BY <1>1, FlattenJoins
<1>3. Len(s) \in 0..Len(s)
  OBVIOUS
<1> QED BY <1>1, <1>2, <1>3 DEF Joins

LEMMA FlattenAppend ==
  ASSUME NEW S, NEW s \in Seq(Seq(S)), NEW c \in Seq(S)
  PROVE  FlattenSeq(Append(s, c)) = FlattenSeq(s) \o c
<1> DEFINE t == Append(s, c)
           n == Len(s)
<1>1. /\ t \in Seq(Seq(S)) /\ Len(t) = n + 1 /\ t[n + 1] = c /\ n \in Nat
      /\ \A i \in 1..n : s[i] = t[i]
  BY AppendProperties
<1> HIDE DEF t
<1>2. PICK f : Joins(f, s, S)
  BY JoinsExist
<1>3. PICK h : Joins(h, t, S)
  BY <1>1, JoinsExist
<1>4. h[n] = f[n]
  <2>1. n <= Len(s) /\ n <= Len(t)
    BY <1>1
  <2> HIDE DEF n
  <2> QED BY <1>1, <1>2, <1>3, <2>1, JoinsAgree
<1>5. h[n + 1] = h[n] \o c
  <2>1. n + 1 \in 1..Len(t) /\ (n + 1) - 1 = n
    BY <1>1
  <2> QED BY <1>1, <1>3, <2>1 DEF Joins
<1>6. FlattenSeq(t) = h[n + 1] /\ FlattenSeq(s) = f[n]
  BY <1>1, <1>2, <1>3, FlattenJoins
<1> QED BY <1>4, <1>5, <1>6 DEF t

(* Three sequences are the same one in both orders of joining them.        *)
Joined(x, y, z) == (x \o y) \o z = x \o (y \o z)
LEMMA JoinedSame == \A S : \A x, y, z \in Seq(S) : Joined(x, y, z)
  BY ConcatAssociative, Zenon DEF Joined

LEMMA FlattenTail ==
  ASSUME NEW S, NEW s \in Seq(Seq(S)), s # <<>>
  PROVE  FlattenSeq(s) = Head(s) \o FlattenSeq(Tail(s))
<1> DEFINE t == Tail(s)
           n == Len(t)
           c == Head(s)
<1>1. /\ t \in Seq(Seq(S)) /\ Len(s) = n + 1 /\ n \in Nat /\ c \in Seq(S) /\ s[1] = c
      /\ \A i \in 1..n : t[i] = s[i + 1]
  BY HeadTailProperties
<1> HIDE DEF t, c
<1>2. PICK f : Joins(f, t, S)
  BY <1>1, JoinsExist
<1>3. PICK h : Joins(h, s, S)
  BY <1>1, JoinsExist
<1> DEFINE T == {k \in Nat : k <= n => h[k + 1] = c \o f[k]}
<1>4. 0 \in T
  <2>1. h[0] = <<>> /\ h[1] = h[0] \o s[1] /\ f[0] = <<>>
    <3>1. 1 \in 1..Len(s) /\ 1 - 1 = 0
      BY <1>1
    <3> QED BY <1>2, <1>3, <3>1, Zenon DEF Joins
  <2>2. h[1] = c \o f[0]
    BY <1>1, <2>1, ConcatEmptySeq
  <2> QED BY <2>2
<1>5. ASSUME NEW k \in Nat, k \in T PROVE k + 1 \in T
  <2> SUFFICES ASSUME k + 1 <= n PROVE h[(k + 1) + 1] = c \o f[k + 1]
    OBVIOUS
  <2>1. h[k + 1] = c \o f[k]
    BY <1>1, <1>5
  <2>2. /\ k + 1 \in 1..n /\ (k + 1) + 1 \in 1..Len(s) /\ k \in 0..n
        /\ ((k + 1) + 1) - 1 = k + 1 /\ (k + 1) - 1 = k
    BY <1>1
  <2>3. h[(k + 1) + 1] = h[k + 1] \o s[(k + 1) + 1] /\ f[k + 1] = f[k] \o t[k + 1]
    BY <1>2, <1>3, <2>2 DEF Joins
  <2>4. s[(k + 1) + 1] = t[k + 1] /\ t[k + 1] \in Seq(S) /\ f[k] \in Seq(S)
    BY <1>1, <1>2, <2>2, ElementOfSeq DEF Joins
  <2>5. (c \o f[k]) \o t[k + 1] = c \o (f[k] \o t[k + 1])
    <3>1. c \in Seq(S) /\ f[k] \in Seq(S) /\ t[k + 1] \in Seq(S)
      BY <1>1, <2>4
    <3>2. Joined(c, f[k], t[k + 1])
      BY <3>1, JoinedSame, Zenon
    <3> QED BY <3>2 DEF Joined
  <2> QED BY <2>1, <2>3, <2>4, <2>5
<1>6. Nat \subseteq T
  <2> HIDE DEF T
  <2> QED BY <1>4, <1>5, NatSetInduction
<1>7. h[n + 1] = c \o f[n]
  <2>1. n \in T
    BY <1>1, <1>6
  <2> QED BY <1>1, <2>1
<1>8. FlattenSeq(t) = f[n] /\ FlattenSeq(s) = h[n + 1]
  BY <1>1, <1>2, <1>3, FlattenJoins
<1> QED BY <1>7, <1>8 DEF t, c

-----------------------------------------------------------------------------
(* The bytes of an output after the first m, up to the n-th.               *)
Span(m, n) == [i \in 1..(n - m) |-> m + i]

LEMMA SpanType ==
  ASSUME NEW m \in Nat, NEW n \in Nat, m <= n
  PROVE  Span(m, n) \in Seq(Nat) /\ Len(Span(m, n)) = n - m
<1>1. n - m \in Nat /\ \A i \in 1..(n - m) : m + i \in Nat
  OBVIOUS
<1> QED BY <1>1 DEF Span

LEMMA SpanIs ==
  ASSUME NEW m \in Nat, NEW n \in Nat, m <= n, NEW s \in Seq(Nat), Len(s) = n - m,
         \A i \in 1..(n - m) : s[i] = m + i
  PROVE  s = Span(m, n)
<1>1. \A i \in 1..Len(s) : s[i] = Span(m, n)[i]
  BY DEF Span
<1>2. Len(s) = Len(Span(m, n)) /\ Span(m, n) \in Seq(Nat)
  BY SpanType
<1> QED BY <1>1, <1>2, SeqEqual

LEMMA SpanConcat ==
  ASSUME NEW m \in Nat, NEW k \in Nat, NEW n \in Nat, m <= k, k <= n
  PROVE  Span(m, k) \o Span(k, n) = Span(m, n)
<1> DEFINE s == Span(m, k)
           t == Span(k, n)
<1>1. s \in Seq(Nat) /\ t \in Seq(Nat) /\ Len(s) = k - m /\ Len(t) = n - k
  BY SpanType
<1>2. /\ \A i \in 1..(k - m) : s[i] = m + i
      /\ \A i \in 1..(n - k) : t[i] = k + i
  BY DEF Span
<1> HIDE DEF s, t
<1>3. /\ s \o t \in Seq(Nat) /\ Len(s \o t) = n - m
      /\ \A i \in 1..(n - m) : (s \o t)[i] = IF i <= k - m THEN s[i] ELSE t[i - (k - m)]
  <2>1. /\ s \o t \in Seq(Nat) /\ Len(s \o t) = Len(s) + Len(t)
        /\ \A i \in 1..Len(s) + Len(t) : (s \o t)[i] = IF i <= Len(s) THEN s[i] ELSE t[i - Len(s)]
    BY <1>1, ConcatProperties
  <2>2. Len(s) + Len(t) = n - m
    BY <1>1
  <2> QED BY <1>1, <2>1, <2>2
<1>4. \A i \in 1..(n - m) : (s \o t)[i] = m + i
  <2> TAKE i \in 1..(n - m)
  <2>1. CASE i <= k - m
    BY <1>2, <1>3, <2>1
  <2>2. CASE ~(i <= k - m)
    <3>1. i - (k - m) \in 1..(n - k) /\ k + (i - (k - m)) = m + i
      BY <2>2
    <3> QED BY <1>2, <1>3, <2>2, <3>1
  <2> QED BY <2>1, <2>2
<1>5. m <= n
  OBVIOUS
<1> QED BY <1>3, <1>4, <1>5, SpanIs DEF s, t

LEMMA SpanSub ==
  ASSUME NEW m \in Nat, NEW n \in Nat, m <= n, NEW i \in 1..(n - m + 1),
         NEW j \in Nat, j <= n - m, i <= j + 1
  PROVE  SubSeq(Span(m, n), i, j) = Span(m + i - 1, m + j)
<1> DEFINE s == Span(m, n)
           t == SubSeq(s, i, j)
<1>1. s \in Seq(Nat) /\ \A k \in 1..(n - m) : s[k] = m + k
  BY SpanType DEF Span
<1>2. \A k \in i..j : s[k] \in Nat
  BY <1>1
<1> HIDE DEF s
<1>3. t \in Seq(Nat) /\ Len(t) = IF i <= j THEN j - i + 1 ELSE 0
  BY <1>2, SubSeqProperties
<1>4. \A k \in 1..(j - i + 1) : t[k] = s[i + k - 1]
  BY <1>2, SubSeqProperties
<1>5. \A k \in 1..(j - i + 1) : i + k - 1 \in 1..(n - m) /\ m + (i + k - 1) = (m + i - 1) + k
  OBVIOUS
<1> DEFINE p == m + i - 1
           q == m + j
<1>6. p \in Nat /\ q \in Nat /\ p <= q /\ q - p = j - i + 1 /\ Len(t) = q - p
  BY <1>3
<1>7. \A k \in 1..(q - p) : t[k] = p + k
  BY <1>1, <1>4, <1>5, <1>6
<1> HIDE DEF p, q, t
<1>8. t = Span(p, q)
  BY <1>3, <1>6, <1>7, SpanIs
<1> QED BY <1>8 DEF p, q, t, s

(* A span that is put together of two sequences is cut where the first ends. *)
LEMMA SpanSplit ==
  ASSUME NEW m \in Nat, NEW n \in Nat, m <= n, NEW s \in Seq(Nat), NEW t \in Seq(Nat),
         s \o t = Span(m, n)
  PROVE  /\ Len(s) \in 0..(n - m) /\ s = Span(m, m + Len(s))
         /\ t = Span(m + Len(s), n)
<1>1. Len(s) \in Nat /\ Len(t) \in Nat /\ Len(s) + Len(t) = n - m
  <2>1. Len(s \o t) = Len(s) + Len(t)
    OBVIOUS
  <2>2. Len(Span(m, n)) = n - m
    BY SpanType
  <2>3. Len(s \o t) = n - m
    BY <2>2, Zenon
  <2>4. Len(s) \in Nat /\ Len(t) \in Nat
    OBVIOUS
  <2> QED BY <2>1, <2>3, <2>4
<1>2. \A i \in 1..(n - m) : (s \o t)[i] = m + i
  BY DEF Span
<1>3. \A i \in 1..Len(s) : s[i] = m + i
  <2> TAKE i \in 1..Len(s)
  <2>1. s[i] = (s \o t)[i] /\ i \in 1..(n - m)
    BY <1>1
  <2> QED BY <1>2, <2>1
<1>4. \A i \in 1..Len(t) : t[i] = (m + Len(s)) + i
  <2> TAKE i \in 1..Len(t)
  <2>1. t[i] = (s \o t)[Len(s) + i] /\ Len(s) + i \in 1..(n - m)
    BY <1>1
  <2> QED BY <1>1, <1>2, <2>1
<1> DEFINE k == m + Len(s)
<1>5. k \in Nat /\ m <= k /\ k <= n /\ Len(s) = k - m /\ Len(t) = n - k
  BY <1>1
<1> HIDE DEF k
<1>6. s = Span(m, k)
  BY <1>3, <1>5, SpanIs
<1>7. t = Span(k, n)
  <2>1. \A i \in 1..(n - k) : t[i] = k + i
    BY <1>4, <1>5 DEF k
  <2> QED BY <1>5, <2>1, SpanIs
<1> QED BY <1>1, <1>6, <1>7 DEF k

-----------------------------------------------------------------------------
(***************************************************************************)
(* What is kept of an output.                                              *)
(***************************************************************************)
Chunks == Seq(Seq(Nat))

LEMMA CutOnceType ==
  ASSUME TailLimit \in Nat, NEW s \in Chunks
  PROVE  CutOnce(s) \in Chunks
<1> DEFINE bytes == Len(FlattenSeq(s))
           front == Head(s)
           cut == SubSeq(front, bytes - TailLimit + 1, Len(front))
<1>1. bytes \in Nat
  BY FlattenType DEF Chunks
<1>2. CASE bytes <= TailLimit
  BY <1>2 DEF CutOnce
<1>3. CASE ~(bytes <= TailLimit)
  <2>1. s # <<>>
    BY <1>1, <1>3, FlattenEmpty
  <2>2. front \in Seq(Nat) /\ Tail(s) \in Chunks
    BY <2>1 DEF Chunks
  <2>3. cut \in Seq(Nat)
    <3>1. bytes - TailLimit + 1 \in Nat \ {0} /\ Len(front) \in Nat
      BY <1>1, <1>3, <2>2
    <3>2. \A i \in (bytes - TailLimit + 1)..Len(front) : front[i] \in Nat
      BY <2>2, <3>1
    <3> HIDE DEF bytes, front
    <3> QED BY <3>1, <3>2, SubSeqProperties
  <2>4. <<cut>> \in Chunks
    <3> HIDE DEF cut
    <3> QED BY <2>3 DEF Chunks
  <2>5. <<cut>> \o Tail(s) \in Chunks
    <3> HIDE DEF cut
    <3> QED BY <2>2, <2>4, ConcatProperties DEF Chunks
  <2>6. CutOnce(s) = IF Len(front) <= bytes - TailLimit THEN Tail(s) ELSE <<cut>> \o Tail(s)
    BY <1>3 DEF CutOnce
  <2> QED BY <2>2, <2>5, <2>6
<1> QED BY <1>2, <1>3

(* A round of the loop leaves the end, and either enough of it or one      *)
(* chunk less.                                                             *)
LEMMA CutOnceKeeps ==
  ASSUME TailLimit \in Nat, NEW s \in Chunks, NEW m \in Nat, NEW n \in Nat, m <= n,
         FlattenSeq(s) = Span(m, n), TailLimit < n - m
  PROVE  \E k \in m..n : /\ FlattenSeq(CutOnce(s)) = Span(k, n) /\ TailLimit <= n - k
                         /\ n - k = TailLimit \/ Len(CutOnce(s)) = Len(s) - 1
<1> DEFINE front == Head(s)
           end == FlattenSeq(Tail(s))
           k == m + Len(front)
<1>1. Len(FlattenSeq(s)) = n - m
  BY SpanType
<1>2. s # <<>>
  <2> SUFFICES ASSUME s = <<>> PROVE FALSE
    OBVIOUS
  <2>1. Len(FlattenSeq(s)) = 0
    BY FlattenEmpty
  <2> QED BY <1>1, <2>1
<1>3. front \in Seq(Nat) /\ Tail(s) \in Chunks /\ Len(Tail(s)) = Len(s) - 1
  BY <1>2, HeadTailProperties DEF Chunks
<1>4. end \in Seq(Nat) /\ front \o end = Span(m, n)
  BY <1>2, <1>3, FlattenTail, FlattenType DEF Chunks
<1> HIDE DEF front, end
<1>5. Len(front) \in 0..(n - m) /\ front = Span(m, k) /\ end = Span(k, n)
  <2>1. \A x, y \in Seq(Nat) : x \o y = Span(m, n) =>
           Len(x) \in 0..(n - m) /\ x = Span(m, m + Len(x)) /\ y = Span(m + Len(x), n)
    BY SpanSplit
  <2> QED BY <1>3, <1>4, <2>1
<1>6. k \in m..n
  BY <1>5
<1>7. CASE Len(front) <= (n - m) - TailLimit
  <2>1. CutOnce(s) = Tail(s)
    BY <1>1, <1>7 DEF CutOnce, front
  <2>2. TailLimit <= n - k
    BY <1>5, <1>7
  <2> QED BY <1>3, <1>5, <1>6, <2>1, <2>2 DEF end
<1>8. CASE ~(Len(front) <= (n - m) - TailLimit)
  <2> DEFINE a == (n - m) - TailLimit + 1
             b == n - TailLimit
             c == Len(front)
             cut == SubSeq(front, a, c)
  <2>1. CutOnce(s) = <<cut>> \o Tail(s)
    BY <1>1, <1>8 DEF CutOnce, front
  <2>2. /\ a \in 1..(k - m + 1) /\ c \in Nat /\ c <= k - m
        /\ a <= c + 1 /\ m + a - 1 = b /\ m + c = k /\ m <= k /\ k \in Nat
        /\ b \in m..n /\ b <= k /\ k <= n /\ b \in Nat
    BY <1>5, <1>6, <1>8
  <2>3. cut = Span(b, k)
    <3>1. SubSeq(Span(m, k), a, c) = Span(m + a - 1, m + c)
      <4> HIDE DEF k, a, c
      <4>1. \A i \in 1..(k - m + 1), j \in Nat : j <= k - m /\ i <= j + 1 =>
              SubSeq(Span(m, k), i, j) = Span(m + i - 1, m + j)
        <5>1. m \in Nat /\ k \in Nat /\ m <= k
          BY <2>2
        <5> QED BY <5>1, SpanSub, Zenon
      <4> QED BY <2>2, <4>1
    <3> QED BY <1>5, <2>2, <3>1
  <2>4. cut \in Seq(Nat)
    BY <2>2, <2>3, SpanType
  <2>5. CutOnce(s) \in Chunks
    BY CutOnceType
  <2>6. CutOnce(s) # <<>> /\ Head(CutOnce(s)) = cut /\ Tail(CutOnce(s)) = Tail(s)
    <3>1. Tail(s) \in Seq(Seq(Nat))
      BY <1>3 DEF Chunks
    <3>2. \A x \in Seq(Nat), t \in Seq(Seq(Nat)) :
            <<x>> \o t # <<>> /\ Head(<<x>> \o t) = x /\ Tail(<<x>> \o t) = t
      OBVIOUS
    <3> HIDE DEF cut
    <3> QED BY <2>1, <2>4, <3>1, <3>2
  <2>7. FlattenSeq(CutOnce(s)) = cut \o end
    BY <2>5, <2>6, FlattenTail DEF Chunks, end
  <2>8. Span(b, k) \o Span(k, n) = Span(b, n)
    <3>1. b \in Nat /\ k \in Nat /\ b <= k /\ k <= n
      BY <2>2
    <3> HIDE DEF k, b
    <3> QED BY <3>1, SpanConcat, Zenon
  <2> HIDE DEF cut, k
  <2>9. FlattenSeq(CutOnce(s)) = Span(b, n)
    BY <1>5, <2>3, <2>7, <2>8
  <2>10. n - b = TailLimit
    OBVIOUS
  <2> HIDE DEF b
  <2> QED BY <2>2, <2>9, <2>10
<1> QED BY <1>7, <1>8

(* The loop comes to the limit, and takes nothing but from the beginning.  *)
LEMMA CutToLimitKeeps ==
  ASSUME TailLimit \in Nat, NEW s \in Chunks, NEW m \in Nat, NEW n \in Nat, m <= n,
         FlattenSeq(s) = Span(m, n)
  PROVE  /\ CutToLimit(s) \in Chunks
         /\ FlattenSeq(CutToLimit(s)) = Span(n - Lesser(n - m, TailLimit), n)
<1> DEFINE N == Len(s)
           g == [p \in (1..N) \X Chunks |-> CutOnce(p[2])]
           Is(h) == h = [k \in 0..N |-> IF k = 0 THEN s ELSE CutOnce(h[k - 1])]
<1>1. N \in Nat
  BY DEF Chunks
<1>2. g \in [(1..N) \X Chunks -> Chunks]
  <2>1. \A k \in 1..N, c \in Chunks : CutOnce(c) \in Chunks
    BY CutOnceType
  <2> HIDE DEF N, Chunks
  <2> QED BY <2>1
<1>3. PICK f : Unrolls(f, N, Chunks, s, g)
  <2> HIDE DEF N, Chunks, g
  <2> QED BY <1>1, <1>2, Recursion
<1>4. f \in [0..N -> Chunks] /\ f[0] = s /\ \A k \in 1..N : f[k] = g[<<k, f[k - 1]>>]
  BY <1>3 DEF Unrolls
<1>5. ASSUME NEW k \in 1..N PROVE f[k] = CutOnce(f[k - 1])
  <2>1. k - 1 \in 0..N
    BY <1>1
  <2>2. <<k, f[k - 1]>> \in (1..N) \X Chunks
    BY <2>1, <1>4
  <2> HIDE DEF N, Chunks
  <2> QED BY <2>2, <1>4
<1>6. Is(f)
  <2>1. f = [k \in 0..N |-> f[k]]
    BY <1>4
  <2>2. \A k \in 0..N : k = 0 \/ k \in 1..N
    BY <1>1
  <2> HIDE DEF N, Chunks, g
  <2> QED BY <2>1, <2>2, <1>4, <1>5
<1> DEFINE d == CHOOSE h : Is(h)
<1>7. Is(d) /\ CutToLimit(s) = d[N]
  <2>1. CutToLimit(s) = d[N]
    BY DEF CutToLimit
  <2>2. Is(d)
    <3> HIDE DEF Is
    <3> QED BY <1>6
  <2> QED BY <2>1, <2>2
<1>8. \A k \in 0..N : d[k] = IF k = 0 THEN s ELSE CutOnce(d[k - 1])
  <2> HIDE DEF d
  <2> QED BY <1>7
<1> HIDE DEF d, Is, g
<1>9. d[0] = s /\ \A k \in 1..N : d[k] = CutOnce(d[k - 1])
  <2>1. 0 \in 0..N /\ \A k \in 1..N : k \in 0..N /\ k # 0
    BY <1>1
  <2> QED BY <1>8, <2>1
<1> DEFINE KeptTo(k) ==
             \E j \in m..n :
                /\ d[k] \in Chunks /\ FlattenSeq(d[k]) = Span(j, n)
                /\ j = m \/ TailLimit <= n - j
                /\ n - j <= TailLimit \/ Len(d[k]) = N - k
           T == {k \in Nat : k <= N => KeptTo(k)}
<1>10. 0 \in T
  <2>1. m \in m..n
    OBVIOUS
  <2>2. Len(d[0]) = N - 0
    BY <1>1, <1>9
  <2> HIDE DEF N
  <2> QED BY <1>9, <2>1, <2>2
<1>11. ASSUME NEW k \in Nat, k \in T PROVE k + 1 \in T
  <2> SUFFICES ASSUME k + 1 <= N PROVE KeptTo(k + 1)
    OBVIOUS
  <2>1. PICK j \in m..n :
          /\ d[k] \in Chunks /\ FlattenSeq(d[k]) = Span(j, n)
          /\ j = m \/ TailLimit <= n - j
          /\ n - j <= TailLimit \/ Len(d[k]) = N - k
    BY <1>1, <1>11
  <2>2. d[k + 1] = CutOnce(d[k])
    <3>1. k + 1 \in 1..N /\ (k + 1) - 1 = k
      BY <1>1
    <3> QED BY <1>9, <3>1
  <2>3. d[k + 1] \in Chunks
    BY <2>1, <2>2, CutOnceType, Zenon
  <2>4. j \in Nat /\ j <= n
    BY <2>1
  <2>5. CASE n - j <= TailLimit
    <3>1. Len(FlattenSeq(d[k])) = n - j
      BY <2>1, <2>4, SpanType
    <3>2. d[k + 1] = d[k]
      BY <2>2, <2>5, <3>1 DEF CutOnce
    <3> HIDE DEF N
    <3> QED BY <2>1, <2>5, <3>2
  <2>6. CASE ~(n - j <= TailLimit)
    <3>1. TailLimit < n - j
      BY <2>4, <2>6
    <3>2. PICK i \in j..n :
            /\ FlattenSeq(CutOnce(d[k])) = Span(i, n) /\ TailLimit <= n - i
            /\ n - i = TailLimit \/ Len(CutOnce(d[k])) = Len(d[k]) - 1
      BY <2>1, <2>4, <3>1, CutOnceKeeps, Zenon
    <3>3. i \in m..n /\ (n - i = TailLimit => n - i <= TailLimit)
      BY <2>4, <3>2
    <3>4. n - i = TailLimit \/ Len(d[k + 1]) = N - (k + 1)
      BY <1>1, <2>1, <2>2, <2>6, <3>2
    <3> HIDE DEF N
    <3> QED BY <2>2, <2>3, <3>2, <3>3, <3>4
  <2> QED BY <2>5, <2>6
<1> HIDE DEF Kept
<1>12. Nat \subseteq T
  <2> HIDE DEF T
  <2> QED BY <1>10, <1>11, NatSetInduction
<1>13. KeptTo(N)
  <2>1. N \in T
    BY <1>1, <1>12
  <2> QED BY <1>1, <2>1
<1>14. PICK j \in m..n :
         /\ d[N] \in Chunks /\ FlattenSeq(d[N]) = Span(j, n)
         /\ j = m \/ TailLimit <= n - j
         /\ n - j <= TailLimit \/ Len(d[N]) = N - N
  BY <1>13 DEF Kept
<1>15. n - j <= TailLimit
  <2> SUFFICES ASSUME Len(d[N]) = N - N PROVE n - j <= TailLimit
    BY <1>14
  <2>1. d[N] = <<>>
    BY <1>1, <1>14 DEF Chunks
  <2>2. Len(FlattenSeq(d[N])) = 0
    BY <2>1, FlattenEmpty
  <2>3. Len(Span(j, n)) = n - j
    <3>1. j \in Nat /\ j <= n
      BY <1>14
    <3> QED BY <3>1, SpanType, Zenon
  <2>4. Len(Span(j, n)) = 0
    BY <1>14, <2>2
  <2> QED BY <2>3, <2>4
<1>16. j = n - Lesser(n - m, TailLimit)
  BY <1>14, <1>15 DEF Lesser
<1> QED BY <1>7, <1>14, <1>16

Fields(s) ==
    s = [of |-> s.of, text |-> s.text, start |-> s.start, end |-> s.end, cap |-> s.cap,
         at |-> s.at, line |-> s.line, last |-> s.last, out |-> s.out, content |-> s.content,
         truncated |-> s.truncated, stopped |-> s.stopped, over |-> s.over, head |-> s.head,
         tail |-> s.tail, total |-> s.total]
ScanShape == Fields(scan)

(* How much of the output is at its beginning and at its end.              *)
InHead == Lesser(scan.total, HeadLimit)
InTail == Lesser(scan.total - InHead, TailLimit)

CaptureInv ==
    scan.of = "output" =>
        /\ ScanShape /\ scan.cap \in Nat /\ scan.total \in Nat /\ scan.tail \in Chunks
        /\ scan.head = Span(0, InHead)
        /\ FlattenSeq(scan.tail) = Span(scan.total - InTail, scan.total)

LEMMA CaptureLimits ==
  ASSUME scan.cap \in Nat
  PROVE  HeadLimit \in Nat /\ TailLimit \in Nat /\ HeadLimit + TailLimit = scan.cap
<1>1. \A c \in Nat : c \div 2 \in Nat /\ c \div 2 <= c
  OBVIOUS
<1>2. HeadLimit \in Nat /\ HeadLimit <= scan.cap
  BY <1>1 DEF HeadLimit
<1> QED BY <1>2 DEF TailLimit

LEMMA SpanNone == \A n \in Nat : Span(n, n) = <<>>
<1> TAKE n \in Nat
<1>1. Span(n, n) \in Seq(Nat) /\ Len(Span(n, n)) = n - n
  BY SpanType
<1> QED BY <1>1

LEMMA CaptureInit == \A limit \in Nat : scan = Capture(limit) => CaptureInv
<1> SUFFICES ASSUME NEW limit \in Nat, scan = Capture(limit) PROVE CaptureInv
  OBVIOUS
<1>1. /\ ScanShape /\ scan.cap = limit /\ scan.total = 0 /\ scan.tail = <<>>
      /\ scan.head = <<>>
  BY DEF Capture, ScanIdle, ScanShape, Fields
<1>2. InHead = 0 /\ InTail = 0
  BY <1>1, CaptureLimits DEF InHead, InTail, Lesser
<1>3. scan.tail \in Chunks
  BY <1>1 DEF Chunks
<1> QED BY <1>1, <1>2, <1>3, SpanNone, FlattenEmpty DEF CaptureInv

LEMMA FlattenOne ==
  ASSUME NEW S, NEW c \in Seq(S)
  PROVE  FlattenSeq(<<c>>) = c
<1>1. <<c>> \in Seq(Seq(S)) /\ <<c>> # <<>> /\ Head(<<c>>) = c /\ Tail(<<c>>) = <<>>
  OBVIOUS
<1>2. FlattenSeq(<<c>>) = Head(<<c>>) \o FlattenSeq(Tail(<<c>>))
  BY <1>1, FlattenTail, Zenon
<1> QED BY <1>1, <1>2, FlattenEmpty, ConcatEmptySeq

LEMMA CaptureStep ==
  ASSUME CaptureInv, NEW n \in Nat \ {0}, ReadOutput(n)
  PROVE  CaptureInv'
<1> DEFINE bytes == [i \in 1..n |-> scan.total + i]
           end == scan.total + n
           toHead == Lesser(HeadLimit - Len(scan.head), n)
           from == scan.total + toHead
           rest == SubSeq(bytes, toHead + 1, Len(bytes))
           counted == [scan EXCEPT !.total = @ + Len(bytes),
                                   !.head = @ \o SubSeq(bytes, 1, toHead)]
<1>1. /\ ScanShape /\ scan.cap \in Nat /\ scan.total \in Nat /\ scan.tail \in Chunks
      /\ scan.head = Span(0, InHead)
      /\ FlattenSeq(scan.tail) = Span(scan.total - InTail, scan.total)
  BY DEF ReadOutput, CaptureInv
<1>2. HeadLimit \in Nat /\ TailLimit \in Nat
  BY <1>1, CaptureLimits
<1>3. /\ InHead \in Nat /\ InHead <= HeadLimit /\ InHead <= scan.total
      /\ InTail \in Nat /\ InTail <= scan.total
  BY <1>1, <1>2 DEF InHead, InTail, Lesser
<1>4. Len(scan.head) = InHead
  <2>1. Len(Span(0, InHead)) = InHead - 0
    BY <1>3, SpanType
  <2> QED BY <1>1, <1>3, <2>1
<1>5. bytes = Span(scan.total, end) /\ Len(bytes) = n
  <2>1. bytes \in Seq(Nat) /\ Len(bytes) = n /\ \A i \in 1..n : bytes[i] = scan.total + i
    BY <1>1
  <2>2. end \in Nat /\ scan.total <= end /\ end - scan.total = n
    BY <1>1
  <2> HIDE DEF bytes, end
  <2> QED BY <1>1, <2>1, <2>2, SpanIs
<1>6. /\ toHead \in 0..n /\ from \in Nat /\ scan.total <= from /\ from <= end /\ end \in Nat
      /\ (InHead < scan.total => toHead = 0)
      /\ InHead + toHead = Lesser(end, HeadLimit)
  <2>1. /\ n \in Nat /\ scan.total \in Nat /\ HeadLimit \in Nat
        /\ toHead = Lesser(HeadLimit - InHead, n) /\ InHead = Lesser(scan.total, HeadLimit)
    BY <1>1, <1>2, <1>4 DEF InHead
  <2>2. /\ toHead \in 0..n
        /\ InHead < scan.total => toHead = 0
        /\ InHead + toHead = Lesser(end, HeadLimit)
    BY <2>1 DEF Lesser
  <2> HIDE DEF toHead
  <2> QED BY <2>1, <2>2
<1>7. SubSeq(bytes, 1, toHead) = Span(scan.total, from)
  <2>0. end - scan.total = n
    BY <1>1
  <2>1. \A i \in 1..(end - scan.total + 1), j \in Nat : j <= end - scan.total /\ i <= j + 1 =>
          SubSeq(Span(scan.total, end), i, j) = Span(scan.total + i - 1, scan.total + j)
    <3>1. scan.total \in Nat /\ end \in Nat /\ scan.total <= end
      BY <1>1, <1>6
    <3> HIDE DEF end
    <3> QED BY <3>1, SpanSub, Zenon
  <2>2. /\ 1 \in 1..(end - scan.total + 1) /\ toHead \in Nat /\ toHead <= end - scan.total
        /\ 1 <= toHead + 1 /\ scan.total + 1 - 1 = scan.total
    BY <1>1, <1>6, <2>0
  <2> HIDE DEF bytes, toHead, end
  <2>3. SubSeq(Span(scan.total, end), 1, toHead) = Span(scan.total + 1 - 1, scan.total + toHead)
    BY <2>1, <2>2
  <2> QED BY <1>5, <2>2, <2>3
<1>8. rest = Span(from, end)
  <2>0. end - scan.total = n
    BY <1>1
  <2>1. \A i \in 1..(end - scan.total + 1), j \in Nat : j <= end - scan.total /\ i <= j + 1 =>
          SubSeq(Span(scan.total, end), i, j) = Span(scan.total + i - 1, scan.total + j)
    <3>1. scan.total \in Nat /\ end \in Nat /\ scan.total <= end
      BY <1>1, <1>6
    <3> HIDE DEF end
    <3> QED BY <3>1, SpanSub, Zenon
  <2>2. /\ toHead + 1 \in 1..(end - scan.total + 1) /\ n \in Nat /\ n <= end - scan.total
        /\ toHead + 1 <= n + 1 /\ scan.total + (toHead + 1) - 1 = from /\ scan.total + n = end
    <3>1. scan.total \in Nat /\ toHead \in 0..n
      BY <1>1, <1>6
    <3> HIDE DEF toHead
    <3> QED BY <3>1, <2>0
  <2>3. rest = SubSeq(Span(scan.total, end), toHead + 1, n)
    BY <1>5
  <2> HIDE DEF bytes, toHead, rest
  <2>4. SubSeq(Span(scan.total, end), toHead + 1, n)
          = Span(scan.total + (toHead + 1) - 1, scan.total + n)
    <3> HIDE DEF end, from
    <3> QED BY <2>1, <2>2
  <2> QED BY <2>2, <2>3, <2>4
<1>16. end = scan.total + n /\ from = scan.total + toHead
  OBVIOUS
<1> HIDE DEF bytes, toHead, end, from
<1>9. rest \in Seq(Nat) /\ Len(rest) = end - from
  BY <1>6, <1>8, SpanType
<1> HIDE DEF rest
<1> DEFINE tail == scan'.tail
<1>10. /\ ScanShape' /\ scan'.of = scan.of /\ scan'.cap = scan.cap /\ scan'.total = end
       /\ scan'.head = scan.head \o SubSeq(bytes, 1, toHead)
       /\ tail = IF TailLimit = 0 \/ rest = <<>> THEN scan.tail
                 ELSE IF Len(rest) >= TailLimit
                 THEN <<SubSeq(rest, Len(rest) - TailLimit + 1, Len(rest))>>
                 ELSE CutToLimit(Append(scan.tail, rest))
  <2>1. scan' = IF TailLimit = 0 \/ rest = <<>> THEN counted
                ELSE IF Len(rest) >= TailLimit
                THEN [counted EXCEPT !.tail = <<SubSeq(rest, Len(rest) - TailLimit + 1, Len(rest))>>]
                ELSE [counted EXCEPT !.tail = CutToLimit(Append(@, rest))]
    <3>1. scan' = Push(bytes)
      BY DEF ReadOutput, bytes
    <3> HIDE DEF rest, counted
    <3>2. \A B : Push(B) =
            LET a == Lesser(HeadLimit - Len(scan.head), Len(B))
                b == SubSeq(B, a + 1, Len(B))
                c == [scan EXCEPT !.total = @ + Len(B), !.head = @ \o SubSeq(B, 1, a)]
            IN IF TailLimit = 0 \/ b = <<>> THEN c
               ELSE IF Len(b) >= TailLimit
               THEN [c EXCEPT !.tail = <<SubSeq(b, Len(b) - TailLimit + 1, Len(b))>>]
               ELSE [c EXCEPT !.tail = CutToLimit(Append(@, b))]
      BY DEF Push
    <3> QED BY <1>5, <3>1, <3>2 DEF rest, counted, toHead
  <2>2. counted = [of |-> scan.of, text |-> scan.text, start |-> scan.start, end |-> scan.end,
            cap |-> scan.cap, at |-> scan.at, line |-> scan.line, last |-> scan.last,
            out |-> scan.out, content |-> scan.content, truncated |-> scan.truncated, stopped |-> scan.stopped,
            over |-> scan.over, head |-> scan.head \o SubSeq(bytes, 1, toHead),
            tail |-> scan.tail, total |-> scan.total + Len(bytes)]
    <3> DEFINE A == scan.total + Len(bytes)
               B == scan.head \o SubSeq(bytes, 1, toHead)
    <3>1. counted = [scan EXCEPT !.total = A, !.head = B]
      OBVIOUS
    <3> HIDE DEF A, B, counted
    <3>2. counted = [of |-> scan.of, text |-> scan.text, start |-> scan.start,
            end |-> scan.end, cap |-> scan.cap, at |-> scan.at, line |-> scan.line,
            last |-> scan.last, out |-> scan.out, content |-> scan.content,
            truncated |-> scan.truncated,
            stopped |-> scan.stopped, over |-> scan.over, head |-> B, tail |-> scan.tail,
            total |-> A]
      BY <1>1, <3>1 DEF ScanShape, Fields
    <3> QED BY <3>2 DEF A, B
  <2> HIDE DEF counted
  <2>5. scan.total + Len(bytes) = end
    BY <1>5, <1>16
  <2>3. CASE TailLimit = 0 \/ rest = <<>>
    <3>1. scan' = counted
      BY <2>1, <2>3
    <3> QED BY <2>2, <2>3, <2>5, <3>1 DEF ScanShape, Fields
  <2>4. CASE ~(TailLimit = 0 \/ rest = <<>>)
    <3> DEFINE X == IF Len(rest) >= TailLimit
                    THEN <<SubSeq(rest, Len(rest) - TailLimit + 1, Len(rest))>>
                    ELSE CutToLimit(Append(scan.tail, rest))
    <3>1. counted.tail = scan.tail
      BY <2>2
    <3>2. scan' = [counted EXCEPT !.tail = X]
      BY <2>1, <2>4, <3>1
    <3>3. tail = X
      <4> HIDE DEF X
      <4> QED BY <2>2, <3>2
    <3>4. /\ ScanShape' /\ scan'.of = scan.of /\ scan'.cap = scan.cap /\ scan'.total = end
          /\ scan'.head = scan.head \o SubSeq(bytes, 1, toHead)
      <4> HIDE DEF X
      <4> QED BY <2>2, <2>5, <3>2 DEF ScanShape, Fields
    <3> QED BY <2>4, <3>3, <3>4
  <2> QED BY <2>3, <2>4
<1>11. HeadLimit' = HeadLimit /\ TailLimit' = TailLimit
  BY <1>10 DEF HeadLimit, TailLimit
<1>12. InHead' = InHead + toHead
  BY <1>6, <1>10, <1>11 DEF InHead, Lesser
<1>13. scan'.head = Span(0, InHead')
  <2>1. InHead = scan.total \/ toHead = 0
    BY <1>1, <1>3, <1>6
  <2>2. CASE InHead = scan.total
    <3>1. Span(0, scan.total) \o Span(scan.total, from) = Span(0, from)
      <4>1. 0 \in Nat /\ 0 <= scan.total
        BY <1>1
      <4> QED BY <1>1, <1>6, <4>1, SpanConcat, Zenon
    <3>2. InHead' = from
      BY <1>12, <1>16, <2>2
    <3> QED BY <1>1, <1>7, <1>10, <2>2, <3>1, <3>2
  <2>3. CASE toHead = 0
    <3>1. SubSeq(bytes, 1, toHead) = <<>>
      BY <1>1, <1>7, <2>3, SpanNone
    <3>2. Span(0, InHead) \in Seq(Nat)
      BY <1>3, SpanType
    <3>3. Span(0, InHead) \o <<>> = Span(0, InHead)
      BY <3>2
    <3>4. InHead' = InHead
      BY <1>3, <1>12, <2>3
    <3> QED BY <1>1, <1>10, <3>1, <3>3, <3>4
  <2> QED BY <2>1, <2>2, <2>3
<1>17. /\ InTail' \in Nat /\ InTail' <= end
       /\ TailLimit = 0 \/ from = end => InTail = 0 /\ InTail' = 0
       /\ TailLimit <= end - from => InTail' = TailLimit
       /\ end - from < TailLimit => Lesser(end - (from - InTail), TailLimit) = InTail'
       /\ toHead = 0 \/ InTail = 0
       /\ from - InTail \in Nat /\ from - InTail <= from
  <2>1. InTail' = Lesser(end - (InHead + toHead), TailLimit)
    BY <1>10, <1>11, <1>12 DEF InTail
  <2> DEFINE k == InTail'
  <2>2. k = Lesser(end - (InHead + toHead), TailLimit)
    BY <2>1
  <2>3. InHead = Lesser(scan.total, HeadLimit) /\ InTail = Lesser(scan.total - InHead, TailLimit)
    BY DEF InHead, InTail
  <2>4. toHead = Lesser(HeadLimit - InHead, n)
    BY <1>4 DEF toHead
  <2> HIDE DEF k
  <2>5. /\ k \in Nat /\ k <= end
        /\ TailLimit = 0 \/ from = end => InTail = 0 /\ k = 0
        /\ TailLimit <= end - from => k = TailLimit
        /\ end - from < TailLimit => Lesser(end - (from - InTail), TailLimit) = k
        /\ toHead = 0 \/ InTail = 0
        /\ from - InTail \in Nat /\ from - InTail <= from
    <3> DEFINE h == InHead
               t == InTail
               H == HeadLimit
               T == TailLimit
               N == scan.total
    <3>1. /\ H \in Nat /\ T \in Nat /\ N \in Nat /\ end = N + n /\ from = N + toHead
          /\ h = Lesser(N, H) /\ t = Lesser(N - h, T) /\ toHead = Lesser(H - h, n)
          /\ k = Lesser(end - (h + toHead), T)
      BY <1>1, <1>2, <1>16, <2>2, <2>3, <2>4
    <3> HIDE DEF h, t, H, T, N
    <3>2. /\ k \in Nat /\ k <= end
          /\ T = 0 \/ from = end => t = 0 /\ k = 0
          /\ T <= end - from => k = T
          /\ end - from < T => Lesser(end - (from - t), T) = k
          /\ toHead = 0 \/ t = 0
          /\ from - t \in Nat /\ from - t <= from
      <4>1. CASE N < H
        BY <3>1, <4>1 DEF Lesser
      <4>2. CASE ~(N < H)
        BY <3>1, <4>2 DEF Lesser
      <4> QED BY <4>1, <4>2
    <3> QED BY <3>2 DEF h, t, H, T, N
  <2> QED BY <2>5 DEF k
<1>15. tail \in Chunks /\ FlattenSeq(tail) = Span(end - InTail', end)
  <2>1. CASE TailLimit = 0 \/ rest = <<>>
    <3>1. InTail = 0 /\ InTail' = 0
      <4>1. CASE TailLimit = 0
        BY <1>17, <4>1
      <4>2. CASE rest = <<>>
        <5>1. Len(rest) = 0
          BY <4>2
        <5>2. end = from
          BY <1>6, <1>9, <5>1
        <5> QED BY <1>17, <5>2
      <4> QED BY <2>1, <4>1, <4>2
    <3>2. FlattenSeq(tail) = <<>>
      BY <1>1, <1>10, <2>1, <3>1, SpanNone
    <3> QED BY <1>1, <1>6, <1>10, <2>1, <3>1, <3>2, SpanNone
  <2>2. CASE ~(TailLimit = 0 \/ rest = <<>>) /\ Len(rest) >= TailLimit
    <3> DEFINE c == SubSeq(rest, Len(rest) - TailLimit + 1, Len(rest))
    <3>1. c = Span(end - TailLimit, end)
      <4>1. \A i \in 1..(end - from + 1), j \in Nat : j <= end - from /\ i <= j + 1 =>
              SubSeq(Span(from, end), i, j) = Span(from + i - 1, from + j)
        BY <1>6, SpanSub, Zenon
      <4> DEFINE a == Len(rest) - TailLimit + 1
                 b == Len(rest)
      <4>2. /\ a \in 1..(end - from + 1) /\ b \in Nat /\ b <= end - from /\ a <= b + 1
            /\ from + a - 1 = end - TailLimit /\ from + b = end
        <5> HIDE DEF rest
        <5>1. b = end - from /\ TailLimit <= b /\ a = b - TailLimit + 1
          BY <1>9, <2>2
        <5> HIDE DEF a, b
        <5> QED BY <1>2, <1>6, <5>1
      <4>3. c = SubSeq(Span(from, end), a, b)
        BY <1>8
      <4> HIDE DEF a, b, c, rest
      <4>4. SubSeq(Span(from, end), a, b) = Span(from + a - 1, from + b)
        BY <4>1, <4>2
      <4> QED BY <4>2, <4>3, <4>4
    <3>2. c \in Seq(Nat)
      <4> DEFINE a == end - TailLimit
      <4>1. a \in Nat /\ a <= end
        BY <1>2, <1>6, <1>9, <2>2
      <4> HIDE DEF a, c
      <4>2. Span(a, end) \in Seq(Nat)
        BY <1>6, <4>1, SpanType, Zenon
      <4> QED BY <3>1, <4>2 DEF a
    <3> HIDE DEF c
    <3>3. tail = <<c>> /\ <<c>> \in Chunks
      <4>1. tail = <<c>>
        BY <1>10, <2>2 DEF c
      <4>2. <<c>> \in Chunks
        BY <3>2 DEF Chunks
      <4> QED BY <4>1, <4>2
    <3>4. FlattenSeq(<<c>>) = c
      BY <3>2, FlattenOne, Zenon
    <3>5. InTail' = TailLimit
      BY <1>2, <1>6, <1>9, <1>17, <2>2
    <3> QED BY <3>1, <3>3, <3>4, <3>5
  <2>3. CASE ~(TailLimit = 0 \/ rest = <<>>) /\ ~(Len(rest) >= TailLimit)
    <3> DEFINE s == Append(scan.tail, rest)
               m == from - InTail
    <3>1. s \in Chunks
      BY <1>1, <1>9 DEF Chunks
    <3>2. FlattenSeq(s) = FlattenSeq(scan.tail) \o rest
      BY <1>1, <1>9, FlattenAppend DEF Chunks
    <3>3. m \in Nat /\ m <= end /\ m <= from /\ from < end
      BY <1>2, <1>6, <1>9, <1>17, <2>3
    <3>4. toHead = 0 \/ InTail = 0
      BY <1>17
    <3>5. FlattenSeq(scan.tail) = Span(m, from)
      <4>1. CASE toHead = 0
        <5>1. from = scan.total
          BY <1>1, <1>16, <4>1
        <5> QED BY <1>1, <5>1
      <4>2. CASE InTail = 0
        BY <1>1, <1>6, <4>2, SpanNone
      <4> QED BY <3>4, <4>1, <4>2
    <3>6. Span(m, from) \o Span(from, end) = Span(m, end)
      <4>1. m \in Nat /\ from \in Nat /\ end \in Nat /\ m <= from /\ from <= end
        BY <1>6, <3>3
      <4> QED BY <4>1, SpanConcat, Zenon
    <3>7. FlattenSeq(s) = Span(m, end)
      BY <1>8, <3>2, <3>5, <3>6
    <3> HIDE DEF s, m
    <3>8. /\ CutToLimit(s) \in Chunks
          /\ FlattenSeq(CutToLimit(s)) = Span(end - Lesser(end - m, TailLimit), end)
      BY <1>2, <1>6, <3>1, <3>3, <3>7, CutToLimitKeeps, Zenon
    <3>9. Lesser(end - m, TailLimit) = InTail'
      <4>1. end - m = end - (from - InTail) /\ end - from < TailLimit
        BY <1>2, <1>6, <1>9, <2>3 DEF m
      <4> QED BY <1>17, <4>1
    <3>10. tail = CutToLimit(s)
      BY <1>10, <2>3 DEF s
    <3> QED BY <3>8, <3>9, <3>10
  <2> QED BY <2>1, <2>2, <2>3
<1> QED BY <1>1, <1>6, <1>10, <1>13, <1>15 DEF CaptureInv

LEMMA CaptureHolds == CaptureInv => KeepsHeadAndTail
<1> SUFFICES ASSUME CaptureInv, scan.of = "output" PROVE KeepsHeadAndTail
  BY DEF KeepsHeadAndTail
<1> DEFINE n == scan.total
           bytes == [i \in 1..n |-> i]
           whole == n <= scan.cap
           H == HeadLimit
           T == TailLimit
           tail == FlattenSeq(scan.tail)
<1>1. /\ scan.cap \in Nat /\ n \in Nat /\ H \in Nat /\ T \in Nat /\ H + T = scan.cap
      /\ scan.head = Span(0, InHead) /\ tail = Span(n - InTail, n)
  BY CaptureLimits DEF CaptureInv
<1>2. /\ InHead \in Nat /\ InTail \in Nat /\ InHead <= n - InTail
      /\ n - InTail \in Nat /\ n - InTail <= n
      /\ whole => InHead = n - InTail
      /\ ~whole => InHead = H /\ InTail = T
  <2>1. InHead = Lesser(n, H) /\ InTail = Lesser(n - InHead, T)
    BY DEF InHead, InTail
  <2> HIDE DEF n, H, T
  <2> QED BY <1>1, <2>1 DEF Lesser
<1>3. bytes = Span(0, n)
  <2>1. bytes \in Seq(Nat) /\ Len(bytes) = n - 0 /\ \A i \in 1..(n - 0) : bytes[i] = 0 + i
    BY <1>1
  <2>2. 0 \in Nat /\ 0 <= n
    BY <1>1
  <2> HIDE DEF bytes, n
  <2> QED BY <1>1, <2>1, <2>2, SpanIs
<1> HIDE DEF bytes
<1>4. Len(scan.head) = InHead /\ Len(tail) = InTail
  <2>1. Len(Span(0, InHead)) = InHead - 0
    BY <1>2, SpanType
  <2>2. Len(Span(n - InTail, n)) = n - (n - InTail)
    <3> DEFINE a == n - InTail
    <3>1. a \in Nat /\ n \in Nat /\ a <= n
      BY <1>1, <1>2
    <3> HIDE DEF a, n
    <3>2. Len(Span(a, n)) = n - a
      BY <3>1, SpanType, Zenon
    <3> QED BY <3>2 DEF a
  <2> HIDE DEF tail
  <2> QED BY <1>1, <1>2, <2>1, <2>2
<1>5. CASE whole
  <2> DEFINE k == n - InTail
  <2>1. /\ 0 \in Nat /\ k \in Nat /\ n \in Nat /\ 0 <= k /\ k <= n /\ InHead = k
    BY <1>1, <1>2, <1>5
  <2>2. Span(0, k) \o Span(k, n) = Span(0, n)
    <3> HIDE DEF k, n
    <3> QED BY <2>1, SpanConcat, Zenon
  <2>3. scan.head \o tail = bytes
    BY <1>1, <1>3, <2>1, <2>2
  <2>4. Omitted = 0
    BY <1>1, <1>2, <1>4, <2>1 DEF Omitted
  <2> HIDE DEF tail, n
  <2> QED BY <1>5, <2>3, <2>4 DEF KeepsHeadAndTail, bytes, tail, n
<1>6. CASE ~whole
  <2>1. InHead = H /\ InTail = T /\ H <= n /\ T <= n
    BY <1>1, <1>2, <1>6
  <2>2. \A i \in 1..(n - 0 + 1), j \in Nat : j <= n - 0 /\ i <= j + 1 =>
          SubSeq(Span(0, n), i, j) = Span(0 + i - 1, 0 + j)
    <3>1. 0 \in Nat /\ n \in Nat /\ 0 <= n
      BY <1>1
    <3> HIDE DEF n
    <3> QED BY <3>1, SpanSub, Zenon
  <2>3. SubSeq(bytes, 1, H) = Span(0, H)
    <3>1. 1 \in 1..(n - 0 + 1) /\ H <= n - 0 /\ 1 <= H + 1 /\ 0 + 1 - 1 = 0 /\ 0 + H = H
      BY <1>1, <2>1
    <3>2. SubSeq(Span(0, n), 1, H) = Span(0 + 1 - 1, 0 + H)
      <4> HIDE DEF n, H
      <4> QED BY <1>1, <2>2, <3>1
    <3> QED BY <1>3, <3>1, <3>2
  <2>4. SubSeq(bytes, n - T + 1, n) = Span(n - T, n)
    <3> DEFINE a == n - T + 1
    <3>1. a \in 1..(n - 0 + 1) /\ n <= n - 0 /\ a <= n + 1 /\ 0 + a - 1 = n - T /\ 0 + n = n
      BY <1>1, <2>1
    <3>2. SubSeq(Span(0, n), a, n) = Span(0 + a - 1, 0 + n)
      <4> HIDE DEF n, a
      <4> QED BY <1>1, <2>2, <3>1
    <3> QED BY <1>3, <3>1, <3>2
  <2>5. Omitted = n - scan.cap
    BY <1>1, <1>2, <1>4, <2>1 DEF Omitted
  <2>6. scan.head = SubSeq(bytes, 1, H) /\ tail = SubSeq(bytes, n - T + 1, n)
    BY <1>1, <2>1, <2>3, <2>4
  <2> QED BY <1>6, <2>5, <2>6 DEF KeepsHeadAndTail, bytes
<1> QED BY <1>5, <1>6

-----------------------------------------------------------------------------
(***************************************************************************)
(* The one pass over a text, whose lines from a to b are asked for.        *)
(***************************************************************************)
Within(line, a, b) == line >= a /\ (b = None \/ line <= b)
LineAt(t, i) == 1 + Cardinality({j \in 1..(i - 1) : t[j] = NL})
Takes(t, a, b, i) ==
    Within(LineAt(t, i), a, b) /\ (t[i] = NL => Within(LineAt(t, i) + 1, a, b))
TakenTo(t, a, b) ==
    LET f[i \in 0..Len(t)] ==
          IF i = 0 THEN <<>>
          ELSE IF Takes(t, a, b, i) THEN Append(f[i - 1], t[i]) ELSE f[i - 1]
    IN f

LEMMA LineSet ==
  ASSUME NEW t, NEW i \in Nat
  PROVE  /\ IsFiniteSet({j \in 1..i : t[j] = NL})
         /\ Cardinality({j \in 1..i : t[j] = NL}) \in Nat
<1>1. IsFiniteSet(1..i)
  BY FS_Interval
<1>2. {j \in 1..i : t[j] = NL} \in SUBSET (1..i)
  OBVIOUS
<1>3. IsFiniteSet({j \in 1..i : t[j] = NL})
  BY <1>1, <1>2, FS_Subset, Zenon
<1> QED BY <1>3, FS_CardinalityType

LEMMA LineAtNext ==
  ASSUME NEW t, NEW i \in Nat \ {0}
  PROVE  /\ LineAt(t, 1) = 1 /\ LineAt(t, i) \in Nat \ {0}
         /\ LineAt(t, i + 1) = IF t[i] = NL THEN LineAt(t, i) + 1 ELSE LineAt(t, i)
<1> DEFINE A == {j \in 1..(i - 1) : t[j] = NL}
           B == {j \in 1..((i + 1) - 1) : t[j] = NL}
<1>1. IsFiniteSet(A) /\ Cardinality(A) \in Nat
  <2>1. i - 1 \in Nat
    OBVIOUS
  <2> QED BY <2>1, LineSet
<1>2. LineAt(t, 1) = 1
  <2>1. {j \in 1..(1 - 1) : t[j] = NL} = {}
    OBVIOUS
  <2> QED BY <2>1, FS_EmptySet DEF LineAt
<1>3. CASE t[i] = NL
  <2>1. B = A \cup {i} /\ i \notin A
    BY <1>3
  <2> HIDE DEF A, B
  <2>2. Cardinality(B) = Cardinality(A) + 1
    BY <1>1, <2>1, FS_AddElement
  <2>3. LineAt(t, i) = 1 + Cardinality(A) /\ LineAt(t, i + 1) = 1 + Cardinality(B)
    BY DEF LineAt, A, B
  <2> QED BY <1>1, <1>2, <1>3, <2>2, <2>3
<1>4. CASE t[i] # NL
  <2>1. B = A
    BY <1>4
  <2>2. LineAt(t, i) = 1 + Cardinality(A) /\ LineAt(t, i + 1) = 1 + Cardinality(B)
    BY DEF LineAt
  <2> HIDE DEF A, B
  <2> QED BY <1>1, <1>2, <1>4, <2>1, <2>2
<1> QED BY <1>3, <1>4

LEMMA LineAtGrows ==
  ASSUME NEW t, NEW i \in Nat \ {0}, NEW k \in Nat
  PROVE  LineAt(t, i) <= LineAt(t, i + k)
<1> DEFINE T == {n \in Nat : LineAt(t, i) <= LineAt(t, i + n)}
<1>1. 0 \in T
  <2>1. LineAt(t, i) \in Nat /\ i + 0 = i
    BY LineAtNext
  <2> QED BY <2>1
<1>2. ASSUME NEW n \in Nat, n \in T PROVE n + 1 \in T
  <2>1. i + n \in Nat \ {0} /\ i + (n + 1) = (i + n) + 1
    OBVIOUS
  <2>2. /\ LineAt(t, i + n) \in Nat \ {0}
        /\ LineAt(t, (i + n) + 1) = IF t[i + n] = NL THEN LineAt(t, i + n) + 1
                                    ELSE LineAt(t, i + n)
    BY <2>1, LineAtNext, Zenon
  <2>3. LineAt(t, i) \in Nat
    BY LineAtNext
  <2>4. LineAt(t, i) <= LineAt(t, i + n)
    BY <1>2
  <2>5. LineAt(t, i) <= LineAt(t, (i + n) + 1)
    BY <2>2, <2>3, <2>4
  <2> QED BY <2>1, <2>5
<1>3. Nat \subseteq T
  <2> HIDE DEF T
  <2> QED BY <1>1, <1>2, NatSetInduction
<1> QED BY <1>3

LEMMA TakenIs ==
  ASSUME NEW S, NEW t \in Seq(S), NEW a, NEW b
  PROVE  /\ TakenTo(t, a, b) \in [0..Len(t) -> Seq(S)]
         /\ TakenTo(t, a, b)[0] = <<>>
         /\ \A i \in 1..Len(t) :
              TakenTo(t, a, b)[i] = IF Takes(t, a, b, i) THEN Append(TakenTo(t, a, b)[i - 1], t[i])
                                    ELSE TakenTo(t, a, b)[i - 1]
<1> DEFINE N == Len(t)
           Q == Seq(S)
           F == TakenTo(t, a, b)
           g == [p \in (1..N) \X Q |-> IF Takes(t, a, b, p[1]) THEN Append(p[2], t[p[1]]) ELSE p[2]]
           Is(h) == h = [i \in 0..N |->
                           IF i = 0 THEN <<>>
                           ELSE IF Takes(t, a, b, i) THEN Append(h[i - 1], t[i]) ELSE h[i - 1]]
<1>1. N \in Nat /\ <<>> \in Q
  OBVIOUS
<1>2. g \in [(1..N) \X Q -> Q]
  <2>1. \A i \in 1..N, q \in Q : Append(q, t[i]) \in Q
    OBVIOUS
  <2> HIDE DEF N, Q
  <2> QED BY <2>1
<1>3. PICK f : Unrolls(f, N, Q, <<>>, g)
  <2> HIDE DEF N, Q, g
  <2> QED BY <1>1, <1>2, Recursion
<1>4. f \in [0..N -> Q] /\ f[0] = <<>> /\ \A i \in 1..N : f[i] = g[<<i, f[i - 1]>>]
  BY <1>3 DEF Unrolls
<1>5. ASSUME NEW i \in 1..N
      PROVE  f[i] = IF Takes(t, a, b, i) THEN Append(f[i - 1], t[i]) ELSE f[i - 1]
  <2>1. i - 1 \in 0..N
    BY <1>1
  <2>2. <<i, f[i - 1]>> \in (1..N) \X Q
    BY <2>1, <1>4
  <2> HIDE DEF N, Q
  <2> QED BY <2>2, <1>4
<1>6. Is(f)
  <2>1. f = [i \in 0..N |-> f[i]]
    BY <1>4
  <2>2. \A i \in 0..N : i = 0 \/ i \in 1..N
    BY <1>1
  <2> HIDE DEF N, Q, g
  <2> QED BY <2>1, <2>2, <1>4, <1>5
<1>7. Is(F)
  <2>1. F = CHOOSE h : Is(h)
    BY DEF TakenTo
  <2> HIDE DEF Is, F
  <2> QED BY <2>1, <1>6
<1>8. F = [i \in 0..N |-> F[i]] /\ \A i \in 0..N : F[i] = IF i = 0 THEN <<>>
                           ELSE IF Takes(t, a, b, i) THEN Append(F[i - 1], t[i]) ELSE F[i - 1]
  <2> HIDE DEF F, N
  <2> QED BY <1>7
<1> HIDE DEF Is, F, g
<1>9. F[0] = <<>> /\ \A i \in 1..N : F[i] = IF Takes(t, a, b, i) THEN Append(F[i - 1], t[i])
                                          ELSE F[i - 1]
  <2>1. 0 \in 0..N /\ \A i \in 1..N : i \in 0..N /\ i # 0
    BY <1>1
  <2> HIDE DEF N
  <2> QED BY <1>8, <2>1
<1> DEFINE T == {k \in Nat : k <= N => F[k] \in Q}
<1>10. 0 \in T
  BY <1>1, <1>9
<1>11. ASSUME NEW k \in Nat, k \in T PROVE k + 1 \in T
  <2> SUFFICES ASSUME k + 1 <= N PROVE F[k + 1] \in Q
    OBVIOUS
  <2>1. F[k] \in Q
    BY <1>1, <1>11
  <2>2. k + 1 \in 1..N /\ (k + 1) - 1 = k
    BY <1>1
  <2>3. t[k + 1] \in S
    BY <2>2
  <2>4. Append(F[k], t[k + 1]) \in Q
    BY <2>1, <2>3
  <2>5. F[k + 1] \in {Append(F[k], t[k + 1]), F[k]}
    BY <1>9, <2>2
  <2> QED BY <2>1, <2>4, <2>5
<1>12. Nat \subseteq T
  <2> HIDE DEF T
  <2> QED BY <1>10, <1>11, NatSetInduction
<1>13. \A i \in 0..N : F[i] \in Q
  BY <1>1, <1>12
<1>14. F \in [0..N -> Q]
  <2> HIDE DEF N, Q
  <2> QED BY <1>8, <1>13
<1> QED BY <1>9, <1>14 DEF F

(* What is taken up to a place is the beginning of what is taken up to a   *)
(* later one.                                                              *)
Continues(t, a, b, i, n) ==
    /\ Len(TakenTo(t, a, b)[i]) <= Len(TakenTo(t, a, b)[i + n])
    /\ SubSeq(TakenTo(t, a, b)[i + n], 1, Len(TakenTo(t, a, b)[i])) = TakenTo(t, a, b)[i]
    /\ (\A k \in (i + 1)..(i + n) : ~Takes(t, a, b, k)) =>
           TakenTo(t, a, b)[i + n] = TakenTo(t, a, b)[i]

LEMMA TakenPrefix ==
  ASSUME NEW S, NEW t \in Seq(S), NEW a, NEW b, NEW i \in 0..Len(t)
  PROVE  \A n \in Nat : i + n <= Len(t) =>
           Continues(t, a, b, i, n)
<1> DEFINE N == Len(t)
           F == TakenTo(t, a, b)
           P(k) == /\ Len(F[i]) <= Len(F[i + k]) /\ SubSeq(F[i + k], 1, Len(F[i])) = F[i]
                   /\ (\A j \in (i + 1)..(i + k) : ~Takes(t, a, b, j)) => F[i + k] = F[i]
           T == {k \in Nat : i + k <= N => P(k)}
<1>1. /\ N \in Nat /\ F \in [0..N -> Seq(S)]
      /\ \A k \in 1..N : F[k] = IF Takes(t, a, b, k) THEN Append(F[k - 1], t[k]) ELSE F[k - 1]
  BY TakenIs
<1> HIDE DEF F
<1>2. F[i] \in Seq(S) /\ Len(F[i]) \in Nat
  BY <1>1
<1>3. 0 \in T
  <2>1. i + 0 = i /\ SubSeq(F[i], 1, Len(F[i])) = F[i]
    BY <1>1, <1>2
  <2> QED BY <1>2, <2>1
<1>4. ASSUME NEW k \in Nat, k \in T PROVE k + 1 \in T
  <2> SUFFICES ASSUME i + (k + 1) <= N PROVE P(k + 1)
    OBVIOUS
  <2> DEFINE p == i + k
             q == i + (k + 1)
  <2>1. p \in 0..N /\ q \in 1..N /\ q - 1 = p
    BY <1>1
  <2>2. P(k)
    BY <1>1, <1>4
  <2>3. F[p] \in Seq(S) /\ t[q] \in S
    <3>1. F[p] \in Seq(S)
      BY <1>1, <2>1
    <3>2. t[q] \in S
      BY <2>1
    <3> QED BY <3>1, <3>2
  <2>4. F[q] = IF Takes(t, a, b, q) THEN Append(F[p], t[q]) ELSE F[p]
    BY <1>1, <2>1
  <2>5. CASE Takes(t, a, b, q)
    <3>1. F[q] = F[p] \o <<t[q]>> /\ Len(F[q]) = Len(F[p]) + 1
      BY <2>3, <2>4, <2>5
    <3>2. SubSeq(F[q], 1, Len(F[i])) = SubSeq(F[p], 1, Len(F[i]))
      <4> DEFINE m == Len(F[i])
      <4>1. m \in Nat /\ m <= Len(F[p])
        BY <1>2, <2>2
      <4>2. \A j \in 1..m : F[q][j] = F[p][j]
        BY <2>3, <3>1, <4>1
      <4> HIDE DEF m, p, q
      <4>3. F[q] \in Seq(S) /\ m <= Len(F[q])
        <5>1. <<t[q]>> \in Seq(S) /\ Len(F[p]) \in Nat
          BY <2>3
        <5> QED BY <2>3, <3>1, <4>1, <5>1
      <4>4. SubSeq(F[q], 1, m) \in Seq(S) /\ Len(SubSeq(F[q], 1, m)) = m
            /\ \A j \in 1..m : SubSeq(F[q], 1, m)[j] = F[q][j]
        BY <4>1, <4>3
      <4>5. SubSeq(F[p], 1, m) \in Seq(S) /\ Len(SubSeq(F[p], 1, m)) = m
            /\ \A j \in 1..m : SubSeq(F[p], 1, m)[j] = F[p][j]
        BY <2>3, <4>1
      <4> DEFINE x == SubSeq(F[q], 1, m)
                 y == SubSeq(F[p], 1, m)
      <4>6. Len(x) = Len(y) /\ \A j \in 1..Len(x) : x[j] = y[j]
        BY <4>2, <4>4, <4>5
      <4>7. x \in Seq(S) /\ y \in Seq(S)
        BY <4>4, <4>5
      <4> HIDE DEF x, y
      <4>8. x = y
        BY <4>6, <4>7, SeqEqual
      <4> QED BY <4>8 DEF x, y, m
    <3>3. q \in (i + 1)..(i + (k + 1))
      OBVIOUS
    <3>4. Len(F[p]) \in Nat
      BY <2>3
    <3> HIDE DEF p
    <3> QED BY <1>2, <2>2, <2>5, <3>1, <3>2, <3>3, <3>4 DEF p
  <2>6. CASE ~Takes(t, a, b, q)
    <3>1. F[q] = F[p]
      BY <2>4, <2>6
    <3>2. (i + 1)..(i + k) \subseteq (i + 1)..(i + (k + 1))
      OBVIOUS
    <3> QED BY <2>2, <3>1, <3>2
  <2> QED BY <2>5, <2>6
<1>5. Nat \subseteq T
  <2> HIDE DEF T
  <2> QED BY <1>3, <1>4, NatSetInduction
<1>6. \A n \in Nat : i + n <= N => P(n)
  <2> HIDE DEF P
  <2> QED BY <1>5
<1> QED BY <1>6 DEF F, Continues

LEMMA TakenStays ==
  ASSUME NEW S, NEW t \in Seq(S), NEW a, NEW b, NEW i \in 0..Len(t),
         \A k \in (i + 1)..Len(t) : ~Takes(t, a, b, k)
  PROVE  TakenTo(t, a, b)[Len(t)] = TakenTo(t, a, b)[i]
<1> DEFINE m == Len(t) - i
<1>1. m \in Nat /\ i + m = Len(t) /\ i + m <= Len(t)
  OBVIOUS
<1>2. \A n \in Nat : i + n <= Len(t) => Continues(t, a, b, i, n)
  BY TakenPrefix
<1> HIDE DEF m
<1>3. Continues(t, a, b, i, m)
  BY <1>1, <1>2
<1> QED BY <1>1, <1>3 DEF Continues

LEMMA TakenBegins ==
  ASSUME NEW S, NEW t \in Seq(S), NEW a, NEW b, NEW i \in 0..Len(t)
  PROVE  /\ Len(TakenTo(t, a, b)[i]) <= Len(TakenTo(t, a, b)[Len(t)])
         /\ SubSeq(TakenTo(t, a, b)[Len(t)], 1, Len(TakenTo(t, a, b)[i])) = TakenTo(t, a, b)[i]
<1> DEFINE m == Len(t) - i
<1>1. m \in Nat /\ i + m = Len(t) /\ i + m <= Len(t)
  OBVIOUS
<1>2. \A n \in Nat : i + n <= Len(t) => Continues(t, a, b, i, n)
  BY TakenPrefix
<1> HIDE DEF m
<1>3. Continues(t, a, b, i, m)
  BY <1>1, <1>2
<1> QED BY <1>1, <1>3 DEF Continues

(* Where the pass is: at every place it has what the text says up to there, *)
(* and it stops only where nothing more is to come or where it is full.     *)
FileShape ==
    /\ ScanShape /\ scan.text \in Seq(Units) /\ scan.cap \in Nat /\ scan.at \in 0..Len(scan.text)
    /\ scan.start \in Nat \ {0} /\ scan.end \in Nat
    /\ scan.over \in BOOLEAN /\ scan.stopped \in BOOLEAN

Taken == TakenTo(scan.text, scan.start, scan.end)
Taking(i) == Takes(scan.text, scan.start, scan.end, i)

AllTaken == scan.out = Taken[Len(scan.text)] /\ Len(scan.out) <= scan.cap
CutOff ==
    /\ scan.at # 0 /\ Taking(scan.at)
    /\ scan.out = Taken[scan.at - 1] /\ Len(scan.out) = scan.cap

FileInv ==
    scan.of = "file" =>
        /\ FileShape
        /\ scan.stopped => scan.over /\ (AllTaken \/ CutOff)
        /\ ~scan.stopped => /\ scan.line = LineAt(scan.text, scan.at + 1)
                            /\ scan.out = Taken[scan.at] /\ Len(scan.out) <= scan.cap
                            /\ scan.over => scan.at = Len(scan.text)

(* What follows the loop leaves alone what the loop has found.             *)
Left(s, t) ==
    /\ Fields(t) /\ t.of = s.of /\ t.text = s.text /\ t.start = s.start /\ t.end = s.end
    /\ t.cap = s.cap /\ t.at = s.at /\ t.line = s.line /\ t.out = s.out

LEMMA FinishLeaves ==
  ASSUME NEW s, Fields(s)
  PROVE  /\ Left(s, Finish(s)) /\ Finish(s).over = TRUE /\ Finish(s).stopped = s.stopped
         /\ Left(s, Stop(s)) /\ Stop(s).over = TRUE /\ Stop(s).stopped = TRUE
         /\ Left(s, Truncate(s)) /\ Truncate(s).over = TRUE /\ Truncate(s).stopped = TRUE
<1> DEFINE Ends(r) == /\ Left(r, Finish(r)) /\ Finish(r).over = TRUE
                      /\ Finish(r).stopped = r.stopped
           Halts(r) == Left(r, Stop(r)) /\ Stop(r).over = TRUE /\ Stop(r).stopped = TRUE
<1>1. ASSUME NEW r, Fields(r) PROVE Ends(r)
  <2> DEFINE c == Clip(Lossy(r.out), r.cap)
             m == Mark(r)
  <2>1. Finish(r) = [r EXCEPT !.over = TRUE, !.content = c, !.truncated = m]
    BY DEF Finish
  <2> HIDE DEF c, m
  <2>2. Finish(r) = [of |-> r.of, text |-> r.text, start |-> r.start, end |-> r.end, cap |-> r.cap,
            at |-> r.at, line |-> r.line, last |-> r.last, out |-> r.out,
            content |-> c, truncated |-> m, stopped |-> r.stopped,
            over |-> TRUE, head |-> r.head, tail |-> r.tail, total |-> r.total]
    BY <1>1, <2>1 DEF Fields
  <2> QED BY <2>2 DEF Left, Fields
<1>2. ASSUME NEW r, Fields(r) PROVE Halts(r)
  <2> DEFINE q == [r EXCEPT !.stopped = TRUE]
  <2>1. Fields(q) /\ Left(r, q) /\ q.stopped = TRUE
    <3>0. q = [r EXCEPT !.stopped = TRUE]
      OBVIOUS
    <3> HIDE DEF q
    <3>1. q = [of |-> r.of, text |-> r.text, start |-> r.start, end |-> r.end, cap |-> r.cap,
            at |-> r.at, line |-> r.line, last |-> r.last, out |-> r.out,
            content |-> r.content, truncated |-> r.truncated, stopped |-> TRUE,
            over |-> r.over, head |-> r.head, tail |-> r.tail, total |-> r.total]
      BY <1>2, <3>0 DEF Fields
    <3> QED BY <3>0, <3>1 DEF Left, Fields
  <2>2. Stop(r) = Finish(q)
    BY DEF Stop
  <2> HIDE DEF q
  <2>3. Ends(q)
    BY <1>1, <2>1
  <2> QED BY <2>1, <2>2, <2>3 DEF Left
<1>3. Left(s, Truncate(s)) /\ Truncate(s).over = TRUE /\ Truncate(s).stopped = TRUE
  <2> DEFINE q == [s EXCEPT !.truncated = TRUE]
  <2>1. Fields(q) /\ Left(s, q)
    <3>0. q = [s EXCEPT !.truncated = TRUE]
      OBVIOUS
    <3> HIDE DEF q
    <3>1. q = [of |-> s.of, text |-> s.text, start |-> s.start, end |-> s.end, cap |-> s.cap,
            at |-> s.at, line |-> s.line, last |-> s.last, out |-> s.out,
            content |-> s.content, truncated |-> TRUE, stopped |-> s.stopped,
            over |-> s.over, head |-> s.head, tail |-> s.tail, total |-> s.total]
      BY <3>0 DEF Fields
    <3> QED BY <3>0, <3>1 DEF Left, Fields
  <2>2. Truncate(s) = Stop(q)
    BY DEF Truncate
  <2> HIDE DEF q
  <2>3. Halts(q)
    BY <1>2, <2>1
  <2> QED BY <2>1, <2>2, <2>3 DEF Left
<1>4. Ends(s) /\ Halts(s)
  BY <1>1, <1>2
<1> QED BY <1>3, <1>4

LEMMA FileInit ==
  ASSUME NEW text \in Seq(Units), NEW a \in Nat, NEW b \in Nat, NEW c \in Nat,
         scan = Reads(text, a, b, c)
  PROVE  FileInv
<1> DEFINE range == LineRange(a, b)
<1>1. range[1] \in Nat \ {0} /\ range[2] \in Nat
  BY DEF LineRange, None
<1> HIDE DEF range
<1>2. scan = [ScanIdle EXCEPT !.of = "file", !.text = text, !.start = range[1],
                              !.end = range[2], !.cap = c, !.last = range[1] - 1]
  BY DEF Reads, range
<1>3. /\ ScanShape /\ scan.text = text /\ scan.start = range[1] /\ scan.end = range[2]
      /\ scan.cap = c /\ scan.at = 0 /\ scan.line = 1 /\ scan.out = <<>>
      /\ scan.stopped = FALSE /\ scan.over = FALSE
  <2>1. /\ ScanIdle.at = 0 /\ ScanIdle.line = 1 /\ ScanIdle.out = <<>>
        /\ ScanIdle.stopped = FALSE /\ ScanIdle.over = FALSE
    BY DEF ScanIdle
  <2>2. ScanIdle = [of |-> ScanIdle.of, text |-> ScanIdle.text, start |-> ScanIdle.start,
                    end |-> ScanIdle.end, cap |-> ScanIdle.cap, at |-> ScanIdle.at,
                    line |-> ScanIdle.line, last |-> ScanIdle.last, out |-> ScanIdle.out,
                    content |-> ScanIdle.content,
                    truncated |-> ScanIdle.truncated, stopped |-> ScanIdle.stopped,
                    over |-> ScanIdle.over, head |-> ScanIdle.head, tail |-> ScanIdle.tail,
                    total |-> ScanIdle.total]
    BY DEF ScanIdle
  <2>3. /\ scan.text = text /\ scan.start = range[1] /\ scan.end = range[2] /\ scan.cap = c
        /\ scan.at = ScanIdle.at /\ scan.line = ScanIdle.line /\ scan.out = ScanIdle.out
        /\ scan.stopped = ScanIdle.stopped
        /\ scan.over = ScanIdle.over
    BY <1>2, <2>2
  <2>4. ScanShape
    BY <1>2, <2>2 DEF ScanShape, Fields
  <2> QED BY <2>1, <2>3, <2>4
<1>4. Taken[0] = <<>>
  BY <1>3, TakenIs DEF Taken
<1>5. LineAt(text, 0 + 1) = 1
  BY LineAtNext
<1>6. 0 \in 0..Len(text)
  OBVIOUS
<1>7. FileShape
  BY <1>1, <1>3, <1>6 DEF FileShape
<1>8. Len(scan.out) <= scan.cap
  BY <1>3
<1> QED BY <1>3, <1>4, <1>5, <1>7, <1>8 DEF FileInv

LEMMA FileStep == 
  ASSUME FileInv, Scan
  PROVE  FileInv'
<1> DEFINE text == scan.text
           N == Len(text)
           i == scan.at + 1
           c == text[i]
           seen == [scan EXCEPT !.at = i, !.last = IF InRange(scan.line) THEN scan.line ELSE @]
           takes == InRange(scan.line) /\ InRange(scan.line + 1)
           kept == IF takes THEN [seen EXCEPT !.out = Append(@, NL)] ELSE seen
<1>1. /\ FileShape /\ ~scan.over /\ ~scan.stopped /\ scan.line = LineAt(text, i)
      /\ scan.out = Taken[scan.at] /\ Len(scan.out) <= scan.cap
      /\ scan.at < N /\ scan.of = "file"
  BY DEF Scan, FileInv
<1>2. /\ text \in Seq(Units) /\ N \in Nat /\ i \in 1..N /\ i - 1 = scan.at /\ c \in Units
      /\ scan.at \in 0..N
  BY <1>1 DEF FileShape
<1>3. scan' = IF c = NL THEN Newline ELSE Character(c)
  BY DEF Scan
<1>4. /\ scan.line \in Nat \ {0}
      /\ LineAt(text, i + 1) = IF c = NL THEN scan.line + 1 ELSE scan.line
  <2>1. i \in Nat \ {0}
    BY <1>2
  <2> HIDE DEF i
  <2>2. /\ LineAt(text, i) \in Nat \ {0}
        /\ LineAt(text, i + 1) = IF c = NL THEN LineAt(text, i) + 1 ELSE LineAt(text, i)
    BY <2>1, LineAtNext, Zenon DEF c
  <2> QED BY <1>1, <2>2
<1>5. Taking(i) <=> InRange(scan.line) /\ (c = NL => InRange(scan.line + 1))
  BY <1>1 DEF Taking, Takes, Within, InRange
<1>6. /\ Taken \in [0..N -> Seq(Units)]
      /\ Taken[i] = IF Taking(i) THEN Append(scan.out, c) ELSE scan.out
  <2>1. /\ Taken \in [0..N -> Seq(Units)]
        /\ \A k \in 1..N : Taken[k] = IF Taking(k) THEN Append(Taken[k - 1], text[k])
                                      ELSE Taken[k - 1]
    BY <1>2, TakenIs DEF Taken, Taking
  <2> HIDE DEF i
  <2> QED BY <1>1, <1>2, <2>1 DEF c
<1>7. scan.out \in Seq(Units)
  BY <1>1, <1>2, <1>6
<1> DEFINE Like(s) == /\ s.text = scan.text /\ s.start = scan.start /\ s.end = scan.end
                      /\ s.cap = scan.cap /\ s.of = scan.of /\ Fields(s)
<1>8. /\ Like(seen) /\ seen.at = i /\ seen.line = scan.line /\ seen.out = scan.out
      /\ seen.stopped = FALSE /\ seen.over = FALSE
  <2> DEFINE l == IF InRange(scan.line) THEN scan.line ELSE scan.last
  <2>1. seen = [scan EXCEPT !.at = i, !.last = l]
    OBVIOUS
  <2>2. ScanShape /\ scan.stopped = FALSE /\ scan.over = FALSE
    BY <1>1 DEF FileShape
  <2> HIDE DEF i, l, seen
  <2> QED BY <2>1, <2>2 DEF ScanShape, Fields
<1> HIDE DEF seen
<1>13. ASSUME NEW s, Like(s), s.at = i, s.stopped \in BOOLEAN,
              s.over \in BOOLEAN, scan' = s
       PROVE  FileShape'
  <2>1. ScanShape'
    BY <1>13 DEF ScanShape, Fields
  <2>2. i \in 0..N
    BY <1>2
  <2>3. /\ scan.text \in Seq(Units) /\ scan.cap \in Nat
        /\ scan.start \in Nat \ {0} /\ scan.end \in Nat
    BY <1>1 DEF FileShape
  <2>4. /\ s.text = scan.text /\ s.start = scan.start /\ s.end = scan.end /\ s.cap = scan.cap
    BY <1>13
  <2> HIDE DEF i
  <2> QED BY <1>13, <2>1, <2>2, <2>3, <2>4 DEF FileShape
<1>9. ASSUME scan' = Truncate(seen), Taking(i), Full PROVE FileInv'
  <2>1. /\ Like(scan') /\ scan'.at = i /\ scan'.out = scan.out
        /\ scan'.stopped = TRUE /\ scan'.over = TRUE
    <3>1. Left(seen, scan') /\ scan'.stopped = TRUE /\ scan'.over = TRUE
      BY <1>8, <1>9, FinishLeaves
    <3> HIDE DEF i
    <3> QED BY <1>8, <3>1 DEF Left
  <2>2. Len(scan.out) = scan.cap
    BY <1>1, <1>7, <1>9 DEF Full, FileShape
  <2>3. FileShape'
    <3> HIDE DEF i, Like
    <3> QED BY <1>13, <2>1
  <2>4. Taken' = Taken /\ i # 0 /\ Taking(scan.at)'
    <3>1. i # 0
      BY <1>2
    <3> HIDE DEF i
    <3>2. scan'.at = i /\ Takes(scan'.text, scan'.start, scan'.end, i)
      BY <1>9, <2>1 DEF Taking
    <3> QED BY <2>1, <3>1, <3>2 DEF Taken, Taking
  <2>5. scan'.out = Taken[i - 1]
    BY <1>1, <1>2, <2>1
  <2> HIDE DEF i, Like
  <2>6. CutOff'
    BY <2>1, <2>2, <2>4, <2>5 DEF Like, CutOff
  <2> QED BY <1>9, <2>1, <2>3, <2>6 DEF FileInv, Like
<1>10. ASSUME NEW s, Like(s), s.at = i, s.stopped = FALSE, s.over = FALSE,
              s.out = Taken[i], Len(s.out) <= scan.cap, s.line = LineAt(text, i + 1), scan' = s
       PROVE  FileInv'
  <2>1. FileShape'
    <3> HIDE DEF i, Like
    <3> QED BY <1>10, <1>13
  <2>2. Taken' = Taken
    BY <1>10 DEF Taken
  <2> HIDE DEF i
  <2> QED BY <1>10, <2>1, <2>2 DEF FileInv
<1>11. CASE c = NL
  <2>1. Newline = IF takes /\ Full THEN Truncate(seen)
                  ELSE IF scan.end # None /\ scan.line >= scan.end THEN Stop(kept)
                  ELSE [kept EXCEPT !.line = @ + 1]
    BY DEF Newline, NewlineTaken, seen
  <2>2. Taking(i) <=> takes
    BY <1>5, <1>11
  <2>3. CASE takes /\ Full
    BY <1>3, <1>9, <1>11, <2>1, <2>2, <2>3
  <2>4. CASE ~(takes /\ Full) /\ scan.end # None /\ scan.line >= scan.end
    <3>1. ~takes
      BY <1>1, <1>4, <2>4 DEF InRange, FileShape
    <3>2. scan' = Stop(seen)
      BY <1>3, <1>11, <2>1, <2>4, <3>1
    <3>3. /\ Like(scan') /\ scan'.at = i /\ scan'.out = scan.out
          /\ scan'.stopped = TRUE /\ scan'.over = TRUE
      <4>1. Left(seen, scan') /\ scan'.stopped = TRUE /\ scan'.over = TRUE
        BY <1>8, <3>2, FinishLeaves
      <4> HIDE DEF i
      <4> QED BY <1>8, <4>1 DEF Left
    <3>4. ASSUME NEW k \in i..N PROVE ~Taking(k)
      <4>1. CASE k = i
        BY <2>2, <3>1, <4>1
      <4>2. CASE k # i
        <5>1. (i + 1) \in Nat \ {0} /\ k - (i + 1) \in Nat /\ (i + 1) + (k - (i + 1)) = k
          <6> HIDE DEF i, N
          <6> QED BY <1>2, <4>2
        <5>2. LineAt(text, i + 1) <= LineAt(text, (i + 1) + (k - (i + 1)))
          BY <5>1, LineAtGrows, Zenon
        <5>3. scan.line + 1 <= LineAt(text, k)
          BY <1>4, <1>11, <5>1, <5>2
        <5>4. LineAt(text, k) \in Nat
          <6>1. k \in Nat \ {0}
            BY <1>2
          <6> QED BY <6>1, LineAtNext
        <5>5. ~Within(LineAt(text, k), scan.start, scan.end)
          BY <1>1, <1>4, <2>4, <5>3, <5>4 DEF Within, FileShape
        <5> QED BY <5>5 DEF Taking, Takes
      <4> QED BY <4>1, <4>2
    <3>5. Taken[N] = Taken[scan.at]
      <4>1. scan.at \in 0..Len(text) /\ text \in Seq(Units)
        BY <1>2
      <4>2. \A k \in (scan.at + 1)..Len(text) : ~Takes(text, scan.start, scan.end, k)
        BY <3>4 DEF Taking
      <4> HIDE DEF text, i
      <4>3. TakenTo(text, scan.start, scan.end)[Len(text)]
              = TakenTo(text, scan.start, scan.end)[scan.at]
        BY <4>1, <4>2, TakenStays
      <4> QED BY <4>3 DEF Taken, text
    <3>6. FileShape'
      <4> HIDE DEF i, Like
      <4> QED BY <1>13, <3>3
    <3>7. Taken' = Taken
      BY <3>3 DEF Taken
    <3> HIDE DEF i
    <3>8. AllTaken'
      BY <1>1, <3>3, <3>5, <3>7 DEF AllTaken
    <3> QED BY <1>1, <3>3, <3>6, <3>8 DEF FileInv
  <2>5. CASE ~(takes /\ Full) /\ ~(scan.end # None /\ scan.line >= scan.end)
    <3>1. scan' = [kept EXCEPT !.line = @ + 1]
      BY <1>3, <1>11, <2>1, <2>5
    <3> DEFINE o == IF takes THEN Append(scan.out, NL) ELSE scan.out
    <3>2. scan' = [seen EXCEPT !.out = o, !.line = scan.line + 1]
      <4>1. CASE takes
        BY <1>8, <3>1, <4>1 DEF Fields
      <4>2. CASE ~takes
        BY <1>8, <3>1, <4>2 DEF Fields
      <4> QED BY <4>1, <4>2
    <3>3. /\ Like(scan') /\ scan'.at = i /\ scan'.out = o /\ scan'.line = scan.line + 1
          /\ scan'.stopped = FALSE /\ scan'.over = FALSE
      <4> HIDE DEF i, o
      <4> QED BY <1>8, <3>2 DEF Fields
    <3>4. o = Taken[i]
      BY <1>6, <1>11, <2>2
    <3>5. Len(o) <= scan.cap
      <4>1. CASE takes
        <5>1. ~Full
          BY <2>5, <4>1
        <5>2. Len(o) = Len(scan.out) + 1
          BY <1>2, <1>7, <1>11, <4>1
        <5> QED BY <1>1, <1>7, <5>1, <5>2 DEF Full, FileShape
      <4>2. CASE ~takes
        BY <1>1, <4>2
      <4> QED BY <4>1, <4>2
    <3>6. scan'.line = LineAt(text, i + 1)
      BY <1>4, <1>11, <3>3
    <3> HIDE DEF o, takes, i, Like
    <3> QED BY <1>10, <3>3, <3>4, <3>5, <3>6
  <2> QED BY <2>3, <2>4, <2>5
<1>12. CASE c # NL
  <2>1. Character(c) = IF ~InRange(scan.line) THEN seen
                       ELSE IF Full THEN Truncate(seen)
                       ELSE [seen EXCEPT !.out = Append(@, c)]
    BY DEF Character, seen
  <2>2. Taking(i) <=> InRange(scan.line)
    BY <1>5, <1>12
  <2>3. CASE InRange(scan.line) /\ Full
    BY <1>3, <1>9, <1>12, <2>1, <2>2, <2>3
  <2>4. CASE ~InRange(scan.line)
    <3>1. scan' = seen
      BY <1>3, <1>12, <2>1, <2>4
    <3>2. seen.out = Taken[i] /\ seen.line = LineAt(text, i + 1) /\ Len(seen.out) <= scan.cap
      BY <1>1, <1>4, <1>6, <1>8, <1>12, <2>2, <2>4
    <3> HIDE DEF i, Like
    <3> QED BY <1>8, <1>10, <3>1, <3>2
  <2>5. CASE InRange(scan.line) /\ ~Full
    <3> DEFINE o == Append(scan.out, c)
    <3>1. scan' = [seen EXCEPT !.out = o]
      BY <1>3, <1>8, <1>12, <2>1, <2>5 DEF Fields
    <3>2. /\ Like(scan') /\ scan'.at = i /\ scan'.out = o /\ scan'.line = scan.line
          /\ scan'.stopped = FALSE /\ scan'.over = FALSE
      <4> HIDE DEF i, o
      <4> QED BY <1>8, <3>1 DEF Fields
    <3>3. o = Taken[i]
      BY <1>6, <2>2, <2>5
    <3>4. Len(o) <= scan.cap
      <4>1. Len(o) = Len(scan.out) + 1
        BY <1>2, <1>7
      <4> QED BY <1>1, <1>7, <2>5, <4>1 DEF Full, FileShape
    <3>5. scan'.line = LineAt(text, i + 1)
      BY <1>4, <1>12, <3>2
    <3> HIDE DEF o, i, Like
    <3> QED BY <1>10, <3>2, <3>3, <3>4, <3>5
  <2> QED BY <2>3, <2>4, <2>5
<1> QED BY <1>11, <1>12

LEMMA EndStep ==
  ASSUME FileInv, EndOfFile
  PROVE  FileInv' /\ scan'.of = "file"
<1>1. scan' = Finish(scan) /\ scan.at = Len(scan.text) /\ ~scan.over /\ scan.of = "file"
  BY DEF EndOfFile
<1>2. FileShape /\ ~scan.stopped /\ scan.line = LineAt(scan.text, scan.at + 1)
      /\ scan.out = Taken[scan.at] /\ Len(scan.out) <= scan.cap
  BY <1>1 DEF FileInv
<1>3. /\ scan'.text = scan.text /\ scan'.start = scan.start /\ scan'.end = scan.end
      /\ scan'.cap = scan.cap /\ scan'.at = scan.at /\ scan'.line = scan.line
      /\ scan'.out = scan.out
      /\ scan'.stopped = scan.stopped /\ scan'.over = TRUE /\ scan'.of = "file" /\ ScanShape'
  <2>1. Fields(scan)
    BY <1>2 DEF FileShape, ScanShape
  <2>2. Left(scan, scan') /\ scan'.over = TRUE /\ scan'.stopped = scan.stopped
    BY <1>1, <2>1, FinishLeaves
  <2> QED BY <1>1, <2>2 DEF Left, ScanShape, Fields
<1>4. FileShape'
  BY <1>2, <1>3 DEF FileShape
<1>5. Taken' = Taken
  BY <1>3 DEF Taken
<1> QED BY <1>1, <1>2, <1>3, <1>4, <1>5 DEF FileInv

LEMMA FileHolds == FileInv => LinesAreExact
<1> SUFFICES ASSUME FileInv, scan.of = "file", scan.over PROVE LinesAreExact
  BY DEF LinesAreExact
<1> DEFINE text == scan.text
           N == Len(text)
           E == Taken[N]
<1>1. FileShape /\ text \in Seq(Units) /\ N \in Nat /\ scan.cap \in Nat /\ scan.at \in 0..N
  BY DEF FileInv, FileShape
<1>2. Excerpt = E
  BY DEF Excerpt, ChosenTo, Chosen, InRange, LineOf, Taken, TakenTo, Takes, Within, LineAt
<1>3. /\ Taken \in [0..N -> Seq(Units)]
      /\ \A k \in 1..N : Taken[k] = IF Taking(k) THEN Append(Taken[k - 1], text[k])
                                    ELSE Taken[k - 1]
  BY <1>1, TakenIs DEF Taken, Taking
<1>4. E \in Seq(Units) /\ Len(E) \in Nat
  <2>1. N \in 0..N
    BY <1>1
  <2>2. E \in Seq(Units)
    BY <1>3, <2>1
  <2> QED BY <2>2
<1>5. scan.out = SubSeq(E, 1, Lesser(scan.cap, Len(E)))
  <2>1. CASE ~(scan.stopped /\ CutOff)
    <3>1. scan.out = E /\ Len(E) <= scan.cap
      BY <1>1, <2>1 DEF FileInv, AllTaken
    <3>2. Lesser(scan.cap, Len(E)) = Len(E)
      BY <1>1, <1>4, <3>1 DEF Lesser
    <3> HIDE DEF E
    <3>3. SubSeq(E, 1, Len(E)) = E
      BY <1>4
    <3> QED BY <1>1, <1>4, <2>1, <3>1, <3>2, <3>3
  <2>2. CASE scan.stopped /\ CutOff
    <3> DEFINE i == scan.at
               O == Taken[i - 1]
    <3>1. i \in 1..N /\ i - 1 \in 0..N /\ Taking(i) /\ scan.out = O /\ Len(O) = scan.cap
      BY <1>1, <2>2 DEF CutOff
    <3>2. O \in Seq(Units) /\ text[i] \in Units
      BY <1>1, <1>3, <3>1
    <3>3. Taken[i] = Append(O, text[i])
      BY <1>3, <3>1
    <3> HIDE DEF O
    <3>4. Len(Taken[i]) = scan.cap + 1 /\ Taken[i] \in Seq(Units) /\ SubSeq(Taken[i], 1, scan.cap) = O
      BY <1>1, <3>1, <3>2, <3>3
    <3>5. Len(Taken[i]) <= Len(E) /\ SubSeq(E, 1, Len(Taken[i])) = Taken[i]
      <4>1. i \in 0..Len(text)
        BY <3>1
      <4> HIDE DEF i, text
      <4>2. /\ Len(TakenTo(text, scan.start, scan.end)[i])
                 <= Len(TakenTo(text, scan.start, scan.end)[Len(text)])
            /\ SubSeq(TakenTo(text, scan.start, scan.end)[Len(text)], 1,
                      Len(TakenTo(text, scan.start, scan.end)[i]))
                 = TakenTo(text, scan.start, scan.end)[i]
        BY <1>1, <4>1, TakenBegins
      <4> QED BY <4>2 DEF Taken, text
    <3>6. scan.cap + 1 <= Len(E) /\ Lesser(scan.cap, Len(E)) = scan.cap
      BY <1>1, <1>4, <3>4, <3>5 DEF Lesser
    <3>7. SubSeq(SubSeq(E, 1, scan.cap + 1), 1, scan.cap) = SubSeq(E, 1, scan.cap)
      <4> HIDE DEF E
      <4> DEFINE c == scan.cap
                 x == SubSeq(SubSeq(E, 1, c + 1), 1, c)
                 y == SubSeq(E, 1, c)
      <4>1. c \in Nat /\ c + 1 <= Len(E)
        BY <1>1, <3>6
      <4> HIDE DEF c
      <4>2. /\ SubSeq(E, 1, c + 1) \in Seq(Units) /\ Len(SubSeq(E, 1, c + 1)) = c + 1
            /\ \A j \in 1..(c + 1) : SubSeq(E, 1, c + 1)[j] = E[j]
        BY <1>4, <4>1
      <4>3. y \in Seq(Units) /\ Len(y) = c /\ \A j \in 1..c : y[j] = E[j]
        BY <1>4, <4>1
      <4>4. x \in Seq(Units) /\ Len(x) = c /\ \A j \in 1..c : x[j] = E[j]
        <5> DEFINE z == SubSeq(E, 1, c + 1)
        <5> HIDE DEF z
        <5>1. /\ SubSeq(z, 1, c) \in Seq(Units) /\ Len(SubSeq(z, 1, c)) = c
              /\ \A j \in 1..c : SubSeq(z, 1, c)[j] = z[j]
          BY <4>1, <4>2 DEF z
        <5>2. \A j \in 1..c : z[j] = E[j]
          BY <4>1, <4>2 DEF z
        <5> QED BY <5>1, <5>2 DEF z
      <4>5. Len(x) = Len(y) /\ \A j \in 1..Len(x) : x[j] = y[j]
        BY <4>3, <4>4
      <4>6. x \in Seq(Units) /\ y \in Seq(Units)
        BY <4>3, <4>4
      <4> HIDE DEF x, y
      <4>7. x = y
        BY <4>5, <4>6, SeqEqual
      <4> QED BY <4>7 DEF x, y, c
    <3> HIDE DEF E
    <3> QED BY <1>1, <1>4, <2>2, <3>1, <3>4, <3>5, <3>6, <3>7
  <2> QED BY <2>1, <2>2
<1>6. TotalExact => TotalLines = Lines
  <2> SUFFICES ASSUME ~scan.stopped PROVE TotalLines = Lines
    BY DEF TotalExact
  <2>1. scan.at = N /\ scan.line = LineAt(text, N + 1)
    BY DEF FileInv
  <2>2. CASE text = <<>>
    BY <2>1, <2>2 DEF TotalLines, Lines
  <2>3. CASE text # <<>>
    <3>1. N \in Nat \ {0}
      BY <1>1, <2>3
    <3>2. LineAt(text, N) \in Nat
          /\ LineAt(text, N + 1) = IF text[N] = NL THEN LineAt(text, N) + 1 ELSE LineAt(text, N)
      <4> HIDE DEF N
      <4> QED BY <3>1, LineAtNext
    <3>3. LineOf(N) = LineAt(text, N)
      BY DEF LineOf, LineAt
    <3>4. Lines = LineAt(text, N)
      BY <2>3, <3>3 DEF Lines
    <3> HIDE DEF N
    <3> QED BY <2>1, <3>1, <3>2, <3>4 DEF TotalLines
  <2> QED BY <2>2, <2>3
<1> HIDE DEF E
<1> QED BY <1>2, <1>5, <1>6 DEF LinesAreExact

ScanInv == CaptureInv /\ FileInv

LEMMA ScanInvInit == Init => ScanInv
<1> SUFFICES ASSUME Init PROVE ScanInv
  OBVIOUS
<1>1. CASE part # "scan"
  <2>1. scan.of = "nothing"
    BY <1>1 DEF Init, ScanIdle
  <2> QED BY <2>1 DEF ScanInv, CaptureInv, FileInv
<1>2. CASE part = "scan"
  <2>1. ScanStarts
    BY <1>2 DEF Init, RunStarts, AuditStarts, ApiStarts, EditStarts
  <2>2. CASE \E text \in UNION {BoundedSeq(units, MaxText) : units \in Alphabets},
                 w \in Windows : scan = Reads(text, w[1], w[2], w[3])
    <3>1. PICK text \in UNION {BoundedSeq(units, MaxText) : units \in Alphabets},
               w \in Windows : scan = Reads(text, w[1], w[2], w[3])
      BY <2>2
    <3>2. w[1] \in Nat /\ w[2] \in Nat /\ w[3] \in Nat
      BY WindowsAssumption
    <3>3. text \in Seq(Units)
      <4>1. PICK units \in Alphabets : text \in BoundedSeq(units, MaxText)
        BY <3>1
      <4>2. PICK m \in 0..MaxText : text \in [1..m -> units]
        BY <4>1 DEF BoundedSeq, SeqOf
      <4>3. m \in Nat /\ units \subseteq Units
        BY TextAssumption DEF Units
      <4> QED BY <4>2, <4>3
    <3>4. FileInv
      BY <3>1, <3>2, <3>3, FileInit
    <3>5. scan.of = "file"
      BY <3>1 DEF Reads, ScanIdle
    <3> QED BY <3>4, <3>5 DEF ScanInv, CaptureInv
  <2>3. CASE \E limit \in Limits : scan = Capture(limit)
    <3>1. PICK limit \in Limits : scan = Capture(limit)
      BY <2>3
    <3>2. CaptureInv
      BY <3>1, CaptureInit, LimitsAssumption
    <3>3. scan.of = "output"
      BY <3>1 DEF Capture, ScanIdle
    <3> QED BY <3>2, <3>3 DEF ScanInv, FileInv
  <2> QED BY <2>1, <2>2, <2>3 DEF ScanStarts
<1> QED BY <1>1, <1>2

LEMMA FileOf ==
  ASSUME FileInv, Scan
  PROVE  scan'.of = "file"
<1> DEFINE c == scan.text[scan.at + 1]
           p == scan.at + 1
           l == IF InRange(scan.line) THEN scan.line ELSE scan.last
           seen == [scan EXCEPT !.at = p, !.last = l]
           o == Append(scan.out, NL)
           q == Append(scan.out, c)
           kept == IF InRange(scan.line) /\ InRange(scan.line + 1)
                   THEN [seen EXCEPT !.out = o] ELSE seen
           Is(s) == s.of = "file" /\ Fields(s)
<1>1. ScanShape /\ scan.of = "file"
  BY DEF Scan, FileInv, FileShape
<1>2. Is(seen) /\ seen.line = scan.line /\ seen.out = scan.out
  <2>1. seen = [scan EXCEPT !.at = p, !.last = l]
    OBVIOUS
  <2> HIDE DEF p, l, seen
  <2> QED BY <1>1, <2>1 DEF ScanShape, Fields
<1> HIDE DEF p, l
<1>3. seen = [scan EXCEPT !.at = @ + 1, !.last = IF InRange(scan.line) THEN scan.line ELSE @]
  BY <1>1 DEF p, l, ScanShape, Fields
<1> HIDE DEF seen
<1>4. Is(kept)
  <2> HIDE DEF o
  <2> QED BY <1>2 DEF Fields
<1>5. Newline \in {Truncate(seen), Stop(kept), [kept EXCEPT !.line = @ + 1]}
  BY <1>2, <1>3 DEF Newline, NewlineTaken
<1>6. Character(c) \in {seen, Truncate(seen), [seen EXCEPT !.out = q]}
  BY <1>2, <1>3 DEF Character
<1> HIDE DEF kept, q, c
<1>7. scan' \in {Truncate(seen), Stop(kept), [kept EXCEPT !.line = @ + 1], seen,
                 [seen EXCEPT !.out = q]}
  BY <1>5, <1>6 DEF Scan, c
<1>8. /\ Truncate(seen).of = "file" /\ Stop(kept).of = "file"
      /\ [kept EXCEPT !.line = @ + 1].of = "file" /\ [seen EXCEPT !.out = q].of = "file"
  <2>1. Left(seen, Truncate(seen)) /\ Left(kept, Stop(kept))
    BY <1>2, <1>4, FinishLeaves
  <2>2. [kept EXCEPT !.line = @ + 1].of = "file" /\ [seen EXCEPT !.out = q].of = "file"
    BY <1>2, <1>4 DEF Fields
  <2> QED BY <1>2, <1>4, <2>1, <2>2 DEF Left
<1> QED BY <1>2, <1>7, <1>8

LEMMA OutputOf ==
  ASSUME CaptureInv, NEW n \in Nat, ReadOutput(n)
  PROVE  scan'.of = "output"
<1> DEFINE B == [i \in 1..n |-> scan.total + i]
           toHead == Lesser(HeadLimit - Len(scan.head), Len(B))
           rest == SubSeq(B, toHead + 1, Len(B))
           m == scan.total + Len(B)
           h == scan.head \o SubSeq(B, 1, toHead)
           x == <<SubSeq(rest, Len(rest) - TailLimit + 1, Len(rest))>>
           y == CutToLimit(Append(scan.tail, rest))
           counted == [scan EXCEPT !.total = m, !.head = h]
<1>1. ScanShape /\ scan.of = "output"
  BY DEF ReadOutput, CaptureInv
<1>2. Push(B) = IF TailLimit = 0 \/ rest = <<>> THEN [scan EXCEPT !.total = @ + Len(B),
                                                  !.head = @ \o SubSeq(B, 1, toHead)]
                ELSE IF Len(rest) >= TailLimit
                THEN [[scan EXCEPT !.total = @ + Len(B), !.head = @ \o SubSeq(B, 1, toHead)]
                         EXCEPT !.tail = x]
                ELSE [[scan EXCEPT !.total = @ + Len(B), !.head = @ \o SubSeq(B, 1, toHead)]
                         EXCEPT !.tail = CutToLimit(Append(@, rest))]
  BY DEF Push
<1> HIDE DEF B, toHead, rest, x
<1>3. /\ counted = [scan EXCEPT !.total = @ + Len(B), !.head = @ \o SubSeq(B, 1, toHead)]
      /\ counted.tail = scan.tail
  <2>1. counted = [scan EXCEPT !.total = @ + Len(B), !.head = @ \o SubSeq(B, 1, toHead)]
    BY <1>1 DEF ScanShape, Fields
  <2> HIDE DEF m, h
  <2>2. counted.tail = scan.tail
    BY <1>1 DEF ScanShape, Fields
  <2> QED BY <2>1, <2>2
<1>4. scan' = Push(B)
  BY DEF ReadOutput, B
<1> HIDE DEF m, h
<1>5. counted.of = "output" /\ \A z : [counted EXCEPT !.tail = z].of = "output"
  BY <1>1 DEF ScanShape, Fields
<1> HIDE DEF counted
<1>6. Push(B) \in {counted, [counted EXCEPT !.tail = x], [counted EXCEPT !.tail = y]}
  BY <1>2, <1>3
<1> HIDE DEF y
<1> QED BY <1>4, <1>5, <1>6

LEMMA ScanInvNext == ScanInv /\ [Next]_vars => ScanInv'
<1> SUFFICES ASSUME ScanInv, [Next]_vars PROVE ScanInv'
  OBVIOUS
<1>1. CASE UNCHANGED scan
  <2>1. CaptureInv' = CaptureInv
    BY <1>1 DEF CaptureInv, ScanShape, Fields, InHead, InTail, HeadLimit, TailLimit
  <2>2. FileInv' = FileInv
    BY <1>1 DEF FileInv, FileShape, ScanShape, Fields, AllTaken, CutOff, Taken, Taking
  <2> QED BY <2>1, <2>2 DEF ScanInv
<1>2. CASE Scan
  <2>1. FileInv'
    BY <1>2, FileStep DEF ScanInv
  <2>2. scan'.of = "file"
    BY <1>2, FileOf DEF ScanInv
  <2> QED BY <2>1, <2>2 DEF ScanInv, CaptureInv
<1>3. CASE EndOfFile
  <2>1. FileInv'
    BY <1>3, EndStep DEF ScanInv
  <2>2. scan'.of = "file"
    BY <1>3, EndStep DEF ScanInv
  <2> QED BY <2>1, <2>2 DEF ScanInv, CaptureInv
<1>4. ASSUME NEW n \in 1..MaxChunk, ReadOutput(n) PROVE ScanInv'
  <2>1. n \in Nat \ {0} /\ n \in Nat
    BY TextAssumption
  <2>2. CaptureInv'
    BY <1>4, <2>1, CaptureStep DEF ScanInv
  <2>3. scan'.of = "output"
    BY <1>4, <2>1, OutputOf DEF ScanInv
  <2> QED BY <2>2, <2>3 DEF ScanInv, FileInv
<1> QED BY <1>1, <1>2, <1>3, <1>4 DEF Next, vars, ScanStep

(* However an output arrives, what is kept of it is all of it or its       *)
(* beginning and its end, for outputs, limits and reads of every length.   *)
THEOREM KeepsHeadAndTailHolds == Spec => []KeepsHeadAndTail
<1>1. ScanInv => KeepsHeadAndTail
  BY CaptureHolds DEF ScanInv
<1> QED BY <1>1, ScanInvInit, ScanInvNext, PTL DEF Spec

(* The one pass over a file that stops as soon as it can has the units and *)
(* the lines that the whole text says, for texts, ranges and caps of every *)
(* size.                                                                   *)
THEOREM LinesAreExactHolds == Spec => []LinesAreExact
<1>1. ScanInv => LinesAreExact
  BY FileHolds DEF ScanInv
<1> QED BY <1>1, ScanInvInit, ScanInvNext, PTL DEF Spec

-----------------------------------------------------------------------------
(***************************************************************************)
(* The replacements of an edit. What is to be written is glued together of *)
(* a piece for every place of the original.                                *)
(***************************************************************************)
Glued(p, k) == FlattenSeq([i \in 1..k |-> p[i]])

LEMMA GluedNext ==
  ASSUME NEW S, NEW n \in Nat, NEW p \in [1..n -> Seq(S)]
  PROVE  /\ Glued(p, 0) = <<>>
         /\ \A k \in 0..n : Glued(p, k) \in Seq(S)
         /\ \A k \in 0..n : k + 1 <= n => Glued(p, k + 1) = Glued(p, k) \o p[k + 1]
<1> DEFINE q(k) == [i \in 1..k |-> p[i]]
<1>1. \A k \in 0..n : q(k) \in Seq(Seq(S)) /\ Len(q(k)) = k
  <2> TAKE k \in 0..n
  <2>1. k \in Nat /\ \A i \in 1..k : p[i] \in Seq(S)
    OBVIOUS
  <2>2. q(k) \in [1..k -> Seq(S)]
    BY <2>1
  <2>3. q(k) \in Seq(Seq(S))
    BY <2>1, <2>2
  <2> QED BY <2>1, <2>3
<1>2. q(0) = <<>>
  OBVIOUS
<1>3. ASSUME NEW k \in 0..n, k + 1 <= n PROVE q(k + 1) = Append(q(k), p[k + 1])
  <2>1. k \in Nat /\ k \in 0..n /\ k + 1 \in 0..n /\ k + 1 \in 1..n
    BY <1>3
  <2>2. q(k) \in Seq(Seq(S)) /\ Len(q(k)) = k /\ p[k + 1] \in Seq(S)
    BY <1>1, <2>1
  <2>3. \A i \in 1..k : q(k)[i] = p[i]
    OBVIOUS
  <2>4. \A i \in 1..(k + 1) : q(k + 1)[i] = p[i]
    OBVIOUS
  <2>5. q(k + 1) \in Seq(Seq(S)) /\ Len(q(k + 1)) = k + 1
    BY <1>1, <2>1
  <2> DEFINE x == q(k + 1)
             y == Append(q(k), p[k + 1])
  <2>6. y \in Seq(Seq(S)) /\ Len(y) = k + 1 /\ y[k + 1] = p[k + 1]
        /\ \A i \in 1..k : y[i] = p[i]
    <3> DEFINE z == q(k)
    <3> HIDE DEF z
    <3> QED BY <2>1, <2>2, <2>3
  <2>7. \A i \in 1..(k + 1) : i = k + 1 \/ i \in 1..k
    BY <2>1
  <2> HIDE DEF q, y
  <2>8. Len(x) = Len(y) /\ \A i \in 1..Len(x) : x[i] = y[i]
    BY <2>4, <2>5, <2>6, <2>7
  <2> HIDE DEF x
  <2>9. x = y
    BY <2>5, <2>6, <2>8, SeqEqual DEF x
  <2> QED BY <2>9 DEF x, y
<1>4. \A k \in 0..n : Glued(p, k) = FlattenSeq(q(k))
  BY DEF Glued
<1> HIDE DEF q
<1>5. Glued(p, 0) = <<>>
  <2>1. 0 \in 0..n
    OBVIOUS
  <2> QED BY <1>2, <1>4, <2>1, FlattenEmpty
<1>6. \A k \in 0..n : Glued(p, k) \in Seq(S)
  BY <1>1, <1>4, FlattenType
<1>7. ASSUME NEW k \in 0..n, k + 1 <= n PROVE Glued(p, k + 1) = Glued(p, k) \o p[k + 1]
  <2>1. k + 1 \in 0..n /\ p[k + 1] \in Seq(S) /\ q(k) \in Seq(Seq(S))
    BY <1>1, <1>7
  <2>2. FlattenSeq(Append(q(k), p[k + 1])) = FlattenSeq(q(k)) \o p[k + 1]
    BY <2>1, FlattenAppend
  <2> QED BY <1>3, <1>4, <1>7, <2>1, <2>2
<1> QED BY <1>5, <1>6, <1>7

(* A stretch of pieces that are the letters of the text, and one of empty  *)
(* pieces.                                                                 *)
LEMMA GluedLetters ==
  ASSUME NEW S, NEW t \in Seq(S), NEW p \in [1..Len(t) -> Seq(S)], NEW a \in 0..Len(t),
         NEW b \in 0..Len(t), a <= b, \A i \in (a + 1)..b : p[i] = <<t[i]>>
  PROVE  Glued(p, b) = Glued(p, a) \o SubSeq(t, a + 1, b)
<1> DEFINE n == Len(t)
           P(k) == Glued(p, a + k) = Glued(p, a) \o SubSeq(t, a + 1, a + k)
           T == {k \in Nat : a + k <= b => P(k)}
<1>0. n \in Nat /\ a \in Nat /\ b \in Nat
  OBVIOUS
<1>1. /\ n \in Nat /\ a \in Nat /\ b \in Nat
      /\ \A k \in 0..n : Glued(p, k) \in Seq(S)
      /\ \A k \in 0..n : k + 1 <= n => Glued(p, k + 1) = Glued(p, k) \o p[k + 1]
  <2>1. p \in [1..n -> Seq(S)]
    OBVIOUS
  <2> HIDE DEF n
  <2>2. /\ Glued(p, 0) = <<>>
        /\ \A k \in 0..n : Glued(p, k) \in Seq(S)
        /\ \A k \in 0..n : k + 1 <= n => Glued(p, k + 1) = Glued(p, k) \o p[k + 1]
    BY <1>0, <2>1, GluedNext, Zenon
  <2> QED BY <1>0, <2>2
<1>2. 0 \in T
  <2>1. SubSeq(t, a + 1, a + 0) = <<>> /\ a + 0 = a /\ Glued(p, a) \in Seq(S)
    BY <1>1
  <2> HIDE DEF T
  <2>2. Glued(p, a) \o <<>> = Glued(p, a)
    BY <2>1
  <2> QED BY <2>1, <2>2 DEF T
<1>3. ASSUME NEW k \in Nat, k \in T PROVE k + 1 \in T
  <2> SUFFICES ASSUME a + (k + 1) <= b PROVE P(k + 1)
    <3> HIDE DEF P
    <3> QED OBVIOUS
  <2>0. P(k)
    <3> HIDE DEF P
    <3> QED BY <1>0, <1>3
  <2> DEFINE m == a + k
  <2>1. m \in 0..n /\ m + 1 <= n /\ m + 1 = a + (k + 1) /\ m + 1 \in (a + 1)..b /\ m + 1 \in 1..n
    BY <1>1
  <2>2. Glued(p, m) = Glued(p, a) \o SubSeq(t, a + 1, m)
    BY <2>0
  <2> HIDE DEF m, T
  <2>3. Glued(p, m + 1) = Glued(p, m) \o <<t[m + 1]>>
    BY <1>1, <2>1
  <2>4. SubSeq(t, a + 1, m + 1) = SubSeq(t, a + 1, m) \o <<t[m + 1]>>
    <3> DEFINE x == SubSeq(t, a + 1, m + 1)
               y == SubSeq(t, a + 1, m)
               z == y \o <<t[m + 1]>>
    <3>1. m = a + k /\ k \in Nat /\ m \in Nat
      BY <1>1, <2>1 DEF m
    <3>2. x \in Seq(S) /\ Len(x) = k + 1 /\ \A i \in 1..(k + 1) : x[i] = t[a + i]
      BY <1>1, <2>1, <3>1
    <3>3. y \in Seq(S) /\ Len(y) = k /\ \A i \in 1..k : y[i] = t[a + i]
      BY <1>1, <2>1, <3>1
    <3> HIDE DEF y
    <3>4. t[m + 1] \in S
      BY <2>1
    <3>5. z \in Seq(S) /\ Len(z) = k + 1 /\ z[k + 1] = t[m + 1] /\ \A i \in 1..k : z[i] = y[i]
      BY <3>1, <3>3, <3>4
    <3>6. \A i \in 1..(k + 1) : i = k + 1 \/ i \in 1..k
      BY <3>1
    <3> HIDE DEF x, z
    <3>7. a + (k + 1) = m + 1
      BY <2>1
    <3>10. \A i \in 1..(k + 1) : x[i] = z[i]
      <4> TAKE i \in 1..(k + 1)
      <4>1. CASE i = k + 1
        BY <3>2, <3>5, <3>7, <4>1
      <4>2. CASE i \in 1..k
        BY <3>2, <3>3, <3>5, <4>2
      <4> QED BY <3>6, <4>1, <4>2
    <3>8. Len(x) = Len(z) /\ \A i \in 1..Len(x) : x[i] = z[i]
      BY <3>2, <3>5, <3>10
    <3>9. x = z
      BY <3>2, <3>5, <3>8, SeqEqual
    <3> QED BY <3>9 DEF x, y, z
  <2>5. SubSeq(t, a + 1, m) \in Seq(S) /\ <<t[m + 1]>> \in Seq(S) /\ Glued(p, a) \in Seq(S)
    BY <1>1, <2>1 DEF m
  <2>6. (Glued(p, a) \o SubSeq(t, a + 1, m)) \o <<t[m + 1]>>
           = Glued(p, a) \o (SubSeq(t, a + 1, m) \o <<t[m + 1]>>)
    <3>1. Joined(Glued(p, a), SubSeq(t, a + 1, m), <<t[m + 1]>>)
      BY <2>5, JoinedSame, Zenon
    <3> QED BY <3>1 DEF Joined
  <2> QED BY <2>1, <2>2, <2>3, <2>4, <2>6
<1>4. Nat \subseteq T
  <2> HIDE DEF T
  <2> QED BY <1>2, <1>3, NatSetInduction
<1>5. b - a \in Nat /\ a + (b - a) = b /\ a + (b - a) <= b
  BY <1>1
<1>6. P(b - a)
  <2> HIDE DEF P
  <2> QED BY <1>4, <1>5
<1> QED BY <1>5, <1>6

LEMMA GluedNothing ==
  ASSUME NEW S, NEW n \in Nat, NEW p \in [1..n -> Seq(S)], NEW a \in 0..n,
         NEW b \in 0..n, a <= b, \A i \in (a + 1)..b : p[i] = <<>>
  PROVE  Glued(p, b) = Glued(p, a)
<1> DEFINE P(k) == Glued(p, a + k) = Glued(p, a)
           T == {k \in Nat : a + k <= b => P(k)}
<1>0. a \in Nat /\ b \in Nat
  OBVIOUS
<1>1. /\ a \in Nat /\ b \in Nat
      /\ \A k \in 0..n : Glued(p, k) \in Seq(S)
      /\ \A k \in 0..n : k + 1 <= n => Glued(p, k + 1) = Glued(p, k) \o p[k + 1]
  <2>2. /\ Glued(p, 0) = <<>>
        /\ \A k \in 0..n : Glued(p, k) \in Seq(S)
        /\ \A k \in 0..n : k + 1 <= n => Glued(p, k + 1) = Glued(p, k) \o p[k + 1]
    BY GluedNext, Zenon
  <2> QED BY <1>0, <2>2
<1>2. 0 \in T
  BY <1>1
<1>3. ASSUME NEW k \in Nat, k \in T PROVE k + 1 \in T
  <2> SUFFICES ASSUME a + (k + 1) <= b PROVE Glued(p, a + (k + 1)) = Glued(p, a)
    OBVIOUS
  <2> DEFINE m == a + k
  <2>1. m \in 0..n /\ m + 1 <= n /\ m + 1 = a + (k + 1) /\ m + 1 \in (a + 1)..b
    BY <1>1
  <2>2. Glued(p, m) = Glued(p, a)
    BY <1>1, <1>3, <2>1
  <2> HIDE DEF m, T
  <2>3. Glued(p, m + 1) = Glued(p, m) \o <<>> /\ Glued(p, a) \in Seq(S)
    BY <1>1, <2>1
  <2>4. Glued(p, a) \o <<>> = Glued(p, a)
    BY <2>3
  <2> QED BY <2>1, <2>2, <2>3, <2>4
<1>4. Nat \subseteq T
  <2> HIDE DEF T
  <2> QED BY <1>2, <1>3, NatSetInduction
<1>5. b - a \in Nat /\ a + (b - a) = b /\ a + (b - a) <= b
  BY <1>1
<1>6. P(b - a)
  <2> HIDE DEF P
  <2> QED BY <1>4, <1>5
<1> QED BY <1>5, <1>6


LEMMA Least ==
  ASSUME NEW A \in SUBSET Nat, A # {}
  PROVE  \E i \in A : \A j \in A : i <= j
<1> DEFINE T == {n \in Nat : \A i \in Nat : i <= n => i \notin A}
<1>1. SUFFICES ASSUME ~ \E i \in A : \A j \in A : i <= j PROVE FALSE
  OBVIOUS
<1>2. 0 \in T
  BY <1>1
<1>3. ASSUME NEW n \in Nat, n \in T PROVE n + 1 \in T
  <2>1. \A i \in Nat : i <= n + 1 => i <= n \/ i = n + 1
    OBVIOUS
  <2>2. n + 1 \notin A
    <3>1. \A j \in A : j \in Nat /\ ~(j <= n)
      BY <1>3
    <3>2. \A j \in A : n + 1 <= j
      BY <3>1
    <3> QED BY <1>1, <3>2
  <2> QED BY <1>3, <2>1, <2>2
<1>4. Nat \subseteq T
  <2> HIDE DEF T
  <2> QED BY <1>2, <1>3, NatSetInduction
<1>5. \A i \in Nat : i \notin A
  BY <1>4
<1> QED BY <1>5

(* Where a text is found: at the first of its matches.                     *)
LEMMA FindIs ==
  ASSUME NEW S, NEW s \in Seq(S), NEW o \in Seq(S), o # <<>>
  PROVE  /\ Len(s) \in Nat /\ Len(o) \in Nat \ {0}
         /\ Matches(s, o) \subseteq 1..Len(s)
         /\ \A i \in Matches(s, o) : i + Len(o) <= Len(s) + 1
         /\ Find(s, o) = 0 <=> Matches(s, o) = {}
         /\ Find(s, o) # 0 => /\ Find(s, o) \in Matches(s, o)
                              /\ \A i \in Matches(s, o) : Find(s, o) <= i
<1> DEFINE M == Matches(s, o)
<1>1. Len(s) \in Nat /\ Len(o) \in Nat \ {0}
  BY EmptySeq
<1>2. M \subseteq 1..Len(s) /\ \A i \in M : i + Len(o) <= Len(s) + 1
  BY <1>1 DEF Matches
<1>3. 0 \notin M /\ M \in SUBSET Nat
  BY <1>1, <1>2
<1>4. Find(s, o) = IF M = {} THEN 0 ELSE CHOOSE i \in M : \A j \in M : i <= j
  BY DEF Find, First
<1> HIDE DEF M
<1>5. CASE M = {}
  BY <1>1, <1>2, <1>4, <1>5 DEF M
<1>6. CASE M # {}
  <2>1. \E i \in M : \A j \in M : i <= j
    BY <1>3, <1>6, Least
  <2>2. Find(s, o) \in M /\ \A i \in M : Find(s, o) <= i
    BY <1>4, <1>6, <2>1
  <2> QED BY <1>1, <1>2, <1>3, <1>6, <2>2 DEF M
<1> QED BY <1>5, <1>6

(* A match in what is left of a text is a match in the text.               *)
LEMMA MatchesInRest ==
  ASSUME NEW S, NEW t \in Seq(S), NEW o \in Seq(S), o # <<>>, NEW a \in 0..Len(t),
         NEW k \in Nat \ {0}
  PROVE  /\ SubSeq(t, a + 1, Len(t)) \in Seq(S) /\ Len(SubSeq(t, a + 1, Len(t))) = Len(t) - a
         /\ k \in Matches(SubSeq(t, a + 1, Len(t)), o) <=> a + k \in Matches(t, o)
<1> DEFINE n == Len(t)
           l == Len(o)
           r == SubSeq(t, a + 1, n)
<1>1. n \in Nat /\ l \in Nat \ {0} /\ a \in Nat
  BY FindIs
<1>2. r \in Seq(S) /\ Len(r) = n - a /\ \A i \in 1..(n - a) : r[i] = t[a + i]
  BY <1>1
<1>3. k \in 1..(Len(r) - l + 1) <=> a + k \in 1..(n - l + 1)
  BY <1>1, <1>2
<1>4. ASSUME k \in 1..(Len(r) - l + 1)
      PROVE  SubSeq(r, k, k + l - 1) = SubSeq(t, a + k, a + k + l - 1)
  <2> DEFINE x == SubSeq(r, k, k + l - 1)
             y == SubSeq(t, a + k, a + k + l - 1)
  <2>1. k + l - 1 <= n - a /\ 1 <= k /\ k <= k + l - 1
    BY <1>1, <1>2, <1>4
  <2> HIDE DEF n, l, r
  <2>2. x \in Seq(S) /\ Len(x) = l /\ \A i \in 1..l : x[i] = r[k + i - 1]
    <3>1. \A i \in k..(k + l - 1) : r[i] \in S
      BY <1>1, <1>2, <2>1
    <3>2. k \in Int /\ k + l - 1 \in Int /\ (k + l - 1) - k + 1 = l
      BY <1>1
    <3> QED BY <1>1, <2>1, <3>1, <3>2, SubSeqProperties
  <2>3. y \in Seq(S) /\ Len(y) = l /\ \A i \in 1..l : y[i] = t[a + k + i - 1]
    <3>1. \A i \in (a + k)..(a + k + l - 1) : t[i] \in S
      BY <1>1, <2>1 DEF n
    <3>2. a + k \in Int /\ a + k + l - 1 \in Int /\ (a + k + l - 1) - (a + k) + 1 = l
          /\ a + k <= a + k + l - 1
      BY <1>1
    <3> QED BY <1>1, <3>1, <3>2, SubSeqProperties
  <2>4. \A i \in 1..l : x[i] = y[i]
    <3> TAKE i \in 1..l
    <3>1. k + i - 1 \in 1..(n - a) /\ a + (k + i - 1) = a + k + i - 1
      BY <1>1, <2>1
    <3> QED BY <1>2, <2>2, <2>3, <3>1
  <2> HIDE DEF x, y
  <2>5. x = y
    BY <2>2, <2>3, <2>4, SeqEqual
  <2> QED BY <2>5 DEF x, y
<1>5. k \in Matches(r, o) <=> k \in 1..(Len(r) - l + 1) /\ SubSeq(r, k, k + l - 1) = o
  BY DEF Matches
<1>6. a + k \in Matches(t, o) <=> a + k \in 1..(n - l + 1)
                                  /\ SubSeq(t, a + k, a + k + l - 1) = o
  BY DEF Matches
<1> HIDE DEF l, n
<1>7. k \in Matches(r, o) <=> a + k \in Matches(t, o)
  BY <1>3, <1>4, <1>5, <1>6
<1> QED BY <1>2, <1>7 DEF n

GreedyOf(t, o) ==
    LET g[i \in 0..Len(t)] ==
          IF i = 0 THEN {}
          ELSE IF i \in Matches(t, o) /\ \A j \in g[i - 1] : j + Len(o) <= i
               THEN g[i - 1] \cup {i} ELSE g[i - 1]
    IN g[Len(t)]

(* The leftmost matches that do not overlap: each match that no chosen one *)
(* before it overlaps is chosen.                                           *)
LEMMA GreedyIs ==
  ASSUME NEW S, NEW t \in Seq(S), NEW o \in Seq(S), o # <<>>
  PROVE  /\ GreedyOf(t, o) \subseteq Matches(t, o)
         /\ \A i \in Matches(t, o) :
               i \in GreedyOf(t, o) <=> \A j \in GreedyOf(t, o) : j < i => j + Len(o) <= i
<1> DEFINE N == Len(t)
           L == Len(o)
           M == Matches(t, o)
           Q == SUBSET (1..N)
           Clear(i, A) == i \in M /\ \A j \in A : j + L <= i
           g == [p \in (1..N) \X Q |-> IF Clear(p[1], p[2]) THEN p[2] \cup {p[1]} ELSE p[2]]
           Is(h) == h = [i \in 0..N |->
                           IF i = 0 THEN {}
                           ELSE IF i \in M /\ \A j \in h[i - 1] : j + L <= i
                                THEN h[i - 1] \cup {i} ELSE h[i - 1]]
           F == CHOOSE h : Is(h)
<1>1. N \in Nat /\ L \in Nat \ {0} /\ M \subseteq 1..N /\ {} \in Q
  BY FindIs
<1>2. g \in [(1..N) \X Q -> Q]
  <2> HIDE DEF N, Clear
  <2> QED OBVIOUS
<1>3. PICK f : Unrolls(f, N, Q, {}, g)
  <2> HIDE DEF N, Q, g
  <2> QED BY <1>1, <1>2, Recursion
<1>4. f \in [0..N -> Q] /\ f[0] = {} /\ \A i \in 1..N : f[i] = g[<<i, f[i - 1]>>]
  BY <1>3 DEF Unrolls
<1>5. ASSUME NEW i \in 1..N
      PROVE  f[i] = IF Clear(i, f[i - 1]) THEN f[i - 1] \cup {i} ELSE f[i - 1]
  <2>1. i - 1 \in 0..N
    BY <1>1
  <2>2. <<i, f[i - 1]>> \in (1..N) \X Q
    BY <2>1, <1>4
  <2> HIDE DEF N, Q, Clear
  <2> QED BY <2>2, <1>4
<1>6. Is(f)
  <2>1. f = [i \in 0..N |-> f[i]]
    BY <1>4
  <2>2. \A i \in 0..N : i = 0 \/ i \in 1..N
    BY <1>1
  <2> HIDE DEF N, Q, g, M, L
  <2> QED BY <2>1, <2>2, <1>4, <1>5
<1>7. Is(F)
  <2> HIDE DEF Is
  <2> QED BY <1>6
<1>8. GreedyOf(t, o) = F[N]
  BY DEF GreedyOf
<1> HIDE DEF F, g
<1>9. F = [i \in 0..N |-> F[i]] /\ \A i \in 0..N : F[i] = IF i = 0 THEN {}
                           ELSE IF Clear(i, F[i - 1]) THEN F[i - 1] \cup {i} ELSE F[i - 1]
  <2> HIDE DEF N, M, L
  <2> QED BY <1>7
<1> HIDE DEF Is
<1>10. F[0] = {} /\ \A i \in 1..N : F[i] = IF Clear(i, F[i - 1]) THEN F[i - 1] \cup {i}
                                          ELSE F[i - 1]
  <2>1. 0 \in 0..N /\ \A i \in 1..N : i \in 0..N /\ i # 0
    BY <1>1
  <2> HIDE DEF N, Clear
  <2> QED BY <1>9, <2>1
<1> DEFINE P(k) == F[k] \subseteq 1..k /\ \A i \in 0..k : F[i] = {j \in F[k] : j <= i}
           T == {k \in Nat : k <= N => P(k)}
<1>11. 0 \in T
  BY <1>10
<1>12. ASSUME NEW k \in Nat, k \in T PROVE k + 1 \in T
  <2> SUFFICES ASSUME k + 1 <= N PROVE P(k + 1)
    <3> HIDE DEF P
    <3> QED OBVIOUS
  <2>1. P(k)
    <3> HIDE DEF P
    <3> QED BY <1>1, <1>12
  <2>2. k + 1 \in 1..N /\ (k + 1) - 1 = k
    BY <1>1
  <2>3. F[k + 1] = F[k] \cup {k + 1} \/ F[k + 1] = F[k]
    <3> HIDE DEF Clear, N
    <3> QED BY <1>10, <2>2
  <2> HIDE DEF N, L, M
  <2>4. F[k + 1] \subseteq 1..(k + 1)
    BY <2>1, <2>3
  <2>5. ASSUME NEW i \in 0..(k + 1) PROVE F[i] = {j \in F[k + 1] : j <= i}
    <3>1. CASE i = k + 1
      BY <2>4, <3>1
    <3>2. CASE i \in 0..k
      <4>1. F[i] = {j \in F[k] : j <= i}
        BY <2>1, <3>2
      <4>2. ~(k + 1 <= i)
        BY <3>2
      <4> QED BY <2>3, <4>1, <4>2
    <3> QED BY <3>1, <3>2
  <2> QED BY <2>4, <2>5
<1>13. Nat \subseteq T
  <2> HIDE DEF T
  <2> QED BY <1>11, <1>12, NatSetInduction
<1>14. P(N)
  <2> HIDE DEF P
  <2> QED BY <1>1, <1>13
<1>15. ASSUME NEW i \in 1..N PROVE i \in F[N] <=> Clear(i, {j \in F[N] : j < i})
  <2>1. i \in 0..N /\ i - 1 \in 0..N /\ i \in Nat
    BY <1>1
  <2>2. F[i] = {j \in F[N] : j <= i} /\ F[i - 1] = {j \in F[N] : j <= i - 1}
        /\ F[N] \subseteq 1..N
    BY <1>14, <2>1
  <2> HIDE DEF N, M, L
  <2>3. \A j \in F[N] : j <= i - 1 <=> j < i
    BY <2>1, <2>2
  <2>4. F[i - 1] = {j \in F[N] : j < i}
    BY <2>2, <2>3
  <2>5. i \in F[N] <=> i \in F[i]
    BY <2>1, <2>2
  <2>6. i \notin F[i - 1]
    BY <2>1, <2>4
  <2>7. i \in F[i] <=> Clear(i, F[i - 1])
    <3> HIDE DEF Clear
    <3> QED BY <1>10, <2>6
  <2> QED BY <2>4, <2>5, <2>7
<1>16. F[N] \subseteq M
  BY <1>14, <1>15
<1> HIDE DEF N, M, L, F
<1>17. \A i \in M : i \in F[N] <=> \A j \in F[N] : j < i => j + L <= i
  BY <1>1, <1>15
<1> QED BY <1>8, <1>16, <1>17 DEF M, L


LEMMA PartOfRest ==
  ASSUME NEW S, NEW t \in Seq(S), NEW a \in 0..Len(t), NEW x \in Nat \ {0}, NEW y \in Nat,
         y <= Len(t) - a
  PROVE  SubSeq(SubSeq(t, a + 1, Len(t)), x, y) = SubSeq(t, a + x, a + y)
<1> DEFINE n == Len(t)
           r == SubSeq(t, a + 1, n)
           u == SubSeq(r, x, y)
           v == SubSeq(t, a + x, a + y)
<1>1. n \in Nat /\ a \in Nat /\ a <= n
  OBVIOUS
<1>2. r \in Seq(S) /\ Len(r) = n - a /\ \A i \in 1..(n - a) : r[i] = t[a + i]
  BY <1>1
<1>3. \A i \in 1..n : t[i] \in S
  OBVIOUS
<1> HIDE DEF n, r
<1>4. /\ u \in Seq(S) /\ Len(u) = IF x <= y THEN y - x + 1 ELSE 0
      /\ \A i \in 1..(y - x + 1) : u[i] = r[x + i - 1]
  <2>1. \A i \in x..y : r[i] \in S
    <3>1. \A i \in x..y : i \in 1..(n - a)
      BY <1>1 DEF n
    <3>2. \A i \in 1..(n - a) : r[i] \in S
      <4>1. \A i \in 1..(n - a) : a + i \in 1..n
        BY <1>1
      <4> QED BY <1>2, <1>3, <4>1
    <3> QED BY <3>1, <3>2
  <2>2. x \in Int /\ y \in Int
    OBVIOUS
  <2> QED BY <2>1, <2>2, SubSeqProperties
<1>5. /\ v \in Seq(S) /\ Len(v) = IF a + x <= a + y THEN (a + y) - (a + x) + 1 ELSE 0
      /\ \A i \in 1..((a + y) - (a + x) + 1) : v[i] = t[(a + x) + i - 1]
  <2>1. \A i \in (a + x)..(a + y) : t[i] \in S
    <3>1. \A i \in (a + x)..(a + y) : i \in 1..n
      BY <1>1 DEF n
    <3> QED BY <1>3, <3>1
  <2>2. a + x \in Int /\ a + y \in Int
    BY <1>1
  <2> QED BY <2>1, <2>2, SubSeqProperties
<1> HIDE DEF u, v
<1>6. Len(u) = Len(v)
  BY <1>1, <1>4, <1>5
<1>7. \A i \in 1..Len(u) : u[i] = v[i]
  <2> TAKE i \in 1..Len(u)
  <2>1. i \in 1..(y - x + 1) /\ i \in 1..((a + y) - (a + x) + 1)
    BY <1>1, <1>4
  <2>2. x + i - 1 \in 1..(n - a) /\ a + (x + i - 1) = (a + x) + i - 1
    BY <1>1, <2>1 DEF n
  <2> QED BY <1>2, <1>4, <1>5, <2>1, <2>2
<1>8. u = v
  BY <1>4, <1>5, <1>6, <1>7, SeqEqual
<1> QED BY <1>8 DEF u, v, r, n

-----------------------------------------------------------------------------
ReplacedOf(t, o, c) ==
    {i \in GreedyOf(t, o) : c = 0 \/ Cardinality({j \in GreedyOf(t, o) : j < i}) < c}
Covers(A, o, i) == \E j \in A : j <= i /\ i < j + Len(o)
PiecesOf(t, o, w, c) ==
    [i \in 1..Len(t) |->
       CASE i \in ReplacedOf(t, o, c) -> w
         [] i \notin ReplacedOf(t, o, c) /\ Covers(ReplacedOf(t, o, c), o, i) -> <<>>
         [] OTHER -> <<t[i]>>]

(* After the first a places m of the matches are replaced.                 *)
SoFar(t, o, c, m, a) ==
    /\ a \in 0..Len(t)
    /\ \A j \in GreedyOf(t, o) : j <= a => j + Len(o) <= a + 1
    /\ m = Cardinality({j \in GreedyOf(t, o) : j <= a})
    /\ c # 0 => m <= c

LEMMA PiecesAre ==
  ASSUME NEW S, NEW t \in Seq(S), NEW o \in Seq(S), NEW w \in Seq(S), NEW c \in Nat
  PROVE  PiecesOf(t, o, w, c) \in [1..Len(t) -> Seq(S)]
<1> DEFINE R == ReplacedOf(t, o, c)
           p(i) == CASE i \in R -> w
                     [] i \notin R /\ Covers(R, o, i) -> <<>>
                     [] OTHER -> <<t[i]>>
<1>1. ASSUME NEW i \in 1..Len(t) PROVE p(i) \in Seq(S)
  <2> HIDE DEF R
  <2>1. <<>> \in Seq(S) /\ <<t[i]>> \in Seq(S)
    OBVIOUS
  <2>2. p(i) \in {w, <<>>, <<t[i]>>}
    OBVIOUS
  <2> QED BY <2>1, <2>2
<1> HIDE DEF p
<1>2. [i \in 1..Len(t) |-> p(i)] \in [1..Len(t) -> Seq(S)]
  BY <1>1
<1> QED BY <1>2 DEF PiecesOf, p

LEMMA FoundFinite ==
  ASSUME NEW S, NEW t \in Seq(S), NEW o \in Seq(S), o # <<>>, NEW B \in SUBSET GreedyOf(t, o)
  PROVE  IsFiniteSet(B) /\ Cardinality(B) \in Nat /\ B \subseteq 1..Len(t)
<1>1. B \in SUBSET (1..Len(t))
  BY GreedyIs, FindIs
<1>2. IsFiniteSet(1..Len(t))
  <2>1. Len(t) \in Int /\ 1 \in Int
    OBVIOUS
  <2> QED BY <2>1, FS_Interval
<1>3. IsFiniteSet(B)
  BY <1>1, <1>2, FS_Subset, Zenon
<1> QED BY <1>1, <1>3, FS_CardinalityType

(* What was met so far is replaced, however few are to be.                 *)
LEMMA MetAreReplaced ==
  ASSUME NEW S, NEW t \in Seq(S), NEW o \in Seq(S), o # <<>>, NEW c \in Nat, NEW m, NEW a,
         SoFar(t, o, c, m, a)
  PROVE  \A j \in GreedyOf(t, o) : j <= a => j \in ReplacedOf(t, o, c)
<1> DEFINE G == GreedyOf(t, o)
           A == {j \in G : j <= a}
<1> SUFFICES ASSUME NEW q \in G, q <= a, c # 0 PROVE Cardinality({j \in G : j < q}) < c
  BY DEF ReplacedOf
<1> DEFINE B == {j \in G : j < q}
<1>1. G \subseteq 1..Len(t) /\ a \in Nat
  <2>1. G \in SUBSET GreedyOf(t, o)
    OBVIOUS
  <2>2. a \in Nat
    BY DEF SoFar
  <2> HIDE DEF G
  <2> QED BY <2>1, <2>2, FoundFinite
<1>2. A \in SUBSET G /\ B \in SUBSET A
  <2>1. \A j \in G : j < q => j <= a
    BY <1>1
  <2> HIDE DEF G
  <2> QED BY <2>1
<1>3. IsFiniteSet(A) /\ Cardinality(A) \in Nat
  BY <1>2, FoundFinite
<1>4. q \in A /\ q \notin B
  BY <1>1
<1>5. Cardinality(A) <= c
  BY DEF SoFar
<1> HIDE DEF A, B, G
<1>6. /\ IsFiniteSet(B) /\ Cardinality(B) <= Cardinality(A)
      /\ Cardinality(A) = Cardinality(B) => A = B
  BY <1>2, <1>3, FS_Subset
<1>7. Cardinality(B) \in Nat
  BY <1>6, FS_CardinalityType
<1>8. Cardinality(B) < Cardinality(A)
  BY <1>3, <1>4, <1>6, <1>7
<1> QED BY <1>3, <1>5, <1>7, <1>8 DEF B

(* Of n characters, where a match of length L at k of those after the      *)
(* first a begins, q, and where it ends, b.                                *)
MatchedAt(n, L, a, k, q, b) ==
    /\ q \in Nat \ {0} /\ b \in Nat /\ b + 1 = q + L
    /\ a < q /\ a + 1 <= q /\ q <= b /\ q <= n /\ b <= n /\ q + L <= n + 1
    /\ q - 1 \in Nat /\ (q - 1) + 1 = q /\ a <= q - 1 /\ q - 1 = a + k - 1

LEMMA MatchIsAt ==
  ASSUME NEW n \in Nat, NEW L \in Nat \ {0}, NEW a \in Nat, NEW k \in Nat \ {0},
         k + L <= (n - a) + 1
  PROVE  MatchedAt(n, L, a, k, a + k, a + k + L - 1)
<1> DEFINE q == a + k
           b == a + k + L - 1
<1>1. q \in Nat \ {0} /\ q = a + k /\ q + L <= n + 1
  OBVIOUS
<1>2. b = q + L - 1
  OBVIOUS
<1>3. q - 1 = a + k - 1
  OBVIOUS
<1> HIDE DEF q, b
<1>4. b \in Nat /\ b + 1 = q + L /\ q <= b /\ b <= n /\ q <= n
  BY <1>1, <1>2
<1>5. a < q /\ a + 1 <= q /\ q - 1 \in Nat /\ (q - 1) + 1 = q /\ a <= q - 1
  BY <1>1
<1>6. MatchedAt(n, L, a, k, q, b)
  BY <1>1, <1>3, <1>4, <1>5 DEF MatchedAt
<1> QED BY <1>6 DEF q, b

(* The next match that is found is the next that is to be replaced.        *)
Advances(t, o, w, c, m, a, k) ==
    /\ k \in Nat \ {0} /\ a + k + Len(o) <= Len(t) + 1
    /\ SoFar(t, o, c, m + 1, a + k + Len(o) - 1)
    /\ Glued(PiecesOf(t, o, w, c), a + k + Len(o) - 1)
          = (Glued(PiecesOf(t, o, w, c), a) \o SubSeq(t, a + 1, a + k - 1)) \o w

LEMMA FindsNext ==
  ASSUME NEW S, NEW t \in Seq(S), NEW o \in Seq(S), o # <<>>, NEW w \in Seq(S), NEW c \in Nat,
         NEW m \in Nat, NEW a, SoFar(t, o, c, m, a), c = 0 \/ m < c, NEW k,
         k = Find(SubSeq(t, a + 1, Len(t)), o), k # 0
  PROVE  Advances(t, o, w, c, m, a, k)
<1> DEFINE n == Len(t)
           L == Len(o)
           r == SubSeq(t, a + 1, n)
           G == GreedyOf(t, o)
           R == ReplacedOf(t, o, c)
           p == PiecesOf(t, o, w, c)
           q == a + k
           b == a + k + L - 1
           A == {j \in G : j <= a}
           B == {j \in G : j <= b}
<1>1. n \in Nat /\ L \in Nat \ {0} /\ a \in 0..n /\ a \in Nat
  BY FindIs DEF SoFar
<1>2. r \in Seq(S) /\ Len(r) = n - a
        /\ \A i \in Nat \ {0} : i \in Matches(r, o) <=> a + i \in Matches(t, o)
  <2>1. \A i \in Nat \ {0} : /\ r \in Seq(S) /\ Len(r) = n - a
                             /\ i \in Matches(r, o) <=> a + i \in Matches(t, o)
    BY <1>1, MatchesInRest
  <2>2. 1 \in Nat \ {0}
    OBVIOUS
  <2> HIDE DEF r, n
  <2> QED BY <2>1, <2>2
<1>3. /\ k \in Matches(r, o) /\ \A i \in Matches(r, o) : k <= i
      /\ Matches(r, o) \subseteq 1..Len(r) /\ \A i \in Matches(r, o) : i + L <= Len(r) + 1
  <2> HIDE DEF r
  <2>1. k = Find(r, o)
    BY DEF r
  <2> QED BY <1>2, <2>1, FindIs
<1>4. k \in Nat \ {0} /\ q \in Matches(t, o) /\ k + L <= (n - a) + 1
  <2>1. k \in Nat \ {0} /\ k + L <= Len(r) + 1
    BY <1>1, <1>2, <1>3
  <2>2. a + k \in Matches(t, o)
    BY <1>2, <1>3, <2>1
  <2>3. Len(r) = n - a
    BY <1>2
  <2> HIDE DEF n, L, r
  <2> QED BY <2>1, <2>2, <2>3
<1>a. /\ q \in Nat \ {0} /\ b \in Nat /\ b + 1 = q + L
      /\ a < q /\ a + 1 <= q /\ q <= b /\ q <= n /\ b <= n /\ q + L <= n + 1
      /\ q - 1 \in Nat /\ (q - 1) + 1 = q /\ a <= q - 1 /\ q - 1 = a + k - 1
  <2> HIDE DEF n, L, r, G
  <2>1. n \in Nat /\ L \in Nat \ {0} /\ a \in Nat
    BY <1>1
  <2>2. k \in Nat \ {0} /\ k + L <= (n - a) + 1
    BY <1>4
  <2>3. MatchedAt(n, L, a, k, q, b)
    BY <2>1, <2>2, MatchIsAt, Zenon
  <2> HIDE DEF q, b
  <2> QED BY <2>3 DEF MatchedAt
<1>5. G \subseteq Matches(t, o) /\ \A i \in Matches(t, o) : i \in G <=> \A j \in G : j < i => j + L <= i
  BY GreedyIs
<1>6. G \subseteq 1..n
  BY FoundFinite
<1>7. \A j \in G : j <= a => j + L <= a + 1
  BY DEF SoFar
<1> HIDE DEF n, L, G, r
<1>8. \A j \in G : j < q => j <= a
  <2> SUFFICES ASSUME NEW j \in G, j < q, ~(j <= a) PROVE FALSE
    OBVIOUS
  <2>1. j \in Nat /\ a \in Nat /\ k \in Nat /\ j < a + k
    BY <1>1, <1>6, <1>4
  <2>3. j - a \in Nat \ {0} /\ a + (j - a) = j /\ j - a < k
    BY <2>1
  <2>2. j - a \in Matches(r, o)
    <3>1. j \in Matches(t, o)
      BY <1>5
    <3> HIDE DEF q, b
    <3> QED BY <1>2, <2>3, <3>1
  <2>4. k <= j - a
    BY <1>3, <2>2
  <2> QED BY <1>4, <2>3, <2>4
<1> HIDE DEF q, b
<1>9. q \in G
  <2>1. \A j \in G : j < q => j + L <= q
    <3> TAKE j \in G
    <3> HAVE j < q
    <3>1. j + L <= a + 1 /\ j \in Nat
      BY <1>6, <1>7, <1>8
    <3> QED BY <1>1, <1>a, <3>1
  <2> QED BY <1>4, <1>5, <2>1
<1>10. \A j \in G : q < j => q + L <= j
  BY <1>5, <1>9
<1>11. b \in Nat /\ b \in 0..n /\ q <= b /\ b + 1 = q + L
  BY <1>1, <1>a
<1>12. B = A \cup {q} /\ q \notin A
  <2>1. \A j \in G : j <= b => j <= a \/ j = q
    <3> TAKE j \in G
    <3> HAVE j <= b
    <3>1. j \in Nat
      BY <1>6
    <3>2. CASE j < q
      BY <1>8, <3>2
    <3>3. CASE q < j
      <4>1. q + L <= j
        BY <1>10, <3>3
      <4> QED BY <1>1, <1>a, <3>1, <4>1
    <3> QED BY <1>a, <3>1, <3>2, <3>3
  <2>2. \A j \in G : j <= a => j <= b
    BY <1>1, <1>a, <1>6
  <2>3. ~(q <= a)
    BY <1>1, <1>a
  <2>4. q <= b
    BY <1>11
  <2> QED BY <1>9, <2>1, <2>2, <2>3, <2>4
<1>13. IsFiniteSet(A) /\ Cardinality(A) = m
  <2>1. A \in SUBSET GreedyOf(t, o)
    BY DEF G
  <2>2. Cardinality(A) = m
    BY DEF SoFar, G
  <2> HIDE DEF A
  <2> QED BY <2>1, <2>2, FoundFinite
<1>14. Cardinality(B) = m + 1
  <2> HIDE DEF A, B
  <2> QED BY <1>12, <1>13, FS_AddElement
<1>15. SoFar(t, o, c, m + 1, b)
  <2>1. \A j \in G : j <= b => j + L <= b + 1
    <3> TAKE j \in G
    <3> HAVE j <= b
    <3>1. j \in A \/ j = q
      BY <1>12
    <3>2. CASE j \in A
      <4>1. j + L <= a + 1 /\ j \in Nat
        BY <1>6, <1>7, <3>2
      <4>2. a + 1 <= b + 1 /\ b + 1 \in Nat /\ a + 1 \in Nat
        BY <1>1, <1>a
      <4> QED BY <1>1, <4>1, <4>2
    <3>3. CASE j = q
      BY <1>1, <1>a, <3>3
    <3> QED BY <3>1, <3>2, <3>3
  <2>2. c # 0 => m + 1 <= c
    OBVIOUS
  <2>3. m + 1 = Cardinality({j \in G : j <= b})
    BY <1>14
  <2> QED BY <1>11, <2>1, <2>2, <2>3 DEF SoFar, G, L, n
<1>16. q \in R /\ R \subseteq G
  <2>1. R \subseteq G
    BY DEF ReplacedOf, G
  <2>2. q \in R
    <3>1. SoFar(t, o, c, m + 1, b) /\ q \in GreedyOf(t, o) /\ q <= b
      BY <1>9, <1>11, <1>15 DEF G
    <3> HIDE DEF R
    <3>2. \A j \in GreedyOf(t, o) : j <= b => j \in ReplacedOf(t, o, c)
      BY <3>1, MetAreReplaced
    <3> QED BY <3>1, <3>2 DEF R
  <2> QED BY <2>1, <2>2
<1>17. /\ p \in [1..n -> Seq(S)]
       /\ \A i \in 1..n : p[i] = CASE i \in R -> w
                                   [] i \notin R /\ Covers(R, o, i) -> <<>>
                                   [] OTHER -> <<t[i]>>
  <2>1. p \in [1..n -> Seq(S)]
    BY PiecesAre DEF n
  <2> QED BY <2>1 DEF PiecesOf, n
<1> HIDE DEF R, p
<1>18. \A i \in (a + 1)..(q - 1) : p[i] = <<t[i]>>
  <2> TAKE i \in (a + 1)..(q - 1)
  <2>1. i \in 1..n /\ i \in Nat /\ a < i /\ i < q
    BY <1>1, <1>a
  <2>2. i \notin R
    BY <1>1, <1>8, <1>16, <2>1
  <2>3. ~Covers(R, o, i)
    <3> SUFFICES ASSUME NEW j \in R, j <= i, i < j + L PROVE FALSE
      BY DEF Covers, L
    <3>1. j \in G /\ j \in Nat /\ j < q
      BY <1>a, <1>6, <1>16, <2>1
    <3>2. j + L <= a + 1
      BY <1>7, <1>8, <3>1
    <3> QED BY <1>1, <2>1, <3>1, <3>2
  <2> QED BY <1>17, <2>1, <2>2, <2>3
<1>19. p[q] = w /\ q \in 1..n
  <2>1. q \in 1..n
    BY <1>1, <1>a
  <2> QED BY <1>16, <1>17, <2>1
<1>20. \A i \in (q + 1)..b : p[i] = <<>>
  <2> TAKE i \in (q + 1)..b
  <2>1. i \in 1..n /\ q < i /\ i < q + L /\ i \in Nat
    <3> QED BY <1>1, <1>a
  <2>2. i \notin R
    <3> SUFFICES ASSUME i \in G PROVE FALSE
      BY <1>16
    <3>1. q + L <= i
      BY <1>10, <2>1
    <3> QED BY <1>1, <1>a, <2>1, <3>1
  <2>3. Covers(R, o, i)
    <3>1. q <= i
      BY <1>a, <2>1
    <3> QED BY <1>16, <2>1, <3>1 DEF Covers, L
  <2> QED BY <1>17, <2>1, <2>2, <2>3
<1> HIDE DEF A, B
<1>21. Glued(p, q - 1) = Glued(p, a) \o SubSeq(t, a + 1, q - 1)
  <2> DEFINE e == q - 1
  <2>1. e \in 0..Len(t) /\ a <= e /\ a \in 0..Len(t)
    BY <1>1, <1>a DEF n
  <2>2. p \in [1..Len(t) -> Seq(S)] /\ \A i \in (a + 1)..e : p[i] = <<t[i]>>
    BY <1>17, <1>18 DEF n
  <2> HIDE DEF e
  <2>3. Glued(p, e) = Glued(p, a) \o SubSeq(t, a + 1, e)
    BY <2>1, <2>2, GluedLetters
  <2> QED BY <2>3 DEF e
<1>22. Glued(p, q) = Glued(p, q - 1) \o w
  <2> DEFINE e == q - 1
  <2>1. e \in 0..n /\ e + 1 <= n /\ e + 1 = q
    BY <1>1, <1>a
  <2> HIDE DEF e
  <2>2. /\ Glued(p, 0) = <<>>
        /\ \A i \in 0..n : Glued(p, i) \in Seq(S)
        /\ \A i \in 0..n : i + 1 <= n => Glued(p, i + 1) = Glued(p, i) \o p[i + 1]
    <3>1. n \in Nat /\ p \in [1..n -> Seq(S)]
      BY <1>1, <1>17
    <3> QED BY <3>1, GluedNext, Zenon
  <2>3. Glued(p, e + 1) = Glued(p, e) \o p[e + 1]
    BY <2>1, <2>2
  <2> QED BY <1>19, <2>1, <2>3 DEF e
<1>23. Glued(p, b) = Glued(p, q)
  <2>1. q \in 0..n /\ b \in 0..n
    BY <1>1, <1>a, <1>11
  <2>2. \A i \in (q + 1)..b : p[i] = <<>>
    BY <1>20
  <2>3. n \in Nat /\ p \in [1..n -> Seq(S)] /\ q <= b
    BY <1>1, <1>11, <1>17
  <2> QED BY <2>1, <2>2, <2>3, GluedNothing, Zenon
<1>24. Glued(p, b) = (Glued(p, a) \o SubSeq(t, a + 1, q - 1)) \o w
  BY <1>21, <1>22, <1>23
<1>25. Glued(PiecesOf(t, o, w, c), b)
         = (Glued(PiecesOf(t, o, w, c), a) \o SubSeq(t, a + 1, q - 1)) \o w
  BY <1>24 DEF p
<1>26. a + k + Len(o) <= Len(t) + 1
  BY <1>a DEF n, L, q
<1>27. SoFar(t, o, c, m + 1, a + k + Len(o) - 1)
  BY <1>15, Zenon DEF L, b
<1>28. Glued(PiecesOf(t, o, w, c), a + k + Len(o) - 1)
         = (Glued(PiecesOf(t, o, w, c), a) \o SubSeq(t, a + 1, a + k - 1)) \o w
  <2>1. b = a + k + Len(o) - 1
    BY Zenon DEF L, b
  <2>2. q - 1 = a + k - 1
    BY <1>a
  <2> QED BY <1>25, <2>1, <2>2
<1>29. k \in Nat \ {0}
  BY <1>4
<1> QED BY <1>26, <1>27, <1>28, <1>29, Zenon DEF Advances


(* And when none is found any more, or none is wanted, none is to be       *)
(* replaced any more.                                                      *)
Finishes(t, o, w, c, m, a) ==
    /\ m = Cardinality(ReplacedOf(t, o, c))
    /\ Glued(PiecesOf(t, o, w, c), Len(t))
          = Glued(PiecesOf(t, o, w, c), a) \o SubSeq(t, a + 1, Len(t))

LEMMA FindsLast ==
  ASSUME NEW S, NEW t \in Seq(S), NEW o \in Seq(S), o # <<>>, NEW w \in Seq(S), NEW c \in Nat,
         NEW m \in Nat, NEW a, SoFar(t, o, c, m, a),
         Find(SubSeq(t, a + 1, Len(t)), o) = 0 \/ (c # 0 /\ ~(m < c))
  PROVE  Finishes(t, o, w, c, m, a)
<1> DEFINE n == Len(t)
           L == Len(o)
           r == SubSeq(t, a + 1, n)
           G == GreedyOf(t, o)
           R == ReplacedOf(t, o, c)
           p == PiecesOf(t, o, w, c)
           A == {j \in G : j <= a}
<1>1. n \in Nat /\ L \in Nat \ {0} /\ a \in 0..n /\ a \in Nat
  BY FindIs DEF SoFar
<1>2. G \subseteq 1..n /\ G \subseteq Matches(t, o)
  <2>1. G \in SUBSET GreedyOf(t, o)
    OBVIOUS
  <2> HIDE DEF G
  <2>2. G \subseteq 1..n
    BY <2>1, FoundFinite
  <2> QED BY <2>2, GreedyIs DEF G
<1>3. \A j \in G : j <= a => j + L <= a + 1
  BY DEF SoFar
<1>4. m = Cardinality(A) /\ IsFiniteSet(A)
  <2>1. A \in SUBSET GreedyOf(t, o)
    OBVIOUS
  <2>2. m = Cardinality(A)
    BY DEF SoFar
  <2> HIDE DEF A
  <2> QED BY <2>1, <2>2, FoundFinite
<1>5. ASSUME NEW i \in G, ~(i <= a) PROVE i \notin R
  <2>1. i \in Nat /\ i - a \in Nat \ {0} /\ a + (i - a) = i
    BY <1>1, <1>2, <1>5
  <2>2. CASE Find(r, o) = 0
    <3>1. a \in 0..Len(t)
      BY <1>1
    <3>2. \A k \in Nat \ {0} : /\ r \in Seq(S)
                               /\ k \in Matches(r, o) <=> a + k \in Matches(t, o)
      BY <3>1, MatchesInRest
    <3>3. i - a \in Matches(r, o) /\ r \in Seq(S)
      <4> HIDE DEF r, G
      <4> QED BY <1>2, <2>1, <3>2
    <3> HIDE DEF r
    <3>4. Matches(r, o) = {}
      BY <2>2, <3>3, FindIs
    <3> QED BY <3>3, <3>4
  <2>3. CASE c # 0 /\ ~(m < c)
    <3> DEFINE B == {j \in G : j < i}
    <3>1. A \in SUBSET B
      BY <1>1, <1>2, <1>5, <2>1
    <3>2. IsFiniteSet(B) /\ Cardinality(B) \in Nat
      <4>1. B \in SUBSET GreedyOf(t, o)
        OBVIOUS
      <4> HIDE DEF B
      <4> QED BY <4>1, FoundFinite
    <3>3. Cardinality(A) <= Cardinality(B)
      <4> HIDE DEF A, B
      <4> QED BY <3>1, <3>2, FS_Subset
    <3> HIDE DEF A
    <3>4. ~(Cardinality(B) < c)
      <4> HIDE DEF B
      <4> QED BY <1>4, <2>3, <3>2, <3>3
    <3> QED BY <2>3, <3>4 DEF ReplacedOf
  <2> QED BY <2>2, <2>3
<1>6. A \subseteq R
  BY MetAreReplaced
<1>7. R \subseteq G
  BY DEF ReplacedOf
<1>8. R = A
  <2> HIDE DEF G, R
  <2> QED BY <1>5, <1>6, <1>7
<1>9. /\ p \in [1..n -> Seq(S)]
      /\ \A i \in 1..n : p[i] = CASE i \in R -> w
                                  [] i \notin R /\ Covers(R, o, i) -> <<>>
                                  [] OTHER -> <<t[i]>>
  <2>1. p \in [1..n -> Seq(S)]
    BY PiecesAre
  <2> QED BY <2>1 DEF PiecesOf
<1> HIDE DEF p, R, G, L
<1>10. \A i \in (a + 1)..n : p[i] = <<t[i]>>
  <2> TAKE i \in (a + 1)..n
  <2>1. i \in 1..n /\ i \in Nat /\ a < i
    BY <1>1
  <2>2. i \notin R
    BY <1>1, <1>8, <2>1
  <2>3. ~Covers(R, o, i)
    <3> SUFFICES ASSUME NEW j \in R, j <= i, i < j + L PROVE FALSE
      BY DEF Covers, L
    <3>1. j \in Nat /\ j + L <= a + 1
      BY <1>2, <1>3, <1>8
    <3> QED BY <1>1, <2>1, <3>1
  <2> QED BY <1>9, <2>1, <2>2, <2>3
<1>11. Glued(p, n) = Glued(p, a) \o SubSeq(t, a + 1, n)
  <2>1. n \in 0..Len(t) /\ a <= n /\ a \in 0..Len(t)
    BY <1>1
  <2>2. p \in [1..Len(t) -> Seq(S)] /\ \A i \in (a + 1)..n : p[i] = <<t[i]>>
    BY <1>9, <1>10
  <2> HIDE DEF n
  <2> QED BY <2>1, <2>2, GluedLetters
<1> QED BY <1>4, <1>8, <1>11 DEF p, R, Finishes

-----------------------------------------------------------------------------
(* The characters of an edit: the strings. Those that escapes stand for    *)
(* are named, as the provers do not see that a literal is a string.        *)
Letters == STRING \cup {"LF", "CR", "TAB", "\\"}
Text == Seq(Letters)

LEMMA EscapeIs ==
  ASSUME NEW c \in Letters
  PROVE  Escape(c) \in Text
<1>1. {"LF", "CR", "TAB", "\\"} \subseteq Letters
  BY DEF Letters
<1>4. \A x, y \in Letters : <<x>> \in Text /\ <<x, y>> \in Text
  BY DEF Text
<1>2. CASE c \in DOMAIN Escapes
  <2>1. Escapes[c] \in Letters
    BY <1>1, <1>2 DEF Escapes
  <2>2. Escape(c) = <<Escapes[c]>> \/ Escape(c) = <<"\\">>
    BY <1>2 DEF Escape
  <2> QED BY <1>1, <1>4, <2>1, <2>2
<1>3. CASE c \notin DOMAIN Escapes
  <2>1. Escape(c) = <<"\\">> \/ Escape(c) = <<"\\", c>>
    BY <1>3 DEF Escape
  <2> QED BY <1>1, <1>4, <2>1
<1> QED BY <1>2, <1>3

LEMMA InterpretedIs ==
  ASSUME NEW s \in Text
  PROVE  Interpreted(s) \in Text
<1> DEFINE N == Len(s)
           from(i) == N - i + 1
           Plain(i) == s[from(i)] # "\\" \/ i = 1
           Q == Text
           PQ == Q \X Q
           g == [z \in (1..N) \X PQ |->
                   IF Plain(z[1]) THEN <<<<s[from(z[1])]>> \o z[2][1], z[2][1]>>
                   ELSE <<Escape(s[from(z[1]) + 1]) \o z[2][2], z[2][1]>>]
           Is(h) == h = [n \in 0..N |->
                           IF n = 0 THEN <<>>
                           ELSE IF s[from(n)] # "\\" \/ n = 1 THEN <<s[from(n)]>> \o h[n - 1]
                           ELSE Escape(s[from(n) + 1]) \o h[n - 2]]
           F == CHOOSE h : Is(h)
<1>1. N \in Nat /\ <<>> \in Q
  BY DEF Text
<1>2. \A i \in 1..N : /\ <<s[from(i)]>> \in Q
                      /\ ~Plain(i) => Escape(s[from(i) + 1]) \in Q /\ i - 2 \in 0..N
  <2> TAKE i \in 1..N
  <2>1. from(i) \in 1..N /\ (i # 1 => from(i) + 1 \in 1..N /\ i - 2 \in 0..N)
    BY <1>1
  <2>2. s[from(i)] \in Letters /\ (i # 1 => s[from(i) + 1] \in Letters)
    <3> HIDE DEF from
    <3> QED BY <2>1 DEF Text
  <2>3. <<s[from(i)]>> \in Q
    BY <2>2 DEF Text
  <2> QED BY <2>1, <2>2, <2>3, EscapeIs
<1>3. \A x, y \in Q : x \o y \in Q
  BY DEF Text
<1> HIDE DEF Q
<1>4. g \in [(1..N) \X PQ -> PQ]
  <2>1. \A z \in (1..N) \X PQ : z[1] \in 1..N /\ z[2][1] \in Q /\ z[2][2] \in Q
    OBVIOUS
  <2> HIDE DEF N, from, Plain
  <2>2. \A z \in (1..N) \X PQ :
          (IF Plain(z[1]) THEN <<<<s[from(z[1])]>> \o z[2][1], z[2][1]>>
           ELSE <<Escape(s[from(z[1]) + 1]) \o z[2][2], z[2][1]>>) \in PQ
    BY <1>2, <1>3, <2>1
  <2> QED BY <2>2
<1>5. <<<<>>, <<>>>> \in PQ
  BY <1>1
<1>6. PICK f : Unrolls(f, N, PQ, <<<<>>, <<>>>>, g)
  <2> HIDE DEF N, PQ, g
  <2> QED BY <1>1, <1>4, <1>5, Recursion
<1>7. f \in [0..N -> PQ] /\ f[0] = <<<<>>, <<>>>> /\ \A i \in 1..N : f[i] = g[<<i, f[i - 1]>>]
  BY <1>6 DEF Unrolls
<1> DEFINE h == [n \in 0..N |-> f[n][1]]
<1>8. ASSUME NEW i \in 1..N
      PROVE  /\ f[i][1] = IF Plain(i) THEN <<s[from(i)]>> \o f[i - 1][1]
                          ELSE Escape(s[from(i) + 1]) \o f[i - 1][2]
             /\ f[i][2] = f[i - 1][1]
  <2>1. i - 1 \in 0..N
    BY <1>1
  <2>2. <<i, f[i - 1]>> \in (1..N) \X PQ
    BY <2>1, <1>7
  <2> HIDE DEF N, PQ, Plain, from
  <2>3. f[i] = IF Plain(i) THEN <<<<s[from(i)]>> \o f[i - 1][1], f[i - 1][1]>>
               ELSE <<Escape(s[from(i) + 1]) \o f[i - 1][2], f[i - 1][1]>>
    BY <1>7, <2>2
  <2> QED BY <2>3
<1>9. Is(h)
  <2>1. ASSUME NEW i \in 0..N
        PROVE  h[i] = IF i = 0 THEN <<>>
                      ELSE IF Plain(i) THEN <<s[from(i)]>> \o h[i - 1]
                      ELSE Escape(s[from(i) + 1]) \o h[i - 2]
    <3>1. CASE i = 0
      BY <1>1, <1>7, <3>1
    <3>2. CASE i # 0
      <4>1. i \in 1..N /\ i - 1 \in 0..N
        BY <1>1, <3>2
      <4>2. CASE Plain(i)
        <5> HIDE DEF N, Plain, from
        <5> QED BY <1>8, <3>2, <4>1, <4>2
      <4>3. CASE ~Plain(i)
        <5>1. i - 1 \in 1..N /\ i - 2 \in 0..N /\ (i - 1) - 1 = i - 2
          BY <1>1, <4>1, <4>3
        <5> HIDE DEF N, Plain, from
        <5> QED BY <1>8, <3>2, <4>1, <4>3, <5>1
      <4> QED BY <4>2, <4>3
    <3> QED BY <3>1, <3>2
  <2>2. h = [i \in 0..N |-> h[i]]
    OBVIOUS
  <2> HIDE DEF h, N, from
  <2> QED BY <2>1, <2>2
<1>10. Is(F)
  <2> HIDE DEF Is, h
  <2> QED BY <1>9
<1>11. Interpreted(s) = F[N]
  BY DEF Interpreted
<1> HIDE DEF F, g, h
<1>12. F = [i \in 0..N |-> F[i]] /\ \A i \in 0..N : F[i] = IF i = 0 THEN <<>>
                      ELSE IF Plain(i) THEN <<s[from(i)]>> \o F[i - 1]
                      ELSE Escape(s[from(i) + 1]) \o F[i - 2]
  <2> HIDE DEF N, from
  <2> QED BY <1>10
<1> HIDE DEF Is
<1> DEFINE P(k) == F[k] \in Q
           T == {k \in Nat : (k <= N => P(k)) /\ (k + 1 <= N => P(k + 1))}
<1>13. ASSUME NEW i \in 1..N, P(i - 1), i # 1 => P(i - 2) PROVE P(i)
  <2>1. i \in 0..N /\ i # 0
    BY <1>1
  <2> HIDE DEF N, from, Plain
  <2>2. CASE Plain(i)
    BY <1>2, <1>3, <1>12, <1>13, <2>1, <2>2
  <2>3. CASE ~Plain(i)
    <3>1. i # 1
      BY <2>3 DEF Plain
    <3> QED BY <1>2, <1>3, <1>12, <1>13, <2>1, <2>3, <3>1
  <2> QED BY <2>2, <2>3
<1>14. P(0)
  <2>1. 0 \in 0..N
    BY <1>1
  <2> HIDE DEF N, from, Plain
  <2> QED BY <1>1, <1>12, <2>1
<1> HIDE DEF P
<1>15. 0 \in T
  <2>1. CASE 0 + 1 <= N
    <3>1. 1 \in 1..N /\ 1 - 1 = 0 /\ 0 + 1 = 1
      BY <1>1, <2>1
    <3>2. P(1)
      BY <1>13, <1>14, <3>1
    <3> QED BY <1>14, <3>1, <3>2
  <2>2. CASE ~(0 + 1 <= N)
    BY <1>14, <2>2
  <2> QED BY <2>1, <2>2
<1>16. ASSUME NEW k \in Nat, k \in T PROVE k + 1 \in T
  <2>1. k + 1 <= N => P(k + 1)
    BY <1>16
  <2>2. ASSUME (k + 1) + 1 <= N PROVE P((k + 1) + 1)
    <3>1. /\ (k + 1) + 1 \in 1..N /\ ((k + 1) + 1) - 1 = k + 1 /\ ((k + 1) + 1) - 2 = k
          /\ k + 1 <= N /\ k <= N
      BY <1>1, <2>2
    <3>2. P(k + 1) /\ P(k)
      BY <1>16, <3>1
    <3> QED BY <1>13, <3>1, <3>2
  <2> QED BY <2>1, <2>2
<1>17. Nat \subseteq T
  <2> HIDE DEF T
  <2> QED BY <1>15, <1>16, NatSetInduction
<1>18. P(N)
  BY <1>1, <1>17
<1> QED BY <1>11, <1>18 DEF P, Q


-----------------------------------------------------------------------------
(* While an edit replaces, there is a place in the original up to which    *)
(* everything is done: what is wanted of the matches before it is replaced *)
(* and counted, none reaches over it, the output has the pieces up to it   *)
(* and the rest is what comes after it.                                    *)
EditShape ==
    edit = [pc |-> edit.pc, mode |-> edit.mode, original |-> edit.original, old |-> edit.old,
            end |-> edit.end, new |-> edit.new, count |-> edit.count, rest |-> edit.rest,
            output |-> edit.output, changed |-> edit.changed]

Replacing == edit.mode \in {"replace", "regex"} /\ edit.old # <<>>
Pieces == PiecesOf(edit.original, edit.old, edit.new, edit.count)
DoneTo(a) ==
    /\ SoFar(edit.original, edit.old, edit.count, edit.changed, a)
    /\ edit.rest = SubSeq(edit.original, a + 1, Len(edit.original))
    /\ edit.output = Glued(Pieces, a)

EditInv ==
    /\ EditShape
    /\ Replacing =>
          /\ {edit.original, edit.old, edit.new} \subseteq Text
          /\ {edit.count, edit.changed} \subseteq Nat
          /\ edit.pc = "asked" => \E a \in Nat : DoneTo(a)
          /\ edit.pc = "done" =>
                /\ edit.changed = Cardinality(ReplacedOf(edit.original, edit.old, edit.count))
                /\ edit.output = Glued(Pieces, Len(edit.original))

LEMMA EditHolds == EditInv => ReplacesFirst
<1> SUFFICES ASSUME EditInv, edit.pc = "done", Replacing PROVE ReplacesFirst
  BY DEF ReplacesFirst, Replacing
<1> DEFINE t == edit.original
           R == ReplacedOf(t, edit.old, edit.count)
<1>1. edit.changed = Cardinality(R) /\ edit.output = Glued(Pieces, Len(t))
  BY DEF EditInv
<1>2. Replaced = R
  BY DEF Replaced, Greedy, ReplacedOf, GreedyOf
<1>3. \A i : Inside(i) <=> Covers(R, edit.old, i)
  BY <1>2 DEF Inside, Covers
<1> HIDE DEF R
<1>4. [i \in 1..Len(t) |-> Pieces[i]] =
        [i \in 1..Len(t) |-> CASE i \in Replaced -> edit.new
                               [] i \notin Replaced /\ Inside(i) -> <<>>
                               [] OTHER -> <<t[i]>>]
  <2>1. Pieces = [i \in 1..Len(t) |-> CASE i \in R -> edit.new
                                        [] i \notin R /\ Covers(R, edit.old, i) -> <<>>
                                        [] OTHER -> <<t[i]>>]
    BY DEF Pieces, PiecesOf, R
  <2> HIDE DEF t
  <2> QED BY <1>2, <1>3, <2>1
<1> QED BY <1>1, <1>2, <1>4 DEF ReplacesFirst, Glued

LEMMA EditInit == Init => EditInv
<1> SUFFICES ASSUME Init PROVE EditInv
  OBVIOUS
<1>1. CASE part # "edit"
  <2>1. edit = EditIdle
    BY <1>1 DEF Init
  <2>2. EditShape /\ edit.mode = "write"
    BY <2>1 DEF EditIdle, EditShape
  <2> QED BY <2>2 DEF EditInv, Replacing
<1>2. CASE part = "edit"
  <2>1. EditStarts
    BY <1>2 DEF Init, RunStarts, AuditStarts, ApiStarts, ScanStarts
  <2>2. PICK r \in Requests : edit = Asks(r[1], r[2], r[3], r[4], r[5], r[6], r[7])
    BY <2>1 DEF EditStarts
  <2> DEFINE text(s) == IF r[7] THEN Interpreted(s) ELSE s
             new == text(r[5])
             old == IF r[1] = "replace" THEN text(r[3]) ELSE r[3]
             pc == IF Valid(r[1], r[3], r[4]) THEN "asked" ELSE "refused"
  <2>3. r[2] \in Text /\ r[3] \in Text /\ r[5] \in Text /\ r[6] \in Nat
    <3>1. {r[2], r[3], r[5]} \subseteq Seq(STRING) /\ r[6] \in Nat
      BY RequestsAssumption
    <3>2. \A s \in Seq(STRING) : s \in Text
      <4>1. STRING \subseteq Letters
        BY DEF Letters
      <4> HIDE DEF Letters
      <4> TAKE s \in Seq(STRING)
      <4>2. Len(s) \in Nat /\ s \in [1..Len(s) -> STRING]
        OBVIOUS
      <4>3. s \in [1..Len(s) -> Letters]
        BY <4>1, <4>2
      <4> QED BY <4>2, <4>3 DEF Text
    <3> QED BY <3>1, <3>2
  <2>4. new \in Text /\ old \in Text
    BY <2>3, InterpretedIs
  <2>5. edit = [EditIdle EXCEPT !.pc = pc, !.mode = r[1], !.original = r[2], !.rest = r[2],
                                !.count = r[6], !.old = old, !.end = r[4], !.new = new]
    BY <2>2 DEF Asks
  <2>6. pc # "done"
    OBVIOUS
  <2> HIDE DEF new, old, pc
  <2>7. /\ EditShape /\ edit.original = r[2] /\ edit.rest = r[2] /\ edit.count = r[6]
        /\ edit.old = old /\ edit.new = new /\ edit.changed = 0 /\ edit.output = <<>>
        /\ edit.pc = pc
    BY <2>5 DEF EditIdle, EditShape
  <2>8. ASSUME Replacing PROVE DoneTo(0)
    <3> DEFINE t == edit.original
               o == edit.old
    <3>1. t \in Text /\ o \in Text /\ o # <<>> /\ Len(t) \in Nat
      BY <2>3, <2>4, <2>7, <2>8 DEF Replacing, Text
    <3>2. GreedyOf(t, o) \subseteq 1..Len(t)
      <4> DEFINE B == GreedyOf(t, o)
      <4>1. B \in SUBSET GreedyOf(t, o)
        OBVIOUS
      <4> HIDE DEF B, t, o
      <4>2. B \subseteq 1..Len(t)
        BY <3>1, <4>1, FoundFinite DEF Text
      <4> QED BY <4>2 DEF B
    <3>3. {j \in GreedyOf(t, o) : j <= 0} = {} /\ \A j \in GreedyOf(t, o) : ~(j <= 0)
      BY <3>1, <3>2
    <3>4. SoFar(t, o, edit.count, 0, 0)
      <4>1. edit.count # 0 => 0 <= edit.count
        BY <2>3, <2>7
      <4>2. Cardinality({}) = 0
        BY FS_EmptySet
      <4>3. 0 \in 0..Len(t)
        BY <3>1
      <4> HIDE DEF t, o
      <4>4. Cardinality({j \in GreedyOf(t, o) : j <= 0}) = 0
        BY <3>3, <4>2
      <4> QED BY <3>3, <4>1, <4>3, <4>4 DEF SoFar
    <3>5. SubSeq(t, 0 + 1, Len(t)) = t
      BY <3>1 DEF Text
    <3>6. Glued(Pieces, 0) = <<>>
      <4>1. Pieces \in [1..Len(t) -> Text]
        BY <2>3, <2>4, <2>7, PiecesAre DEF Pieces, Text
      <4> HIDE DEF t
      <4> QED BY <3>1, <4>1, GluedNext DEF Text
    <3> QED BY <2>7, <3>4, <3>5, <3>6 DEF DoneTo
  <2> QED BY <2>3, <2>4, <2>6, <2>7, <2>8 DEF EditInv
<1> QED BY <1>1, <1>2

LEMMA NextReplaced ==
  ASSUME EditInv, ReplaceNext
  PROVE  EditInv'
<1> DEFINE t == edit.original
           o == edit.old
           w == edit.new
           c == edit.count
           m == edit.changed
           k == Find(edit.rest, o)
<1>1. /\ Replacing /\ EditShape /\ edit.pc = "asked" /\ (c = 0 \/ m < c) /\ k # 0
      /\ edit' = [edit EXCEPT !.output = @ \o SubSeq(edit.rest, 1, k - 1) \o edit.new,
                              !.rest = SubSeq(@, k + Len(o), Len(@)), !.changed = @ + 1]
  BY DEF ReplaceNext, Wanting, Replacing, EditInv
<1>2. /\ t \in Text /\ o \in Text /\ w \in Text /\ c \in Nat /\ m \in Nat /\ o # <<>>
      /\ Len(t) \in Nat /\ Len(o) \in Nat
  BY <1>1 DEF EditInv, Replacing, Text
<1>3. PICK a \in Nat : DoneTo(a)
  BY <1>1 DEF EditInv
<1>4. SoFar(t, o, c, m, a) /\ edit.rest = SubSeq(t, a + 1, Len(t)) /\ edit.output = Glued(Pieces, a)
  BY <1>3 DEF DoneTo
<1> DEFINE b == a + k + Len(o) - 1
           before == SubSeq(t, a + 1, a + k - 1)
<1> HIDE DEF k
<1>5. /\ k \in Nat \ {0} /\ a + k + Len(o) <= Len(t) + 1
      /\ SoFar(t, o, c, m + 1, b)
      /\ Glued(Pieces, b) = (Glued(Pieces, a) \o before) \o w
  <2>1. k = Find(SubSeq(t, a + 1, Len(t)), o)
    BY <1>4 DEF k
  <2>2. c = 0 \/ m < c
    BY <1>1
  <2>3. k # 0
    BY <1>1
  <2> HIDE DEF t, o, w, c, m
  <2>4. Advances(t, o, w, c, m, a, k)
    <3>1. /\ t \in Seq(Letters) /\ o \in Seq(Letters) /\ o # <<>> /\ w \in Seq(Letters)
          /\ c \in Nat /\ m \in Nat /\ SoFar(t, o, c, m, a)
      BY <1>2, <1>4 DEF Text
    <3> QED BY <2>1, <2>2, <2>3, <3>1, FindsNext
  <2>5. Pieces = PiecesOf(t, o, w, c)
    BY DEF Pieces, t, o, w, c
  <2> QED BY <2>4, <2>5 DEF Advances
<1>6. a \in 0..Len(t)
  BY <1>4 DEF SoFar
<1>7. SubSeq(edit.rest, 1, k - 1) = before
  <2> DEFINE e == k - 1
  <2>1. e \in Nat /\ e <= Len(t) - a /\ a + e = a + k - 1 /\ 1 \in Nat \ {0}
    <3> HIDE DEF t, o
    <3>1. k \in Nat \ {0} /\ a + k + Len(o) <= Len(t) + 1
      BY <1>5
    <3> QED BY <1>2, <1>6, <3>1
  <2> HIDE DEF e, t
  <2>2. SubSeq(SubSeq(t, a + 1, Len(t)), 1, e) = SubSeq(t, a + 1, a + e)
    BY <1>2, <1>6, <2>1, PartOfRest DEF Text
  <2> QED BY <1>4, <2>1, <2>2 DEF e
<1>8. SubSeq(edit.rest, k + Len(o), Len(edit.rest)) = SubSeq(t, b + 1, Len(t))
  <2> DEFINE x == k + Len(o)
             y == Len(t) - a
  <2>1. Len(edit.rest) = y
    BY <1>2, <1>4, <1>6 DEF Text
  <2>2. x \in Nat \ {0} /\ y \in Nat /\ a + x = b + 1 /\ a + y = Len(t)
    <3> HIDE DEF t, o
    <3>1. k \in Nat \ {0} /\ a + k + Len(o) <= Len(t) + 1
      BY <1>5
    <3> QED BY <1>2, <1>6, <3>1
  <2>3. y <= Len(t) - a
    BY <1>2, <1>6
  <2> HIDE DEF x, y, t, b
  <2>4. SubSeq(SubSeq(t, a + 1, Len(t)), x, y) = SubSeq(t, a + x, a + y)
    BY <1>2, <1>6, <2>2, <2>3, PartOfRest DEF Text
  <2>5. SubSeq(edit.rest, x, y) = SubSeq(t, b + 1, Len(t))
    BY <1>4, <2>2, <2>4
  <2> QED BY <2>1, <2>5 DEF x
<1>9. (Glued(Pieces, a) \o before) \o w = edit.output \o before \o w
  BY <1>4
<1> DEFINE output == edit.output \o SubSeq(edit.rest, 1, k - 1) \o w
           rest == SubSeq(edit.rest, k + Len(o), Len(edit.rest))
<1>10. edit' = [edit EXCEPT !.output = output, !.rest = rest, !.changed = m + 1]
  BY <1>1 DEF k, EditShape
<1>11. output = Glued(Pieces, b)
  BY <1>4, <1>5, <1>7
<1> HIDE DEF output, rest
<1>12. /\ EditShape' /\ edit'.pc = "asked" /\ edit'.mode = edit.mode /\ edit'.original = t
       /\ edit'.old = o /\ edit'.new = w /\ edit'.count = c /\ edit'.changed = m + 1
       /\ edit'.rest = rest /\ edit'.output = output
  BY <1>1, <1>10 DEF EditShape
<1>13. Replacing' /\ Pieces' = Pieces
  BY <1>1, <1>12 DEF Replacing, Pieces
<1>14. b \in Nat
  <2>1. b \in 0..Len(t)
    BY <1>5 DEF SoFar
  <2> HIDE DEF b
  <2> QED BY <1>2, <2>1
<1> HIDE DEF b, before
<1>15. rest = SubSeq(t, b + 1, Len(t))
  BY <1>8 DEF rest
<1>18. PICK d \in Nat : d = b
  BY <1>14
<1>16. DoneTo(d)'
  <2>1. SoFar(t, o, c, m + 1, d) /\ output = Glued(Pieces, d) /\ rest = SubSeq(t, d + 1, Len(t))
    BY <1>5, <1>11, <1>15, <1>18
  <2> QED BY <1>12, <1>13, <2>1 DEF DoneTo
<1>17. m + 1 \in Nat
  BY <1>2
<1> QED BY <1>2, <1>12, <1>13, <1>16, <1>17 DEF EditInv

LEMMA EndsReplaced ==
  ASSUME EditInv, ReplaceEnds
  PROVE  EditInv'
<1> DEFINE t == edit.original
           o == edit.old
           w == edit.new
           c == edit.count
           m == edit.changed
<1>1. /\ Replacing /\ EditShape /\ edit.pc = "asked"
      /\ edit' = [edit EXCEPT !.pc = "done", !.output = @ \o edit.rest, !.rest = <<>>]
  BY DEF ReplaceEnds, Replacing, EditInv
<1>2. /\ t \in Text /\ o \in Text /\ w \in Text /\ c \in Nat /\ m \in Nat /\ o # <<>>
  BY <1>1 DEF EditInv, Replacing
<1>3. PICK a \in Nat : DoneTo(a)
  BY <1>1 DEF EditInv
<1>4. SoFar(t, o, c, m, a) /\ edit.rest = SubSeq(t, a + 1, Len(t)) /\ edit.output = Glued(Pieces, a)
  BY <1>3 DEF DoneTo
<1>5. /\ m = Cardinality(ReplacedOf(t, o, c))
      /\ Glued(Pieces, Len(t)) = edit.output \o edit.rest
  <2>1. Find(SubSeq(t, a + 1, Len(t)), o) = 0 \/ (c # 0 /\ ~(m < c))
    BY <1>4 DEF ReplaceEnds, Wanting
  <2> HIDE DEF t, o, w, c, m
  <2>2. Finishes(t, o, w, c, m, a)
    <3>1. /\ t \in Seq(Letters) /\ o \in Seq(Letters) /\ o # <<>> /\ w \in Seq(Letters)
          /\ c \in Nat /\ m \in Nat /\ SoFar(t, o, c, m, a)
      BY <1>2, <1>4 DEF Text
    <3> QED BY <2>1, <3>1, FindsLast
  <2>3. Pieces = PiecesOf(t, o, w, c)
    BY DEF Pieces, t, o, w, c
  <2> QED BY <1>4, <2>2, <2>3 DEF Finishes
<1> DEFINE output == edit.output \o edit.rest
<1>6. edit' = [edit EXCEPT !.pc = "done", !.output = output, !.rest = <<>>]
  BY <1>1 DEF EditShape
<1>7. output = Glued(Pieces, Len(t))
  BY <1>5
<1> HIDE DEF output
<1>8. /\ EditShape' /\ edit'.pc = "done" /\ edit'.mode = edit.mode /\ edit'.original = t
      /\ edit'.old = o /\ edit'.new = w /\ edit'.count = c /\ edit'.changed = m
      /\ edit'.output = output
  BY <1>1, <1>6 DEF EditShape
<1>9. Replacing' /\ Pieces' = Pieces
  BY <1>1, <1>8 DEF Replacing, Pieces
<1> QED BY <1>2, <1>5, <1>7, <1>8, <1>9 DEF EditInv

LEMMA EditNext == EditInv /\ [Next]_vars => EditInv'
<1> SUFFICES ASSUME EditInv, [Next]_vars PROVE EditInv'
  OBVIOUS
<1>1. CASE UNCHANGED edit
  BY <1>1 DEF EditInv, EditShape, Replacing, DoneTo, Pieces
<1>2. CASE Whole
  <2> DEFINE x == CASE edit.mode = "write" -> edit.new
                    [] edit.mode = "append" -> edit.original \o edit.new
                    [] edit.mode = "prepend" -> edit.new \o edit.original
  <2>1. EditShape /\ edit.mode \in {"write", "append", "prepend"}
        /\ edit' = [edit EXCEPT !.pc = "done", !.changed = 1, !.output = x]
    BY <1>2 DEF Whole, EditInv
  <2> HIDE DEF x
  <2>2. EditShape' /\ edit'.mode = edit.mode
    BY <2>1 DEF EditShape
  <2> QED BY <2>1, <2>2 DEF EditInv, Replacing
<1>3. CASE ReplaceNext
  BY <1>3, NextReplaced
<1>4. CASE ReplaceEnds
  BY <1>4, EndsReplaced
<1>5. CASE ReplaceNothing
  <2>1. PICK x, y : edit' = [edit EXCEPT !.pc = "done", !.rest = <<>>, !.changed = x, !.output = y]
    BY <1>5 DEF ReplaceNothing
  <2>2. EditShape /\ edit.old = <<>>
    BY <1>5 DEF ReplaceNothing, EditInv
  <2>3. EditShape' /\ edit'.old = edit.old
    BY <2>1, <2>2 DEF EditShape
  <2> QED BY <2>2, <2>3 DEF EditInv, Replacing
<1>6. CASE ReplaceBlock
  <2>1. \/ edit' = [edit EXCEPT !.pc = "refused"]
        \/ \E y : edit' = [edit EXCEPT !.pc = "done", !.changed = 1, !.output = y]
    BY <1>6 DEF ReplaceBlock
  <2>2. EditShape /\ edit.mode = "replace-block"
    BY <1>6 DEF ReplaceBlock, EditInv
  <2>3. EditShape' /\ edit'.mode = edit.mode
    BY <2>1, <2>2 DEF EditShape
  <2> QED BY <2>2, <2>3 DEF EditInv, Replacing
<1> QED BY <1>1, <1>2, <1>3, <1>4, <1>5, <1>6 DEF Next, vars, EditStep

(* An edit changes exactly the first "count" matches of the text it is     *)
(* given, leftmost and not overlapping, and leaves every other character   *)
(* where it was, for texts and counts of any size.                         *)
THEOREM ReplacesFirstHolds == Spec => []ReplacesFirst
<1> QED BY EditInit, EditNext, EditHolds, PTL DEF Spec

-----------------------------------------------------------------------------
(***************************************************************************)
(* The call of a service: whatever endpoint the configuration names, and   *)
(* however often its service is replaced, an answer rests on a probe of its*)
(* own call.                                                               *)
(***************************************************************************)
Steps == {"idle", "done", "dial", "init", "request", "await_init", "await", "judge"}

(* The fields that the argument reads; the others are of any value.        *)
Shape ==
    /\ api = [on |-> api.on, e |-> api.e, calls |-> api.calls, pc |-> api.pc,
              round |-> api.round, ver |-> api.ver, upgrades |-> api.upgrades,
              seen |-> api.seen, conn |-> api.conn, open |-> api.open, says |-> api.says,
              inbox |-> api.inbox, sent |-> api.sent, skipped |-> api.skipped,
              read |-> api.read, taken |-> api.taken, result |-> api.result]
    /\ api.pc \in Steps
    /\ api.ver \in Versions
    /\ api.conn \in Versions \cup {"none"}

Under == api.pc \notin {"idle", "done"}   \* a call is under way

(* While a call is under way the version that answers is among those seen  *)
(* since it began, on its connection too, and the action is dialled only   *)
(* when a probe of this call has met a good one.                           *)
ProbeInv ==
    /\ Shape
    /\ Under => api.ver \in api.seen /\ api.result # "ok"
    /\ api.pc = "idle" => api.result # "ok"
    /\ ~Under => api.conn = "none"
    /\ api.pc \in {"judge", "init", "request", "await_init", "await"} => api.conn # "none"
    /\ Under /\ api.conn # "none" => api.conn \in api.seen
    /\ Under /\ Checked /\ api.round # "probe" => "good" \in api.seen
    /\ api.result = "ok" /\ Checked => "good" \in api.seen

LEMMA ProbeInit == ApiInit(Endpoint) => ProbeInv
  BY DEF ApiInit, ApiIdle, ProbeInv, Shape, Steps, Versions, Under

(* An answer that is an error, and keeps what was seen.                    *)
LEMMA Ending ==
  ASSUME ProbeInv, NEW result, result # "ok", api' = End(result)
  PROVE  ProbeInv'
  BY DEF ProbeInv, Shape, End, Steps, Versions, Under, Checked

LEMMA Counted ==
  ASSUME ProbeInv, NEW result, result # "ok",
         api' = [End(result) EXCEPT !.calls = @ + 1]
  PROVE  ProbeInv'
  BY DEF ProbeInv, Shape, End, Steps, Versions, Under, Checked

LEMMA Failing ==
  ASSUME ProbeInv, NEW why, why # "ok", api' = Fail(why)
  PROVE  ProbeInv'
  BY Ending DEF Fail

(* No step but the end of a probe lets a call go on without what it has    *)
(* found, and no step but Judge answers ok.                                *)
LEMMA ProbeNext == ProbeInv /\ [ApiStep]_api => ProbeInv'
<1> SUFFICES ASSUME ProbeInv, [ApiStep]_api PROVE ProbeInv'
  OBVIOUS
<1>1. CASE InvalidConfig \/ Describe \/ UnknownAction
  BY <1>1, Counted DEF InvalidConfig, Describe, UnknownAction
<1>2. CASE Call
  BY <1>2 DEF Call, Idle, MustProbe, Checked, ProbeInv, Shape, Steps, Under, Versions
<1>3. CASE MissingParam \/ UnsafeBinary
  BY <1>3, Failing DEF MissingParam, UnsafeBinary
<1>4. CASE RelayFails \/ Unreachable
  BY <1>4, Failing DEF RelayFails, Unreachable, RelayExits
<1>5. CASE Dial
  BY <1>5 DEF Dial, Checked, ProbeInv, Shape, Steps, Under, Versions
<1>6. CASE Send
  BY <1>6 DEF Send, Checked, ProbeInv, Shape, Steps, Under
<1>7. CASE SendFails \/ HearNoMore \/ HearEnd \/ HearTooMuch \/ LateAnswer
  BY <1>7, Failing DEF SendFails, HearNoMore, HearEnd, HearTooMuch, LateAnswer
<1>8. CASE Closes \/ \E m \in Messages : Says(m)
  <2>1. CASE Closes
    BY <2>1 DEF Closes, Checked, ProbeInv, Shape, Steps, Under
  <2>2. CASE \E m \in Messages : Says(m)
    <3>1. PICK m \in Messages : api' = [api EXCEPT !.inbox = <<m>>, !.says = @ + 1]
      BY <2>2 DEF Says
    <3> QED BY <3>1 DEF Checked, ProbeInv, Shape, Steps, Under
  <2> QED BY <1>8, <2>1, <2>2
<1>9. CASE Hear
  <2> DEFINE m == Head(api.inbox)
             next == [api EXCEPT !.inbox = <<>>, !.read = @ + 1]
  <2>1. \/ api' = Fail("bad_response") \/ api' = Fail("endpoint_error")
        \/ api' = [next EXCEPT !.pc = "request"]
        \/ api' = [next EXCEPT !.pc = "judge", !.taken = <<m>>]
        \/ api' = [next EXCEPT !.skipped = @ + 1]
    BY <1>9 DEF Hear
  <2>2. Waiting
    BY <1>9 DEF Hear
  <2>3. CASE api' = [next EXCEPT !.pc = "request"]
    BY <2>2, <2>3 DEF Waiting, Checked, ProbeInv, Shape, Steps, Under
  <2>4. CASE api' = [next EXCEPT !.pc = "judge", !.taken = <<m>>]
    BY <2>2, <2>4 DEF Waiting, Checked, ProbeInv, Shape, Steps, Under
  <2>5. CASE api' = [next EXCEPT !.skipped = @ + 1]
    BY <2>2, <2>5 DEF Waiting, Checked, ProbeInv, Shape, Steps, Under
  <2> QED BY <2>1, <2>3, <2>4, <2>5, Failing
<1>10. CASE HearLine \/ HearHttp
  <2>1. \/ api' = Fail("bad_response") \/ api' = Fail("endpoint_error")
        \/ api' = [api EXCEPT !.inbox = <<>>, !.pc = "judge", !.taken = <<Head(api.inbox)>>]
    BY <1>10 DEF HearLine, HearHttp
  <2>2. Waiting
    BY <1>10 DEF HearLine, HearHttp
  <2>3. CASE api' = [api EXCEPT !.inbox = <<>>, !.pc = "judge", !.taken = <<Head(api.inbox)>>]
    BY <2>2, <2>3 DEF Waiting, Checked, ProbeInv, Shape, Steps, Under
  <2> QED BY <2>1, <2>3, Failing
<1>11. CASE Judge
  <2>1. CASE api.round = "action"
    <3>1. api' = End("ok")
      BY <1>11, <2>1 DEF Judge
    <3> QED BY <1>11, <2>1, <3>1
        DEF Judge, End, Checked, ProbeInv, Shape, Steps, Under, Versions
  <2>2. CASE api.round # "action"
    <3>1. \/ api' = End("compatibility_unknown") \/ api' = End("compatibility_mismatch")
          \/ /\ api.conn # "bad"
             /\ api' = [api EXCEPT !.round = "action", !.pc = "dial", !.conn = "none",
                                   !.taken = <<>>]
      BY <1>11, <2>2 DEF Judge
    <3>2. CASE /\ api.conn # "bad"
               /\ api' = [api EXCEPT !.round = "action", !.pc = "dial", !.conn = "none",
                                     !.taken = <<>>]
      BY <1>11, <3>2 DEF Judge, Checked, ProbeInv, Shape, Steps, Under, Versions
    <3> QED BY <3>1, <3>2, Ending
  <2> QED BY <2>1, <2>2
<1>12. CASE ProbeUnreadable
  BY <1>12, Ending DEF ProbeUnreadable
<1>13. CASE Upgrade
  <2>1. PICK v \in Versions :
          api' = [api EXCEPT !.ver = v, !.upgrades = @ + 1, !.seen = @ \cup {v}]
    BY <1>13 DEF Upgrade
  <2>2. Shape'
    BY <2>1 DEF ProbeInv, Shape
  <2>3. /\ api'.e = api.e /\ api'.pc = api.pc /\ api'.round = api.round
        /\ api'.conn = api.conn /\ api'.result = api.result
        /\ api'.ver = v /\ api'.seen = api.seen \cup {v}
    BY <2>1 DEF ProbeInv, Shape
  <2> QED BY <2>2, <2>3 DEF Checked, ProbeInv, Under
<1>14. CASE UNCHANGED api
  BY <1>14 DEF Checked, ProbeInv, Shape, Under
<1> QED
  BY <1>1, <1>2, <1>3, <1>4, <1>5, <1>6, <1>7, <1>8, <1>9, <1>10, <1>11, <1>12,
    <1>13, <1>14
  DEF ApiStep

(* Every answer of a constrained endpoint rests on a probe of its own call *)
(* (call_action, local_api.rs), for every bound and every endpoint.        *)
THEOREM ProbedThisCallHolds == ApiSpec => []ProbedThisCall
<1>1. ProbeInv => ProbedThisCall
  BY DEF ProbeInv, ProbedThisCall
<1> QED BY <1>1, ProbeInit, ProbeNext, PTL DEF ApiSpec

CallInv == IF part = "api" THEN ProbeInv ELSE api = NoCall

(* And so does an answer of the agent, whichever endpoints it has          *)
(* (call_action, local_api.rs).                                            *)
THEOREM HostProbesThisCall == Spec => []ProbedThisCall
<1>1. Init => CallInv
  <2>1. ApiStarts => ApiInit(Endpoint)
    BY EndpointsAssumption DEF ApiStarts, ApiInit
  <2>2. ApiStarts => part = "api"
    BY DEF ApiStarts
  <2>3. RunStarts \/ AuditStarts \/ ScanStarts \/ EditStarts => part # "api"
    BY DEF RunStarts, AuditStarts, ScanStarts, EditStarts
  <2> QED BY <2>1, <2>2, <2>3, ProbeInit DEF Init, CallInv
<1>2. CallInv /\ [Next]_vars => CallInv'
  <2> SUFFICES ASSUME CallInv, [Next]_vars PROVE CallInv'
    OBVIOUS
  <2>1. part' = part
    BY DEF Next, vars
  <2>2. CASE part = "api"
    <3>1. [ApiStep]_api
      BY <2>2 DEF Next, RunStep, vars
    <3> QED BY <2>1, <2>2, <3>1, ProbeNext DEF CallInv
  <2>3. CASE part # "api"
    <3>1. UNCHANGED api
      BY <2>3 DEF Next, vars
    <3> QED BY <2>1, <2>3, <3>1 DEF CallInv, NoCall, ApiIdle
  <2> QED BY <2>2, <2>3
<1>3. CallInv => ProbedThisCall
  <2>1. NoCall.result = "none"
    BY DEF NoCall, ApiIdle
  <2> QED BY <2>1 DEF CallInv, ProbeInv, ProbedThisCall
<1> QED BY <1>1, <1>2, <1>3, PTL DEF Spec

-----------------------------------------------------------------------------
(***************************************************************************)
(* The records of the operations.                                          *)
(***************************************************************************)
(* What AuditLogProofs shows of the record holds in the agent.             *)
RecordInv == IF part = "audit" THEN RowsInv /\ GrowthInv ELSE audit = AuditIdle

LEMMA RecordInit == Init => RecordInv
<1>1. AuditStarts => AuditInit
  BY DEF AuditStarts
<1>2. AuditStarts => part = "audit"
  BY DEF AuditStarts
<1>3. RunStarts \/ ApiStarts \/ ScanStarts \/ EditStarts => part # "audit"
  BY DEF RunStarts, ApiStarts, ScanStarts, EditStarts
<1> QED BY <1>1, <1>2, <1>3, GrowthInit DEF Init, RecordInv

LEMMA RecordNext == RecordInv /\ [Next]_vars => RecordInv'
<1> SUFFICES ASSUME RecordInv, [Next]_vars PROVE RecordInv'
  OBVIOUS
<1>1. part' = part
  BY DEF Next, vars
<1>2. CASE part = "audit"
  <2>1. [AuditStep]_audit
    BY <1>2 DEF Next, RunStep, vars
  <2> QED BY <1>1, <1>2, <2>1, RowsNext, GrowthNext DEF RecordInv
<1>3. CASE part # "audit"
  <2>1. UNCHANGED audit
    BY <1>3 DEF Next, vars
  <2> QED BY <1>1, <1>3, <2>1 DEF RecordInv, AuditIdle
<1> QED BY <1>2, <1>3

(* No trim of the agent's audit file loses a row before its time           *)
(* (local_audit.rs).                                                       *)
THEOREM HostKeepsRows == Spec => []RowsKept
<1>1. audit = AuditIdle => RowsKept
  <2>1. AuditIdle.order = <<>>
    BY DEF AuditIdle
  <2> QED BY <2>1 DEF RowsKept
<1>2. RecordInv => RowsKept
  BY <1>1, RowsAreKept DEF RecordInv
<1> QED BY <1>2, RecordInit, RecordNext, PTL DEF Spec

(* And the file stays within its bound, whatever else fails.               *)
THEOREM HostBoundsRetention == Spec => []RetentionBound
<1>1. audit = AuditIdle => RetentionBound
  <2>1. /\ AuditIdle.log = <<>> /\ AuditIdle.errors = 0 /\ AuditIdle.crashes = 0
    BY DEF AuditIdle
  <2>2. CheckEvery \in Nat /\ TrimTrigger \in Nat
    BY AuditAssumption
  <2>3. CheckEvery * (1 + 0) = CheckEvery
    BY <2>2
  <2> QED BY <2>1, <2>2, <2>3 DEF RetentionBound
<1>2. RecordInv => RetentionBound
  BY <1>1, GrowthBounds DEF RecordInv
<1> QED BY <1>2, RecordInit, RecordNext, PTL DEF Spec
=============================================================================
