--------------------------- MODULE PendingResults ---------------------------
(***************************************************************************)
(* The durable store of background completions (pending_results.rs) under  *)
(* concurrent writers, a reader, a clock and process crashes.              *)
(*                                                                         *)
(* record() reads the wall clock, waits for the per-directory mutex,       *)
(* commits <name>.json atomically, prunes the directory to the cap and     *)
(* only then releases the mutex; drain() and clear() hold the same mutex   *)
(* throughout, so each is one step here.  The mutex dies with the process, *)
(* so a crash may fall between the commit and the prune of one record().   *)
(***************************************************************************)
EXTENDS Integers, PendingStore

CONSTANTS
  Names,      \* file stems, safe_name(job_id)
  Writers,    \* completing background tasks
  Cap,        \* MAX_PENDING_FILES
  TTL,        \* PENDING_TTL, in clock units
  MaxTime,    \* bound: last value of the clock
  MaxCrashes, \* bound: process crashes in a behaviour
  MaxFaults,  \* bound: I/O errors in a behaviour
  MaxSteps    \* bound: times the wall clock is set back

ASSUME NamesAssumption == Names \subseteq Nat /\ IsFiniteSet(Names)
ASSUME CapAssumption == Cap \in Nat \ {0}
ASSUME TimeAssumption == TTL \in Nat /\ MaxTime \in Nat
ASSUME BoundAssumption ==
  MaxCrashes \in Nat /\ MaxFaults \in Nat /\ MaxSteps \in Nat

Absent == [at |-> -1, mtime |-> -1]
Entry == [at : 0..MaxTime, mtime : 0..MaxTime]

VARIABLES
  files,   \* the directory: name -> entry, or Absent
  clock,   \* SystemTime::now()
  writer,  \* writer -> where it is inside record()
  crashes, \* spent bound
  faults,  \* spent bound
  steps    \* spent bound

spentVars == <<crashes, faults, steps>>
vars == <<files, clock, writer, crashes, faults, steps>>

Idle == [pc |-> "idle", name |-> -1, at |-> -1]

Present == {n \in Names : files[n] # Absent}
MTime == [n \in Present |-> files[n].mtime]
Excess == Victims(Present, MTime, Cap)

\* store_lock(dir): the mutex is held between the commit and the prune.
Held == \E w \in Writers : writer[w].pc = "pruning"

Without(gone) == [n \in Names |-> IF n \in gone THEN Absent ELSE files[n]]

Init ==
  /\ files = [n \in Names |-> Absent]
  /\ clock = 0
  /\ writer = [w \in Writers |-> Idle]
  /\ crashes = 0
  /\ faults = 0
  /\ steps = 0

-----------------------------------------------------------------------------
\* record(): `at` is read before the mutex is taken.
Begin(w, n) ==
  /\ writer[w].pc = "idle"
  /\ writer' = [writer EXCEPT ![w] = [pc |-> "waiting", name |-> n, at |-> clock]]
  /\ UNCHANGED <<files, clock, spentVars>>

\* The mutex, create_dir_all, AtomicWriteFile open / write / commit.  The clock
\* advances with it: an eviction mistake through equal mtimes alone would need
\* Cap files committed within one granule of the file system's timestamps.
Commit(w) ==
  /\ writer[w].pc = "waiting"
  /\ ~Held
  /\ clock < MaxTime
  /\ files' = [files EXCEPT ![writer[w].name] =
                 [at |-> writer[w].at, mtime |-> clock]]
  /\ clock' = clock + 1
  /\ writer' = [writer EXCEPT ![w].pc = "pruning"]
  /\ UNCHANGED spentVars

\* An I/O error before the commit: record() returns None and leaves no file.
CommitFails(w) ==
  /\ writer[w].pc = "waiting"
  /\ ~Held
  /\ faults < MaxFaults
  /\ faults' = faults + 1
  /\ writer' = [writer EXCEPT ![w] = Idle]
  /\ UNCHANGED <<files, clock, crashes, steps>>

NoPrune(w) == \* defect: the cap is not enforced
  /\ writer[w].pc = "pruning"
  /\ writer' = [writer EXCEPT ![w] = Idle]
  /\ UNCHANGED <<files, clock, spentVars>>

\* The prune; record() then returns Some(path) and releases the mutex.
Prune(w) ==
  /\ writer[w].pc = "pruning"
  /\ files' = Without(Excess)
  /\ writer' = [writer EXCEPT ![w] = Idle]
  /\ UNCHANGED <<clock, spentVars>>

\* A prune that could not list the directory or remove one of its victims:
\* the errors are only logged and record() still returns Some(path).
PruneFails(w) ==
  /\ writer[w].pc = "pruning"
  /\ faults < MaxFaults
  /\ faults' = faults + 1
  /\ \E kept \in {{n} : n \in Excess} \cup {Excess} :
       files' = Without(Excess \ kept)
  /\ writer' = [writer EXCEPT ![w] = Idle]
  /\ UNCHANGED <<clock, crashes, steps>>

\* drain(): expired entries are removed, the others are returned.
Expired == {n \in Present : clock - files[n].at > TTL}

Drain ==
  /\ ~Held
  /\ files' = Without(Expired)
  /\ UNCHANGED <<clock, writer, spentVars>>

\* clear(path): after a successful send.
Clear(n) ==
  /\ ~Held
  /\ n \in Present
  /\ files' = Without({n})
  /\ UNCHANGED <<clock, writer, spentVars>>

-----------------------------------------------------------------------------
Tick ==
  /\ clock < MaxTime
  /\ clock' = clock + 1
  /\ UNCHANGED <<files, writer, spentVars>>

\* The wall clock is corrected backwards.
StepBack ==
  /\ steps < MaxSteps
  /\ steps' = steps + 1
  /\ \E earlier \in 0..(clock - 1) : clock' = earlier
  /\ UNCHANGED <<files, writer, crashes, faults>>

\* The process dies: every record() in progress is cut where it stands.
Crash ==
  /\ crashes < MaxCrashes
  /\ crashes' = crashes + 1
  /\ writer' = [w \in Writers |-> Idle]
  /\ UNCHANGED <<files, clock, faults, steps>>

Next ==
  \/ \E w \in Writers, n \in Names : Begin(w, n)
  \/ \E w \in Writers : Commit(w)
  \/ \E w \in Writers : CommitFails(w)
  \/ \E w \in Writers : Prune(w)
  \/ \E w \in Writers : PruneFails(w)
  \/ Drain
  \/ \E n \in Names : Clear(n)
  \/ Tick
  \/ StepBack
  \/ Crash

Spec == Init /\ [][Next]_vars

-----------------------------------------------------------------------------
(* record() holds the backlog at the cap.  It may exceed it by the record  *)
(* that still has to prune, by one file for each crash that cut a record   *)
(* short, and by one for each prune whose errors were only logged; the     *)
(* next record() that is not disturbed brings it back.                     *)
BacklogBound ==
  Cardinality(Present) <= Cap + crashes + faults + (IF Held THEN 1 ELSE 0)

(* A record() that returns Some(path) has left its own file there: pruning *)
(* never takes the completion it was called for, whoever else is writing.  *)
(* It holds only as long as the wall clock is not set back: after that the *)
(* files written before it look newer than the one just committed.         *)
RecordReturned(w) == writer[w].pc = "pruning" /\ writer'[w] = Idle /\ crashes' = crashes

RecordedSurvives ==
  [][\A w \in Writers : RecordReturned(w) /\ steps = 0 =>
       files'[writer[w].name] # Absent]_vars

(* The store evicts the oldest completions first: whatever a prune leaves  *)
(* behind is at least as recent as everything it removed, and a prune that *)
(* finds the store within its cap removes nothing.                         *)
PrunedFiles == {n \in Present : files'[n] = Absent}

EvictsOldestFirst ==
  [][(\E w \in Writers : RecordReturned(w)) /\ faults' = faults =>
       /\ \A n \in PrunedFiles, m \in Present \ PrunedFiles :
            files[m].mtime >= files[n].mtime
       /\ Cardinality(Present) <= Cap => PrunedFiles = {}]_vars
=============================================================================
