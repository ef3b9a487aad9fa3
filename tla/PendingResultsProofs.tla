------------------------ MODULE PendingResultsProofs ------------------------
(***************************************************************************)
(* Proofs about PendingResults: for any number of writers and names, every *)
(* cap, clock, crash and I/O error.                                        *)
(***************************************************************************)
EXTENDS PendingResults, FiniteSetTheorems, WellFoundedInduction, TLAPS

(***************************************************************************)
(* The eviction rule.                                                      *)
(***************************************************************************)

\* Of some files one comes first in the listing.
LEMMA FirstListed ==
  ASSUME NEW S \in SUBSET Nat, IsFiniteSet(S), S # {},
         NEW mtime, \A n \in S : mtime[n] \in Nat
  PROVE  \E n \in S : \A m \in S \ {n} : Later(mtime, m, n)
<1> DEFINE UpTo(n) == {m \in S : m = n \/ Later(mtime, n, m)}
           T == {UpTo(n) : n \in S}
<1>1. T \subseteq FiniteSubsetsOf(S) /\ T # {}
  <2>1. ASSUME NEW n \in S PROVE UpTo(n) \in FiniteSubsetsOf(S)
    BY FS_FiniteSubsetsOfFinite
  <2> QED BY <2>1
<1>2. PICK first \in T : \A U \in T : <<U, first>> \notin StrictSubsetOrdering(S)
  <2> HIDE DEF T
  <2> QED BY <1>1, FS_StrictSubsetOrderingWellFounded, WFMin
<1>3. PICK n \in S : first = UpTo(n)
  OBVIOUS
<1>4. ASSUME NEW m \in S \ {n}, ~Later(mtime, m, n) PROVE FALSE
  <2>1. Later(mtime, n, m)
    BY <1>4 DEF Later
  <2>2. UpTo(m) \subseteq UpTo(n)
    <3>1. ASSUME NEW k \in S, Later(mtime, m, k) PROVE Later(mtime, n, k)
      BY <2>1, <3>1 DEF Later
    <3> QED BY <2>1, <3>1
  <2>3. n \in UpTo(n) /\ n \notin UpTo(m)
    BY <1>4
  <2>4. <<UpTo(m), UpTo(n)>> \in StrictSubsetOrdering(S)
    BY <2>2, <2>3 DEF StrictSubsetOrdering
  <2> QED BY <1>2, <1>3, <2>4
<1> QED BY <1>4

\* What the prune keeps is within the cap.
LEMMA KeptWithinCap ==
  ASSUME NEW dir \in SUBSET Nat, IsFiniteSet(dir), NEW mtime,
         \A n \in dir : mtime[n] \in Nat, NEW cap \in Nat \ {0}
  PROVE  Cardinality(dir \ Victims(dir, mtime, cap)) <= cap
<1> DEFINE kept == dir \ Victims(dir, mtime, cap)
<1>1. CASE kept = {}
  BY <1>1, FS_EmptySet
<1>2. CASE kept # {}
  <2>1. kept \in SUBSET Nat /\ \A n \in kept : mtime[n] \in Nat
    OBVIOUS
  <2>2. PICK n \in kept : \A m \in kept \ {n} : Later(mtime, m, n)
    <3>1. IsFiniteSet(kept)
      BY FS_Subset
    <3> HIDE DEF kept
    <3> QED BY <1>2, <2>1, <3>1, FirstListed
  <2> DEFINE A == After(dir, mtime, n)
  <2>3. IsFiniteSet(A) /\ Cardinality(A) \in Nat
    <3>1. A \subseteq dir
      BY DEF After
    <3> QED BY <3>1, FS_Subset, FS_CardinalityType
  <2>4. Cardinality(A) < cap
    BY <2>3 DEF Victims
  <2>5. kept \subseteq A \cup {n}
    BY <2>2 DEF After
  <2> HIDE DEF A, kept
  <2>6. /\ IsFiniteSet(A \cup {n})
        /\ Cardinality(A \cup {n}) = IF n \in A THEN Cardinality(A) ELSE Cardinality(A) + 1
    BY <2>3, FS_AddElement
  <2>7. /\ Cardinality(kept) <= Cardinality(A \cup {n})
        /\ Cardinality(kept) \in Nat /\ Cardinality(A \cup {n}) \in Nat
    BY <2>5, <2>6, FS_Subset, FS_CardinalityType
  <2>8. Cardinality(kept) <= cap
    BY <2>3, <2>4, <2>6, <2>7
  <2> QED BY <2>8 DEF kept
<1> QED BY <1>1, <1>2

\* The prune takes the earliest files of the listing.
LEMMA VictimsComeFirst ==
  ASSUME NEW dir \in SUBSET Nat, IsFiniteSet(dir), NEW mtime,
         \A n \in dir : mtime[n] \in Nat, NEW cap \in Nat \ {0},
         NEW n \in Victims(dir, mtime, cap)
  PROVE  /\ \A m \in dir \ Victims(dir, mtime, cap) : mtime[m] >= mtime[n]
         /\ Cardinality(dir) > cap
<1>1. n \in dir /\ Cardinality(After(dir, mtime, n)) >= cap
  BY DEF Victims
<1>2. ASSUME NEW m \in dir PROVE After(dir, mtime, m) \subseteq dir
  BY DEF After
<1>3. \A m \in dir : /\ IsFiniteSet(After(dir, mtime, m))
                     /\ Cardinality(After(dir, mtime, m)) \in Nat
  BY <1>2, FS_Subset, FS_CardinalityType
<1>4. ASSUME NEW m \in dir, mtime[m] < mtime[n] PROVE m \in Victims(dir, mtime, cap)
  <2>1. \A k \in dir : Later(mtime, k, n) => Later(mtime, k, m)
    BY <1>1, <1>4 DEF Later
  <2>2. After(dir, mtime, n) \subseteq After(dir, mtime, m)
    BY <2>1 DEF After
  <2>3. Cardinality(After(dir, mtime, n)) <= Cardinality(After(dir, mtime, m))
    BY <1>3, <2>2, FS_Subset
  <2>4. Cardinality(After(dir, mtime, m)) >= cap
    BY <1>1, <1>3, <2>3
  <2> QED BY <2>4 DEF Victims
<1>5. Cardinality(dir) > cap
  <2>1. After(dir, mtime, n) \subseteq dir \ {n}
    BY <1>1 DEF After, Later
  <2>2. IsFiniteSet(dir \ {n}) /\ Cardinality(dir \ {n}) = Cardinality(dir) - 1
    BY <1>1, FS_RemoveElement
  <2>3. Cardinality(After(dir, mtime, n)) <= Cardinality(dir \ {n})
    BY <2>1, <2>2, FS_Subset
  <2>4. Cardinality(dir) \in Nat
    BY FS_CardinalityType
  <2> QED BY <1>1, <1>3, <2>2, <2>3, <2>4
<1> QED BY <1>1, <1>4, <1>5

\* The latest file is never a victim.
LEMMA LatestStays ==
  ASSUME NEW dir, NEW mtime, NEW cap \in Nat \ {0}, NEW n \in dir,
         \A m \in dir : ~Later(mtime, m, n)
  PROVE  n \notin Victims(dir, mtime, cap)
<1>1. After(dir, mtime, n) = {}
  BY DEF After
<1>2. Cardinality(After(dir, mtime, n)) = 0
  BY <1>1, FS_EmptySet
<1> QED BY <1>2 DEF Victims

(***************************************************************************)
(* The backlog.                                                            *)
(***************************************************************************)

Shape ==
  /\ files \in [Names -> [at : Nat, mtime : Nat] \cup {Absent}]
  /\ clock \in Nat
  /\ writer \in [Writers -> [pc : {"idle", "waiting", "pruning"}, name : Names \cup {-1},
                             at : Nat \cup {-1}]]
  /\ \A w \in Writers : writer[w].pc # "idle" => writer[w].name \in Names /\ writer[w].at \in Nat
  /\ crashes \in Nat /\ faults \in Nat /\ steps \in Nat

\* The mutex: one writer at a time is between its commit and its prune.
OnePruning ==
  \A v, w \in Writers : writer[v].pc = "pruning" /\ writer[w].pc = "pruning" => v = w

\* Until the clock is set back, all files are older than it, and the file of
\* the writer that is to prune is the youngest.
InOrder ==
  steps = 0 =>
    /\ \A n \in Present : files[n].mtime < clock
    /\ \A w \in Writers : writer[w].pc = "pruning" =>
         /\ writer[w].name \in Present
         /\ \A n \in Present \ {writer[w].name} :
              files[n].mtime < files[writer[w].name].mtime

StoreInv == Shape /\ OnePruning /\ InOrder /\ BacklogBound

\* The files of a shaped store are those that the eviction rule is about.
LEMMA Directory ==
  ASSUME Shape
  PROVE  /\ Present \in SUBSET Nat /\ IsFiniteSet(Present) /\ Cardinality(Present) \in Nat
         /\ \A n \in Present : MTime[n] \in Nat /\ MTime[n] = files[n].mtime
         /\ Cardinality(Present \ Excess) <= Cap
<1>1. Present \in SUBSET Nat /\ IsFiniteSet(Present)
  BY NamesAssumption, FS_Subset DEF Present
<1>2. \A n \in Present : MTime[n] \in Nat /\ MTime[n] = files[n].mtime
  BY DEF Shape, Present, MTime
<1>3. Cardinality(Present \ Excess) <= Cap
  BY <1>1, <1>2, KeptWithinCap, CapAssumption DEF Excess
<1> QED BY <1>1, <1>2, <1>3, FS_CardinalityType

LEMMA StoreInit == Init => StoreInv
<1> SUFFICES ASSUME Init PROVE StoreInv
  OBVIOUS
<1>1. Present = {}
  BY DEF Init, Present
<1>2. Cardinality(Present) = 0
  BY <1>1, FS_EmptySet
<1>3. ~Held
  BY DEF Init, Held, Idle
<1>4. Shape
  BY DEF Init, Shape, Idle, Absent
<1>5. OnePruning /\ InOrder
  BY <1>1 DEF Init, OnePruning, InOrder, Idle
<1>6. BacklogBound
  BY <1>2, <1>3, CapAssumption DEF Init, BacklogBound
<1> QED BY <1>4, <1>5, <1>6 DEF StoreInv

LEMMA ShapeNext == Shape /\ [Next]_vars => Shape'
<1> SUFFICES ASSUME Shape, [Next]_vars PROVE Shape'
  OBVIOUS
<1> USE DEF Shape, spentVars
<1>1. ASSUME NEW w \in Writers, NEW n \in Names, Begin(w, n) PROVE Shape'
  BY <1>1 DEF Begin
<1>2. ASSUME NEW w \in Writers, Commit(w) PROVE Shape'
  BY <1>2 DEF Commit
<1>3. ASSUME NEW w \in Writers, CommitFails(w) PROVE Shape'
  BY <1>3 DEF CommitFails, Idle
<1>4. ASSUME NEW w \in Writers, Prune(w) PROVE Shape'
  BY <1>4 DEF Prune, Idle, Without
<1>5. ASSUME NEW w \in Writers, PruneFails(w) PROVE Shape'
  BY <1>5 DEF PruneFails, Idle, Without
<1>6. CASE Drain
  BY <1>6 DEF Drain, Without
<1>7. ASSUME NEW n \in Names, Clear(n) PROVE Shape'
  BY <1>7 DEF Clear, Without
<1>8. CASE Tick
  BY <1>8 DEF Tick
<1>9. CASE StepBack
  BY <1>9 DEF StepBack
<1>10. CASE Crash
  BY <1>10 DEF Crash, Idle
<1>11. CASE UNCHANGED vars
  BY <1>11 DEF vars
<1> QED
  BY <1>1, <1>2, <1>3, <1>4, <1>5, <1>6, <1>7, <1>8, <1>9, <1>10, <1>11 DEF Next

\* A step that adds no file and takes no writer into its prune.
LEMMA Shrinking ==
  ASSUME StoreInv, Shape', Present' \subseteq Present,
         \A n \in Present' : files'[n] = files[n],
         \A w \in Writers : writer'[w].pc = "pruning" => writer'[w] = writer[w],
         \A w \in Writers : writer'[w].pc = "pruning" => Present' = Present,
         steps' >= steps, steps' = steps => clock' >= clock,
         Cardinality(Present') <= Cap + crashes' + faults' + (IF Held' THEN 1 ELSE 0)
  PROVE  StoreInv'
<1> USE DEF StoreInv
<1>1. OnePruning'
  BY DEF OnePruning
<1>2. InOrder'
  BY DEF InOrder, Shape, Present
<1>3. BacklogBound'
  BY DEF BacklogBound
<1> QED BY <1>1, <1>2, <1>3

\* A commit is the newest file, and at most one more.
LEMMA Committed ==
  ASSUME StoreInv, Shape', NEW w \in Writers, Commit(w)
  PROVE  StoreInv'
<1> USE DEF StoreInv, spentVars
<1> DEFINE n == writer[w].name
<1>1. /\ ~Held /\ n \in Names
      /\ files' = [files EXCEPT ![n] = [at |-> writer[w].at, mtime |-> clock]]
      /\ clock' = clock + 1 /\ writer' = [writer EXCEPT ![w].pc = "pruning"]
      /\ UNCHANGED <<crashes, faults, steps>>
  BY DEF Commit, Shape
<1>2. files'[n] # Absent /\ files'[n].mtime = clock
  BY <1>1 DEF Shape, Absent
<1>3. Present' = Present \cup {n}
  BY <1>1, <1>2 DEF Present, Shape
<1>4. writer'[w].pc = "pruning" /\ writer'[w].name = n
  BY <1>1 DEF Shape
<1>5. \A v \in Writers : writer'[v].pc = "pruning" => v = w
  BY <1>1 DEF Held, Shape
<1>6. InOrder'
  BY <1>1, <1>2, <1>3, <1>4, <1>5 DEF InOrder, Shape, Present
<1>7. Cardinality(Present') <= Cardinality(Present) + 1
  BY <1>3, Directory, FS_AddElement
<1>8. BacklogBound'
  <2>1. Held'
    BY <1>4 DEF Held
  <2>2. Cardinality(Present) <= Cap + crashes + faults
    BY <1>1, CapAssumption, Directory DEF BacklogBound, Shape
  <2>3. Cardinality(Present') \in Nat /\ Cardinality(Present) \in Nat
    BY <1>3, Directory, FS_AddElement, FS_CardinalityType
  <2> QED BY <1>1, <1>7, <2>1, <2>2, <2>3, CapAssumption DEF BacklogBound, Shape
<1> QED BY <1>5, <1>6, <1>8 DEF OnePruning

\* What a prune leaves when it removes all of its victims, or all but one.
LEMMA Pruned ==
  ASSUME Shape, NEW gone, gone \subseteq Excess, files' = Without(gone)
  PROVE  /\ Present' = Present \ gone
         /\ \A n \in Present' : files'[n] = files[n]
         /\ IsFiniteSet(Present') /\ Cardinality(Present') \in Nat
         /\ Cardinality(Present') <= Cardinality(Present)
         /\ gone = Excess => Cardinality(Present') <= Cap
         /\ \A n \in Excess : gone = Excess \ {n} => Cardinality(Present') <= Cap + 1
<1>1. Present' = Present \ gone /\ \A n \in Present' : files'[n] = files[n]
  BY DEF Present, Without
<1>2. /\ IsFiniteSet(Present') /\ Cardinality(Present') \in Nat
      /\ Cardinality(Present') <= Cardinality(Present)
  BY <1>1, Directory, FS_Subset, FS_CardinalityType
<1>3. gone = Excess => Cardinality(Present') <= Cap
  BY <1>1, Directory
<1>4. ASSUME NEW n \in Excess, gone = Excess \ {n} PROVE Cardinality(Present') <= Cap + 1
  <2> DEFINE kept == Present \ Excess
  <2>1. Present' \subseteq kept \cup {n}
    BY <1>1, <1>4
  <2>2. IsFiniteSet(kept) /\ Cardinality(kept) \in Nat /\ Cardinality(kept) <= Cap
    BY Directory, FS_Subset, FS_CardinalityType
  <2> HIDE DEF kept
  <2>3. /\ IsFiniteSet(kept \cup {n})
        /\ Cardinality(kept \cup {n}) = IF n \in kept THEN Cardinality(kept)
                                        ELSE Cardinality(kept) + 1
    BY <2>2, FS_AddElement
  <2>4. Cardinality(Present') <= Cardinality(kept \cup {n})
    BY <2>1, <2>3, FS_Subset
  <2> QED BY <1>2, <2>2, <2>3, <2>4, CapAssumption
<1> QED BY <1>1, <1>2, <1>3, <1>4

LEMMA StoreNext == StoreInv /\ [Next]_vars => StoreInv'
<1> SUFFICES ASSUME StoreInv, [Next]_vars PROVE StoreInv'
  OBVIOUS
<1>1. Shape' /\ Shape
  BY ShapeNext DEF StoreInv
<1> DEFINE Bound == Cap + crashes + faults
<1>2. /\ Bound \in Nat
      /\ Cardinality(Present) <= Bound + (IF Held THEN 1 ELSE 0)
      /\ Cardinality(Present) \in Nat
  BY <1>1, CapAssumption, Directory DEF StoreInv, BacklogBound, Shape
<1> USE DEF spentVars
<1>3. ASSUME NEW w \in Writers, Commit(w) PROVE StoreInv'
  BY <1>1, <1>3, Committed
<1>4. ASSUME NEW w \in Writers, Prune(w) \/ PruneFails(w) PROVE StoreInv'
  <2>1. PICK gone \in SUBSET Excess :
          /\ files' = Without(gone)
          /\ \/ gone = Excess /\ faults' = faults
             \/ faults' = faults + 1 /\ (gone = {} \/ \E n \in Excess : gone = Excess \ {n})
    BY <1>4 DEF Prune, PruneFails
  <2>2. /\ writer[w].pc = "pruning" /\ writer' = [writer EXCEPT ![w] = Idle]
        /\ UNCHANGED <<clock, crashes, steps>>
    BY <1>4 DEF Prune, PruneFails
  <2>3. \A v \in Writers : writer'[v].pc # "pruning"
    BY <1>1, <2>2 DEF StoreInv, OnePruning, Shape, Idle
  <2>4. ~Held'
    BY <2>3 DEF Held
  <2>5. Cardinality(Present') <= Cap + crashes' + faults'
    <3>1. /\ Cardinality(Present') \in Nat
          /\ Cardinality(Present') <= Cardinality(Present)
          /\ gone = Excess => Cardinality(Present') <= Cap
          /\ \A n \in Excess : gone = Excess \ {n} => Cardinality(Present') <= Cap + 1
      BY <1>1, <2>1, Pruned
    <3> QED BY <1>1, <1>2, <2>1, <2>2, <3>1, CapAssumption DEF Shape
  <2>6. Present' \subseteq Present /\ \A n \in Present' : files'[n] = files[n]
    BY <1>1, <2>1, Pruned
  <2>7. Cardinality(Present') <= Cap + crashes' + faults' + (IF Held' THEN 1 ELSE 0)
    BY <1>1, <2>4, <2>5, CapAssumption DEF Shape
  <2> QED BY <1>1, <2>2, <2>3, <2>6, <2>7, Shrinking DEF Shape
<1>5. ASSUME Drain \/ \E n \in Names : Clear(n) PROVE StoreInv'
  <2>1. PICK gone : files' = Without(gone)
    BY <1>5 DEF Drain, Clear
  <2>2. /\ Present' \subseteq Present /\ \A n \in Present' : files'[n] = files[n]
        /\ IsFiniteSet(Present)
    BY <1>1, <2>1, Directory DEF Present, Without
  <2>3. ~Held /\ UNCHANGED <<clock, writer, crashes, faults, steps>>
    BY <1>5 DEF Drain, Clear
  <2>4. Cardinality(Present') <= Cardinality(Present) /\ Cardinality(Present') \in Nat
    BY <2>2, FS_Subset, FS_CardinalityType
  <2>5. ~Held' /\ \A w \in Writers : writer'[w].pc # "pruning"
    BY <2>3 DEF Held
  <2> QED BY <1>1, <1>2, <2>2, <2>3, <2>4, <2>5, Shrinking DEF Shape
<1>6. ASSUME \/ \E w \in Writers, n \in Names : Begin(w, n)
             \/ \E w \in Writers : CommitFails(w)
             \/ Tick \/ StepBack \/ Crash \/ UNCHANGED vars
      PROVE  StoreInv'
  <2>1. files' = files /\ Present' = Present
    BY <1>6 DEF Begin, CommitFails, Tick, StepBack, Crash, vars, Present
  <2>2. /\ \A w \in Writers : writer'[w].pc = "pruning" => writer'[w] = writer[w]
        /\ Held => Held' \/ crashes' = crashes + 1
        /\ steps' >= steps /\ (steps' = steps => clock' >= clock)
        /\ crashes' >= crashes /\ faults' >= faults
    <3> USE <1>1 DEF Shape, Held
    <3>1. CASE \E w \in Writers, n \in Names : Begin(w, n)
      BY <3>1 DEF Begin
    <3>2. CASE \E w \in Writers : CommitFails(w)
      BY <3>2 DEF CommitFails, Idle
    <3>3. CASE Tick \/ StepBack \/ Crash \/ UNCHANGED vars
      BY <3>3 DEF Tick, StepBack, Crash, vars, Idle
    <3> QED BY <1>6, <3>1, <3>2, <3>3
  <2>3. Cardinality(Present') <= Cap + crashes' + faults' + (IF Held' THEN 1 ELSE 0)
    BY <1>1, <1>2, <2>1, <2>2, CapAssumption DEF Shape
  <2> QED BY <1>1, <2>1, <2>2, <2>3, Shrinking
<1> QED BY <1>3, <1>4, <1>5, <1>6 DEF Next

(* The backlog stays at the cap, but for the record() that has still to    *)
(* prune and for what crashes and I/O errors cut short                     *)
(* (pending_results.rs: record, prune), whoever writes.                    *)
THEOREM BacklogBoundHolds == Spec => []BacklogBound
<1>1. StoreInv => BacklogBound
  BY DEF StoreInv
<1> QED BY StoreInit, StoreNext, <1>1, PTL DEF Spec

\* A record() that returns has pruned, and nothing else.
LEMMA Returning ==
  ASSUME StoreInv, [Next]_vars, NEW w \in Writers, RecordReturned(w)
  PROVE  Prune(w) \/ PruneFails(w)
<1> USE DEF RecordReturned, StoreInv, Shape, Idle, spentVars
<1>1. ASSUME NEW v \in Writers, NEW n \in Names, Begin(v, n) PROVE FALSE
  BY <1>1 DEF Begin
<1>2. ASSUME NEW v \in Writers, Commit(v) PROVE FALSE
  BY <1>2 DEF Commit, Held
<1>3. ASSUME NEW v \in Writers, CommitFails(v) PROVE FALSE
  BY <1>3 DEF CommitFails, Held
<1>4. ASSUME NEW v \in Writers, Prune(v) \/ PruneFails(v)
      PROVE  Prune(w) \/ PruneFails(w)
  <2>1. v = w
    BY <1>4 DEF Prune, PruneFails, OnePruning
  <2> QED BY <1>4, <2>1
<1>5. CASE \/ Drain \/ (\E n \in Names : Clear(n)) \/ Tick \/ StepBack \/ Crash
           \/ UNCHANGED vars
  <2>1. writer' = writer \/ crashes' = crashes + 1
    BY <1>5 DEF Drain, Clear, Tick, StepBack, Crash, vars
  <2> QED BY <2>1
<1> HIDE DEF RecordReturned, StoreInv, Shape, Idle, spentVars
<1> QED BY <1>1, <1>2, <1>3, <1>4, <1>5 DEF Next

(* A record() that returns has left its own file in the store, as long as  *)
(* the wall clock has not been set back: no other writer's prune, and not  *)
(* its own, takes the completion it was called for.                        *)
THEOREM RecordedSurvivesHolds == Spec => RecordedSurvives
<1>1. ASSUME StoreInv, [Next]_vars, NEW w \in Writers, RecordReturned(w), steps = 0
      PROVE  files'[writer[w].name] # Absent
  <2> DEFINE n == writer[w].name
  <2>1. /\ n \in Present
        /\ \A m \in Present \ {n} : files[m].mtime < files[n].mtime
    BY <1>1 DEF StoreInv, InOrder, RecordReturned
  <2>2. n \notin Excess
    <3>1. /\ Present \in SUBSET Nat
          /\ \A m \in Present : MTime[m] \in Nat /\ MTime[m] = files[m].mtime
      BY <1>1, Directory DEF StoreInv
    <3>2. ASSUME NEW m \in Present PROVE ~Later(MTime, m, n)
      <4>1. MTime[m] < MTime[n] \/ m = n
        BY <2>1, <3>1
      <4>2. MTime[m] \in Nat /\ MTime[n] \in Nat /\ n \in Nat
        BY <2>1, <3>1
      <4> HIDE DEF n
      <4> QED BY <4>1, <4>2 DEF Later
    <3> QED BY <2>1, <3>2, LatestStays, CapAssumption DEF Excess
  <2>3. PICK gone \in SUBSET Excess : files' = Without(gone)
    BY <1>1, Returning DEF Prune, PruneFails
  <2> QED BY <2>1, <2>2, <2>3 DEF Without, Present
<1>2. StoreInv /\ [Next]_vars =>
        [\A w \in Writers : RecordReturned(w) /\ steps = 0 =>
           files'[writer[w].name] # Absent]_vars
  BY <1>1
<1> QED BY StoreInit, StoreNext, <1>2, PTL DEF Spec, RecordedSurvives

(* An undisturbed prune evicts the oldest completions and only when the    *)
(* store is over its cap (pending_results.rs: json_files, prune).          *)
THEOREM EvictsOldestFirstHolds == Spec => EvictsOldestFirst
<1> DEFINE Evicts ==
      (\E w \in Writers : RecordReturned(w)) /\ faults' = faults =>
        /\ \A n \in PrunedFiles, m \in Present \ PrunedFiles :
             files[m].mtime >= files[n].mtime
        /\ Cardinality(Present) <= Cap => PrunedFiles = {}
<1>1. ASSUME StoreInv, [Next]_vars, NEW w \in Writers, RecordReturned(w), faults' = faults
      PROVE  /\ \A n \in PrunedFiles, m \in Present \ PrunedFiles :
                  files[m].mtime >= files[n].mtime
             /\ Cardinality(Present) <= Cap => PrunedFiles = {}
  <2>1. files' = Without(Excess)
    BY <1>1, Returning DEF Prune, PruneFails, StoreInv, Shape
  <2>2. Excess \subseteq Present
    BY DEF Excess, Victims
  <2>3. PrunedFiles = Excess
    BY <2>1, <2>2 DEF PrunedFiles, Without, Present
  <2>4. /\ Present \in SUBSET Nat /\ IsFiniteSet(Present) /\ Cardinality(Present) \in Nat
        /\ \A n \in Present : MTime[n] \in Nat /\ MTime[n] = files[n].mtime
    BY <1>1, Directory DEF StoreInv
  <2>5. \A n \in Excess : /\ \A m \in Present \ Excess : MTime[m] >= MTime[n]
                          /\ Cardinality(Present) > Cap
    BY <2>4, VictimsComeFirst, CapAssumption DEF Excess
  <2>6. \A n \in PrunedFiles, m \in Present \ PrunedFiles : files[m].mtime >= files[n].mtime
    BY <2>2, <2>3, <2>4, <2>5
  <2>7. Cardinality(Present) <= Cap => PrunedFiles = {}
    BY <2>3, <2>4, <2>5, CapAssumption
  <2> QED BY <2>6, <2>7
<1>2. StoreInv /\ [Next]_vars => [Evicts]_vars
  BY <1>1
<1> QED BY StoreInit, StoreNext, <1>2, PTL DEF Spec, EvictsOldestFirst
=============================================================================
